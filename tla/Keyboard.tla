------------------------------ MODULE Keyboard ------------------------------
(***************************************************************************)
(* The forty keys, where each is wired, what a read of the port makes of   *)
(* them, and which of them a key of the host's holds down: keyboard.rs and *)
(* keymap.rs of rkw-spectrum.                                              *)
(*                                                                         *)
(* A byte or a word of bits is the set of the bits that are 1.             *)
(***************************************************************************)
EXTENDS Integers, Sequences

HalfRows == 0 .. 7      \* one for each address line from A8 to A15
Columns == 0 .. 4

\* The order is the wiring.
Keys == <<"CapsShift", "Z", "X", "C", "V",
          "A", "S", "D", "F", "G",
          "Q", "W", "E", "R", "T",
          "1", "2", "3", "4", "5",
          "0", "9", "8", "7", "6",
          "P", "O", "I", "U", "Y",
          "Enter", "L", "K", "J", "H",
          "Space", "SymbolShift", "M", "N", "B">>

Position == [key \in {Keys[n] : n \in DOMAIN Keys} |->
                CHOOSE n \in 0 .. 39 : Keys[n + 1] = key]
HalfRow(key) == Position[key] \div 5
Column(key) == Position[key] % 5

(* A keyboard is its half-rows: in each, the columns of the keys down. *)
NoKeys == [r \in HalfRows |-> {}]
Holding(down) == [r \in HalfRows |-> {Column(key) : key \in {k \in down : HalfRow(k) = r}}]

Matrix(keyboard) == UNION {{5 * r + c : c \in keyboard[r]} : r \in HalfRows}
FromMatrix(bits) == [r \in HalfRows |-> {c \in Columns : 5 * r + c \in bits}]

(* Every half-row whose address line is low answers, and a key down is a 0. *)
Read(keyboard, low) == Columns \ UNION {keyboard[r] : r \in low \cap HalfRows}

(* KeyMap::PC.  A letter's or a digit's key has the name of the machine's.  *)
PC(host) ==
    CASE host \in {"Enter", "Space"} -> {host}
      [] host = "Shift" -> {"CapsShift"}
      [] host \in {"Ctrl", "Alt"} -> {"SymbolShift"}
      [] host = "Backspace" -> {"CapsShift", "0"}
      [] host = "Escape" -> {"CapsShift", "Space"}
      [] host = "Left" -> {"CapsShift", "5"}
      [] host = "Down" -> {"CapsShift", "6"}
      [] host = "Up" -> {"CapsShift", "7"}
      [] host = "Right" -> {"CapsShift", "8"}
      [] host = "," -> {"SymbolShift", "N"}
      [] host = "." -> {"SymbolShift", "M"}
      [] host = ";" -> {"SymbolShift", "O"}
      [] host = "'" -> {"SymbolShift", "7"}
      [] host = "-" -> {"SymbolShift", "J"}
      [] host = "=" -> {"SymbolShift", "L"}
      [] host = "/" -> {"SymbolShift", "V"}
      [] host = "\\" -> {"SymbolShift", "D"}
      [] host \in DOMAIN Position \ {"CapsShift", "SymbolShift"} -> {host}
      [] OTHER -> {}
=============================================================================
