SPECIFICATION FairSpec
CONSTANT MaxFrames = 5
INVARIANT EveryFrameCounted
PROPERTY NewestUnlessOvertaken
PROPERTY ShowsLastFrame
CHECK_DEADLOCK FALSE
