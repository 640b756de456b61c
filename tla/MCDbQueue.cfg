\* Three slots, so that the queue is full, empty and wrapped; the network thread
\* stops after the last post, so the run ends.
CONSTANTS
    None = None
    Capacity = 3
    MaxPosts = 7
SPECIFICATION DbSpec
INVARIANTS DbTypeOK RunAtMostOnce
CHECK_DEADLOCK FALSE
