SPECIFICATION FairSpec
CONSTANTS
    Us <- MCUs
    Loop <- MCLoop
    Tap <- MCTap
    Pairs <- MCPairs
    Destinations <- MCDestinations
    Senders = {"app"}
    Halves = {1, 2, 3}
INVARIANTS CacheSound FramesReachGateway RepliesSound
PROPERTIES ReceiverNeverLearns OutputEnds FrameSent
