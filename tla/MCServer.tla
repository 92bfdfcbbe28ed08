------------------------------ MODULE MCServer -------------------------------
EXTENDS Server

\* POSIX as it should be, a full POSIX disk, and Windows with everything failing.
MCPlatforms ==
    { [replacing |-> TRUE, faults |-> {"open", "write"}, wakes |-> TRUE],
      [replacing |-> TRUE, faults |-> {"open", "write"}, wakes |-> FALSE],
      [replacing |-> FALSE, faults |-> {"read", "open", "write", "rename", "remove"}, wakes |-> TRUE] }
=============================================================================
