------------------------------ MODULE ServerMC ------------------------------
(* Server with the values a configuration file cannot hold.                 *)
EXTENDS Server

\* REAPER_INTERVAL unset, a duration, zero, negative, and not a duration.
SomeIntervals ==
  { [text |-> "empty", value |-> 0], [text |-> "duration", value |-> 5],
    [text |-> "duration", value |-> 0], [text |-> "duration", value |-> -5],
    [text |-> "other", value |-> 0] }
=============================================================================
