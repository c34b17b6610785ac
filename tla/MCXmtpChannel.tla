---------------------------- MODULE MCXmtpChannel ----------------------------
(***************************************************************************)
(* Small instances of XmtpChannel.                                         *)
(***************************************************************************)
EXTENDS XmtpChannel

Case(b, r, ms, os, ws, n, fs) ==
  [busy |-> b, reply |-> r, msgs |-> ms, outs |-> os, wakes |-> ws, budget |-> n,
   faults |-> fs]

(* The default configuration: a reply and a message of the agent's own with *)
(* everything that may go wrong with sending; a reply or a message of its   *)
(* own when a process ends; a process that ends and then something else.    *)
(* Then what differs in the other configurations.                           *)
EveryMode ==
  {Case("queue", "turn", 1, 2, 1, 1,
        {"save", "send", "unsure", "timeout", "unknown", "image", "agent", "flush", "replace"}),
   Case("queue", "turn", 1, 1, 1, 1, {"crash", "truncate", "stop", "dial"}),
   Case("queue", "turn", 1, 1, 0, 2, {"crash", "query", "stream"}),
   Case("coalesce", "message", 1, 2, 0, 1, {"crash", "truncate"}),
   Case("coalesce", "turn", 2, 1, 0, 1, {"flush"}),
   Case("steer", "turn", 2, 1, 0, 0, {}),
   Case("drop", "turn", 2, 1, 0, 0, {}),
   Case("queue", "turn", 1, 2, 1, 2, {"stop", "timeout"})}

(* The default configuration when a session is replaced under a task.       *)
ReplacedUnderTask == {Case("queue", "turn", 1, 2, 1, 1, {"overtake"})}

==============================================================================
