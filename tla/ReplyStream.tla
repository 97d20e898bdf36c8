----------------------------- MODULE ReplyStream -----------------------------
(***************************************************************************)
(* What plaklet promises its driver about stdout (README.md, "Protocol"):  *)
(* a stream of replies "ending with a terminal success or failure". Live   *)
(* replies come first, a report is followed by success and by nothing      *)
(* else, and nothing follows the terminal reply.                           *)
(***************************************************************************)
EXTENDS Naturals, Sequences

LiveReplies     == {"info", "warning", "error", "state", "inventory"}
TerminalReplies == {"success", "failure"}
ReplyTypes      == LiveReplies \cup {"report"} \cup TerminalReplies

VARIABLE replies

LastReply == IF replies = <<>> THEN "none" ELSE replies[Len(replies)]

Init == replies = <<>>

Live ==
    /\ LastReply \notin TerminalReplies \cup {"report"}
    /\ \E t \in LiveReplies : replies' = Append(replies, t)

Report ==
    /\ LastReply \notin TerminalReplies \cup {"report"}
    /\ replies' = Append(replies, "report")

Success ==
    /\ LastReply \notin TerminalReplies
    /\ replies' = Append(replies, "success")

Failure ==
    /\ LastReply \notin TerminalReplies \cup {"report"}
    /\ replies' = Append(replies, "failure")

Next == Live \/ Report \/ Success \/ Failure

Spec == Init /\ [][Next]_replies
=============================================================================
