---- MODULE StateRegister ----
(***************************************************************************)
(* What readModifyWriteStateMd promises of STATE.md: one text, which every *)
(* command rewrites at once from what is there, "preventing the            *)
(* lost-update problem".  The promise lapses for good (degraded) when the  *)
(* lock was passed over or a writer replaced a text it had not read; then  *)
(* the text may become anything.                                           *)
(***************************************************************************)
CONSTANTS Starts,           \* the texts a project may start from
          Rewrites(_, _)    \* what the commands may make of a text

VARIABLES content, degraded

Init == content \in Starts /\ degraded = FALSE

Rewrite ==
  /\ ~degraded
  /\ content' # content
  /\ Rewrites(content, content')
  /\ UNCHANGED degraded

Lapse == degraded' = TRUE

Next == Rewrite \/ Lapse

Spec == Init /\ [][Next]_<<content, degraded>>
====
