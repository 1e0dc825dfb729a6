-------------------------- MODULE AnnotatedWorkload --------------------------
(***************************************************************************)
(* What Cluster and Reconciler take for granted of one workload's          *)
(* annotations: a set of targets and a mark, of which every patch of       *)
(* Cascader changes the mark alone, whatever copy it was computed from.    *)
(***************************************************************************)
EXTENDS Naturals

VARIABLES
  server,   \* what the annotations say on the API server: .targets, .mark, whether the
            \* references parse (.sound), whether there are any (.annotated)
  cache,    \* in the informer's cache
  copy,     \* in the hands of the reconcile
  pc,       \* where that stands
  batch,    \* the targets it is about to reload
  edits     \* how many changes others have made

vars == <<server, cache, copy, pc, batch, edits>>

Init ==
  /\ cache = server /\ copy = server
  /\ pc = "idle" /\ batch = {} /\ edits = 0

\* Others write what they like.
Edit ==
  /\ edits' = edits + 1
  /\ UNCHANGED <<cache, copy, pc, batch>>

Deliver ==
  /\ cache' = server
  /\ UNCHANGED <<server, copy, pc, batch, edits>>

\* The mark decides where the reconcile begins.
Dequeue ==
  /\ pc = "idle"
  /\ copy' = cache
  /\ pc' = IF cache.mark THEN "check" ELSE "mark"
  /\ UNCHANGED <<server, cache, batch, edits>>

SetMark ==
  /\ pc = "mark"
  /\ server' = [server EXCEPT !.mark = TRUE]
  /\ copy' = server'
  /\ pc' = "check"
  /\ UNCHANGED <<cache, batch, edits>>

\* For whatever reason, with or without another attempt.
Leave ==
  /\ pc \in {"mark", "check"}
  /\ pc' = "idle"
  /\ UNCHANGED <<server, cache, copy, batch, edits>>

BeginReload ==
  /\ pc = "check"
  /\ copy.sound /\ copy.targets # {}
  /\ batch' = copy.targets
  /\ pc' = "clear"
  /\ UNCHANGED <<server, cache, copy, edits>>

ClearMark ==
  /\ pc = "clear"
  /\ server' \in {server, [server EXCEPT !.mark = FALSE]}
  /\ pc' = "reload"
  /\ UNCHANGED <<cache, copy, batch, edits>>

TriggerReloads ==
  /\ pc = "reload"
  /\ batch' = {}
  /\ pc' = "idle"
  /\ UNCHANGED <<server, cache, copy, edits>>

Next ==
  \/ Edit \/ Deliver
  \/ Dequeue \/ SetMark \/ Leave \/ BeginReload \/ ClearMark \/ TriggerReloads

Spec == Init /\ [][Next]_vars

=============================================================================
