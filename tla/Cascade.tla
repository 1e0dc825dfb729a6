------------------------------- MODULE Cascade -------------------------------
(***************************************************************************)
(* What Cascader promises, with no queue, cache, patch or worker in sight: *)
(* events of sources are noticed and owe a reload of their targets; a      *)
(* batch of reloads pays for one of them.                                  *)
(***************************************************************************)
EXTENDS Integers

CONSTANT Workload

VARIABLES
  template,   \* the version of each workload's pod template
  owed,       \* events noticed of each source, less batches begun for it
  open,       \* sources with an event that nothing has been decided on yet
  batch,      \* the targets still to be reloaded for each source
  starts      \* how often Cascader has come up again

vars == <<template, owed, open, batch, starts>>

Init ==
  /\ template \in [Workload -> Nat]
  /\ owed = [w \in Workload |-> 0]
  /\ open = {}
  /\ batch = [w \in Workload |-> {}]
  /\ starts = 0

\* At most w's template is another.
ChangesOnly(w) == template' = [template EXCEPT ![w] = template'[w]]

\* Cascader's environment: anybody changes, creates or deletes w.
Change(w) ==
  /\ ChangesOnly(w)
  /\ UNCHANGED <<owed, open, batch, starts>>

\* An event of w is let through.  It may be older than what was decided on last.
Notice(w) ==
  /\ owed' = [owed EXCEPT ![w] = @ + 1]
  /\ open' \in {open, open \cup {w}}
  /\ UNCHANGED <<template, batch, starts>>

\* The targets of w are to be reloaded, on account of an event of w.
Begin(w) ==
  /\ owed[w] > 0
  /\ batch[w] = {}
  /\ \E targets \in SUBSET (Workload \ {w}) :
       /\ targets # {}
       /\ batch' = [batch EXCEPT ![w] = targets]
  /\ owed' = [owed EXCEPT ![w] = @ - 1]
  /\ UNCHANGED <<template, open, starts>>

\* The next of them is seen to: t gets another template, or stays as it is when the call
\* fails.  The last one settles the event, unless there has been a newer one.
Reload(w, t) ==
  /\ t \in batch[w]
  /\ ChangesOnly(t)
  /\ batch' = [batch EXCEPT ![w] = @ \ {t}]
  /\ \/ UNCHANGED open
     \/ batch[w] = {t} /\ open' = open \ {w}
  /\ UNCHANGED <<owed, starts>>

\* Nothing is to be reloaded for w: it is gone, names nobody, leads into a cycle, or
\* asked not to be waited for.
Decline(w) ==
  /\ batch[w] = {}
  /\ open' = open \ {w}
  /\ UNCHANGED <<template, owed, batch, starts>>

\* A restart of Cascader keeps nothing.
Restart ==
  /\ owed' = [w \in Workload |-> 0]
  /\ open' = {}
  /\ batch' = [w \in Workload |-> {}]
  /\ starts' = starts + 1
  /\ UNCHANGED template

Next ==
  \/ \E w \in Workload : \/ Change(w) \/ Notice(w) \/ Begin(w) \/ Decline(w)
                         \/ \E t \in Workload : Reload(w, t)
  \/ Restart

Spec == Init /\ [][Next]_vars

\* Every event that is noticed is decided on in the end.
Answered == \A w \in Workload : w \in open ~> w \notin open

=============================================================================
