----------------------------- MODULE Annotations -----------------------------
(***************************************************************************)
(* The annotations of one workload and everybody who writes them: the keys *)
(* the command line chooses (internal/flag, internal/app), what Cascader   *)
(* reads under them, and its merge patches, each the difference between    *)
(* the copy in a worker's hands and what the worker made of it, applied to *)
(* an object that others have changed since.                               *)
(***************************************************************************)
EXTENDS Integers, Sequences

CONSTANTS
  Key,             \* annotation keys
  BuiltInKey,      \* flag.LastObservedRestartAnnotation, the key of every reload's stamp
  Text,            \* what annotations may say
  Now,             \* the time, as text
  Absent,          \* in place of a text: there is no such annotation
  Name,            \* namespaces and names of workloads
  Home,            \* the workload's namespace
  EntriesOf,       \* a text's entries between commas, each split at its slashes;
                   \* one with nothing in it is <<>>
  Durations,       \* the texts that parse as a duration
  SecondsOf,       \* how long those are
  KeyFlags,        \* the keys a command line may choose, one for each role
  IntervalFlags,   \* the default intervals it may choose, in seconds
  NamespaceFlags,  \* the namespaces it may tell Cascader to watch; none means all
  Created,         \* the annotations the workload may be created with
  Edits,           \* the changes others may make, as <<level, key, text>>
  MaxEdits         \* bound: how many they make

TargetRole == {"DaemonSet", "Deployment", "StatefulSet"}
Role == TargetRole \cup {"LastObservedRestart", "RequeueAfter"}

\* Annotations of the object, and of the pod template within it.
Level == {"meta", "pod"}
Annotation == [Key -> Text \cup {Absent}]
None == [k \in Key |-> Absent]

ASSUME TextAssumption ==
  /\ BuiltInKey \in Key /\ Now \in Text /\ Absent \notin Text /\ Home \in Name
  /\ EntriesOf \in [Text -> SUBSET Seq(Name)]
  /\ Durations \subseteq Text /\ SecondsOf \in [Text -> Int]
ASSUME FlagAssumption ==
  /\ KeyFlags \subseteq [Role -> Key] /\ IntervalFlags \subseteq Int
  /\ NamespaceFlags \subseteq SUBSET Name
ASSUME EditAssumption ==
  /\ Created \subseteq Annotation
  /\ Edits \subseteq Level \X Key \X (Text \cup {Absent})
  /\ MaxEdits \in Nat

VARIABLES
  phase,       \* how far Run has come
  keys, interval, namespaces,   \* the flags
  server,      \* the object's annotations on the API server, per level
  cache,       \* in the informer's cache
  copy,        \* in the hands of the reconcile
  pc,          \* where the reconcile stands
  batch,       \* the targets it is about to reload, as <<kind, <<namespace, name>>>>
  edits,       \* how many changes others have made
  \* ghosts, which no guard reads:
  others,      \* the annotations as others alone would have made them
  named,       \* the sets of targets those have named, one after the other
  asked,       \* the intervals they have asked for
  waits        \* the intervals Cascader has come back after

flagVars == <<keys, interval, namespaces>>
clusterVars == <<server, cache, edits, others, named, asked>>
workVars == <<copy, pc, batch, waits>>
vars == <<phase, flagVars, clusterVars, workVars>>

-----------------------------------------------------------------------------
(* Reading *)

\* Faulty variant: the mark's key and the interval's are not compared with any.
UniqueTargetKeys(k) == \A r, s \in TargetRole : k[r] = k[s] => r = s

UniqueAnnotations(k) == \A r, s \in Role : k[r] = k[s] => r = s

MarkKey == keys["LastObservedRestart"]

\* hasAnnotation, of the mark.
Marked(o) == o["meta"][MarkKey] # Absent

\* The references under the key of one kind; blank entries are skipped.
References(meta, kind) ==
  LET text == meta[keys[kind]]
  IN  IF text = Absent THEN {} ELSE EntriesOf[text] \ {<<>>}

ParseTargetRef(ref) == IF Len(ref) = 1 THEN <<Home, ref[1]>> ELSE ref

\* extractTargets: all references parse, or none counts.
Parses(meta) == \A kind \in TargetRole : \A ref \in References(meta, kind) : Len(ref) <= 2

ExtractTargets(meta) ==
  UNION {{<<kind, ParseTargetRef(ref)>> : ref \in References(meta, kind)} :
           kind \in TargetRole}

\* requeueDurationFor: what the annotation says, if it parses, and the default if not.
RequeueDurationFor(meta) ==
  LET text == meta[keys["RequeueAfter"]]
  IN  IF text \in Durations THEN SecondsOf[text] ELSE interval

\* ToCacheOptions: the caches hold the namespaces of the flag alone, if it names any.
Watched(namespace) == namespaces = {} \/ namespace \in namespaces

-----------------------------------------------------------------------------
(* Patching *)

\* Faulty variant: the whole object is put in place of the server's.
MergedWhole(current, old, new) == new

\* What a merge patch from old to new makes of the server's current annotations.  It
\* names the keys that differ; but a map that is left empty is left out of the JSON, and
\* the patch then removes all there is.
Merged(current, old, new) ==
  IF new = None /\ old # None THEN None
  ELSE [k \in Key |-> IF old[k] = new[k] THEN current[k] ELSE new[k]]

Patch(old, new) ==
  server' = [l \in Level |-> Merged(server[l], old[l], new[l])]

With(o, l, k, text) == [o EXCEPT ![l] = [@ EXCEPT ![k] = text]]

-----------------------------------------------------------------------------
(* Start-up *)

Init ==
  /\ phase = "start"
  /\ keys \in KeyFlags /\ interval \in IntervalFlags /\ namespaces \in NamespaceFlags
  /\ \E meta \in Created : server = [l \in Level |-> IF l = "meta" THEN meta ELSE None]
  /\ cache = server /\ copy = server /\ others = server
  /\ pc = "idle" /\ batch = {} /\ edits = 0 /\ waits = {}
  /\ named = {ExtractTargets(server["meta"])}
  /\ asked = {RequeueDurationFor(server["meta"])} \ {interval}

\* Faulty variant: any default interval will do.
ParseArgsUnchecked ==
  /\ phase = "start"
  /\ phase' = "parsed"
  /\ UNCHANGED <<flagVars, clusterVars, workVars>>

\* The default interval is validated as it is parsed.
ParseArgs ==
  /\ phase = "start"
  /\ phase' = IF interval >= 1 THEN "parsed" ELSE "refused"
  /\ UNCHANGED <<flagVars, clusterVars, workVars>>

\* Run compares the keys before there is any connection to the cluster.
ValidateKeys ==
  /\ phase = "parsed"
  /\ phase' = IF UniqueAnnotations(keys) THEN "valid" ELSE "refused"
  /\ UNCHANGED <<flagVars, clusterVars, workVars>>

\* Manager, controllers and checks; any of them may fail to come up.
SetUp ==
  /\ phase = "valid"
  /\ phase' \in {"running", "refused"}
  /\ UNCHANGED <<flagVars, clusterVars, workVars>>

-----------------------------------------------------------------------------
(* Others *)

\* A user, a controller or a deployment tool sets or removes one annotation.
Edit ==
  /\ edits < MaxEdits
  /\ edits' = edits + 1
  /\ \E e \in Edits :
       /\ server' = With(server, e[1], e[2], e[3])
       /\ others' = With(others, e[1], e[2], e[3])
  /\ named' = named \cup {ExtractTargets(others'["meta"])}
  /\ asked' = asked \cup ({RequeueDurationFor(others'["meta"])} \ {interval})
  /\ UNCHANGED <<phase, flagVars, cache, workVars>>

\* The informer catches up.
Deliver ==
  /\ cache # server
  /\ cache' = server
  /\ UNCHANGED <<phase, flagVars, server, edits, others, named, asked, workVars>>

\* Another source has the workload for its target.  The cache may be as old as the time
\* that passes between Trigger's read and its patch.
Trigger ==
  /\ phase = "running"
  /\ Watched(Home)
  /\ Patch(cache, With(cache, "pod", BuiltInKey, Now))
  /\ UNCHANGED <<phase, flagVars, cache, edits, others, named, asked, workVars>>

-----------------------------------------------------------------------------
(* One reconcile *)

Dequeue ==
  /\ phase = "running"
  /\ Watched(Home)
  /\ pc = "idle"
  /\ copy' = cache
  /\ pc' = IF Marked(cache) THEN "check" ELSE "mark"
  /\ UNCHANGED <<phase, flagVars, clusterVars, batch, waits>>

\* Faulty variant: what the server made of the patch is thrown away.
SetMarkOnCopy ==
  /\ pc = "mark"
  /\ Patch(copy, With(copy, "meta", MarkKey, Now))
  /\ copy' = With(copy, "meta", MarkKey, Now)
  /\ pc' = "check"
  /\ UNCHANGED <<phase, flagVars, cache, edits, others, named, asked, batch, waits>>

\* The patch leaves in the worker's hands what the server made of it.
SetMark ==
  /\ pc = "mark"
  /\ Patch(copy, With(copy, "meta", MarkKey, Now))
  /\ copy' = server'
  /\ pc' = "check"
  /\ UNCHANGED <<phase, flagVars, cache, edits, others, named, asked, batch, waits>>

\* The targets can be read: they parse, there are some, and all are in the caches.
Readable ==
  /\ Parses(copy["meta"])
  /\ ExtractTargets(copy["meta"]) # {}
  /\ \A target \in ExtractTargets(copy["meta"]) : Watched(target[2][1])

\* The reconcile ends here: the mark could not be set, the targets cannot be read, or lead
\* into a cycle or to a workload that is gone.
GiveUp ==
  /\ pc \in {"mark", "check"}
  /\ pc' = "idle"
  /\ UNCHANGED <<phase, flagVars, clusterVars, copy, batch, waits>>

\* The workload is not stable.
ComeBack ==
  /\ pc = "check"
  /\ Readable
  /\ waits' = waits \cup {RequeueDurationFor(copy["meta"])}
  /\ pc' = "idle"
  /\ UNCHANGED <<phase, flagVars, clusterVars, copy, batch>>

\* Faulty variant: references that do not parse are only logged.
BeginReloadRegardless ==
  /\ pc = "check"
  /\ ExtractTargets(copy["meta"]) # {}
  /\ batch' = ExtractTargets(copy["meta"])
  /\ pc' = "clear"
  /\ UNCHANGED <<phase, flagVars, clusterVars, copy, waits>>

BeginReload ==
  /\ pc = "check"
  /\ Readable
  /\ batch' = ExtractTargets(copy["meta"])
  /\ pc' = "clear"
  /\ UNCHANGED <<phase, flagVars, clusterVars, copy, waits>>

\* The mark is removed, or that fails; the targets are reloaded all the same.
ClearMark ==
  /\ pc = "clear"
  /\ \/ Patch(copy, With(copy, "meta", MarkKey, Absent))
     \/ UNCHANGED server
  /\ pc' = "reload"
  /\ UNCHANGED <<phase, flagVars, cache, edits, others, named, asked, copy, batch, waits>>

TriggerReloads ==
  /\ pc = "reload"
  /\ batch' = {}
  /\ pc' = "idle"
  /\ UNCHANGED <<phase, flagVars, clusterVars, copy, waits>>

Next ==
  \/ ParseArgs \/ ValidateKeys \/ SetUp
  \/ Edit \/ Deliver \/ Trigger
  \/ Dequeue \/ SetMark \/ GiveUp \/ ComeBack \/ BeginReload \/ ClearMark \/ TriggerReloads

Spec == Init /\ [][Next]_vars

-----------------------------------------------------------------------------
(* Properties *)

Object == [Level -> Annotation]
Target == TargetRole \X (Name \X Name)

\* The shape of the state.
TypeOK ==
  /\ phase \in {"start", "parsed", "valid", "running", "refused"}
  /\ keys \in [Role -> Key] /\ interval \in Int /\ namespaces \subseteq Name
  /\ server \in Object /\ cache \in Object /\ copy \in Object /\ others \in Object
  /\ pc \in {"idle", "mark", "check", "clear", "reload"}
  /\ batch \subseteq Target
  /\ edits \in Nat /\ asked \subseteq Int /\ waits \subseteq Int

\* Nobody's annotations are lost to Cascader: but for its mark, and the stamp in the pod
\* template, the object carries at all times what others last wrote, although every
\* patch is computed from a copy that may be older.  (client.MergeFrom in the three patch
\* helpers.  Removing the mark from a copy with nothing else on it would empty the map;
\* no reconcile gets that far without a target annotation under another key.)
OthersKept ==
  /\ \A k \in Key \ {MarkKey} : server["meta"][k] = others["meta"][k]
  /\ \A k \in Key \ {BuiltInKey} : server["pod"][k] = others["pod"][k]

\* What is reloaded is what others had the annotations name, all at one time: no mark, no
\* half of an edit and no mixture of a stale copy and a patch is ever read as a target.
\* (extractTargets on the object that the mark's patch returned, or on the cached one.)
BatchesWereNamed == batch # {} => batch \in named

\* A workload that is not stable is looked at again, a second later or more, unless others
\* asked for another interval themselves.  (The validation of the flag, and the default
\* for an annotation that does not parse; the mark is never read as an interval.)
WaitsWereAsked == \A d \in waits : d >= 1 \/ d \in asked

-----------------------------------------------------------------------------
(* What Cluster and Reconciler make of it *)

\* What the annotations of o come to.
Reading(o) ==
  [targets |-> ExtractTargets(o["meta"]),
   sound |-> Parses(o["meta"]),
   annotated |-> \E kind \in TargetRole : o["meta"][keys[kind]] # Absent,
   mark |-> Marked(o)]

Workload == INSTANCE AnnotatedWorkload
              WITH server <- Reading(server), cache <- Reading(cache), copy <- Reading(copy)

\* Texts, keys and patches together are no more than a set of targets and a mark: setting and
\* removing the mark do so, and nothing else, on whatever the object has become meanwhile;
\* a reload leaves both alone; and the worker goes on with what the server has, or the cache
\* had.  (The three patch helpers of internal/utils, each with a copy that may be stale.)
ImplementsWorkload == Workload!Spec

=============================================================================
