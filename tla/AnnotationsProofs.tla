-------------------------- MODULE AnnotationsProofs --------------------------
(***************************************************************************)
(* The four invariants of Annotations, for every set of keys and texts and *)
(* for any number of changes by others.                                    *)
(***************************************************************************)
EXTENDS Annotations, SequenceTheorems, TLAPS

-----------------------------------------------------------------------------
(* Reading and patching *)

LEMMA AnnotationFacts ==
  ASSUME NEW meta \in Annotation, NEW k \in Key
  PROVE  meta[k] \in Text \cup {Absent}
  BY DEF Annotation

LEMMA NoneIsAnnotation == None \in Annotation
  BY DEF None, Annotation

\* A reference of one part or two names a workload.
LEMMA ParsedRef ==
  ASSUME NEW ref \in Seq(Name), ref # <<>>, Len(ref) <= 2
  PROVE  ParseTargetRef(ref) \in Name \X Name
  <1>1. Len(ref) = 1 \/ Len(ref) = 2
    <2>1. Len(ref) \in Nat \ {0}
      BY EmptySeq, Zenon
    <2>2. \A n \in Nat \ {0} : n <= 2 => n = 1 \/ n = 2
      OBVIOUS
    <2> QED
      BY <2>1, <2>2
  <1>2. CASE Len(ref) = 1
    BY <1>2, TextAssumption DEF ParseTargetRef
  <1>3. CASE Len(ref) = 2
    <2>1. ref = <<ref[1], ref[2]>> /\ ref[1] \in Name /\ ref[2] \in Name
      BY <1>3
    <2> QED
      BY <1>3, <2>1 DEF ParseTargetRef
  <1> QED
    BY <1>1, <1>2, <1>3

LEMMA ExtractedTargets ==
  ASSUME keys \in [Role -> Key], NEW meta \in Annotation, Parses(meta)
  PROVE  ExtractTargets(meta) \subseteq Target
  <1> SUFFICES ASSUME NEW kind \in TargetRole, NEW ref \in References(meta, kind)
               PROVE  <<kind, ParseTargetRef(ref)>> \in Target
    BY DEF ExtractTargets
  <1>1. keys[kind] \in Key
    BY DEF Role
  <1>2. ref \in Seq(Name) /\ ref # <<>>
    <2>1. meta[keys[kind]] \in Text \cup {Absent}
      BY <1>1, AnnotationFacts
    <2> QED
      BY <2>1, TextAssumption DEF References
  <1>3. Len(ref) <= 2
    BY DEF Parses
  <1> QED
    BY <1>2, <1>3, ParsedRef DEF Target

LEMMA RequeueType ==
  ASSUME keys \in [Role -> Key], interval \in Int, NEW meta \in Annotation
  PROVE  RequeueDurationFor(meta) \in Int
  BY TextAssumption DEF RequeueDurationFor

\* With keys that differ, the mark is nothing that is read for anything else.
LEMMA MarkIsNotRead ==
  ASSUME UniqueAnnotations(keys), keys \in [Role -> Key],
         NEW meta, NEW other, \A k \in Key \ {MarkKey} : meta[k] = other[k]
  PROVE  /\ ExtractTargets(meta) = ExtractTargets(other)
         /\ RequeueDurationFor(meta) = RequeueDurationFor(other)
  <1>1. \A r \in TargetRole \cup {"RequeueAfter"} : keys[r] \in Key \ {MarkKey}
    BY DEF UniqueAnnotations, MarkKey, Role, TargetRole
  <1>2. \A kind \in TargetRole : References(meta, kind) = References(other, kind)
    <2>1. TAKE kind \in TargetRole
    <2>2. meta[keys[kind]] = other[keys[kind]]
      BY <1>1
    <2> QED
      BY <2>2 DEF References
  <1>3. ExtractTargets(meta) = ExtractTargets(other)
    BY <1>2 DEF ExtractTargets
  <1> QED
    BY <1>1, <1>3 DEF RequeueDurationFor

\* A map with targets in it holds more than the mark.
LEMMA TargetsOutlastMark ==
  ASSUME UniqueAnnotations(keys), keys \in [Role -> Key],
         NEW meta, ExtractTargets(meta) # {}
  PROVE  \E k \in Key \ {MarkKey} : meta[k] # Absent
  <1>1. PICK kind \in TargetRole : References(meta, kind) # {}
    BY DEF ExtractTargets
  <1>2. meta[keys[kind]] # Absent
    BY <1>1 DEF References
  <1>3. keys[kind] \in Key \ {MarkKey}
    BY DEF UniqueAnnotations, MarkKey, Role, TargetRole
  <1> QED
    BY <1>2, <1>3

LEMMA MergedType ==
  ASSUME NEW current \in Annotation, NEW old \in Annotation, NEW new \in Annotation
  PROVE  Merged(current, old, new) \in Annotation
  BY NoneIsAnnotation DEF Merged, Annotation

LEMMA WithType ==
  ASSUME NEW o \in Object, NEW l \in Level, NEW k \in Key, NEW text \in Text \cup {Absent}
  PROVE  With(o, l, k, text) \in Object
  BY DEF With, Object, Annotation

\* A patch that writes or removes one annotation, and leaves something in the map, touches
\* no other on the server, however old the copy it was computed from.
LEMMA PatchTouchesOne ==
  ASSUME server \in Object, NEW old \in Object,
         NEW l \in Level, NEW k \in Key, NEW text \in Text \cup {Absent},
         With(old, l, k, text)[l] # None,
         Patch(old, With(old, l, k, text))
  PROVE  /\ server' \in Object
         /\ \A j \in Key \ {k} : server'[l][j] = server[l][j]
         /\ \A m \in Level \ {l} : server'[m] = server[m]
  <1> DEFINE new == With(old, l, k, text)
  <1>1. new \in Object
    BY WithType
  <1>2. \A m \in Level : server'[m] = Merged(server[m], old[m], new[m])
    BY DEF Patch
  <1>3. server' \in Object
    <2>1. \A m \in Level :
            server[m] \in Annotation /\ old[m] \in Annotation /\ new[m] \in Annotation
      BY <1>1 DEF Object
    <2>2. \A m \in Level : server'[m] \in Annotation
      BY <1>2, <2>1, MergedType
    <2> QED
      BY <2>2 DEF Patch, Object
  <1>4. \A j \in Key \ {k} : new[l][j] = old[l][j]
    BY DEF With, Object, Annotation
  <1>5. \A j \in Key \ {k} : server'[l][j] = server[l][j]
    BY <1>2, <1>4 DEF Merged
  <1>6. ASSUME NEW m \in Level \ {l}
        PROVE  server'[m] = server[m]
    <2>1. new[m] = old[m]
      BY DEF With, Object
    <2>2. server[m] \in [Key -> Text \cup {Absent}]
      BY DEF Object, Annotation
    <2> QED
      BY <1>2, <2>1, <2>2 DEF Merged
  <1> QED
    BY <1>3, <1>5, <1>6

\* What is written with a text in it is not empty.
LEMMA WithTextIsNotNone ==
  ASSUME NEW o \in Object, NEW l \in Level, NEW k \in Key, NEW text \in Text
  PROVE  With(o, l, k, text)[l] # None
  <1>1. With(o, l, k, text)[l][k] = text
    BY DEF With, Object, Annotation
  <1> QED
    BY <1>1, TextAssumption DEF None

-----------------------------------------------------------------------------
(* Type correctness *)

LEMMA EditWrites ==
  ASSUME TypeOK, Edit
  PROVE  \E l \in Level, k \in Key, text \in Text \cup {Absent} :
           /\ server' = With(server, l, k, text)
           /\ others' = With(others, l, k, text)
  BY EditAssumption DEF Edit

LEMMA InitType == Init => TypeOK
  <1> SUFFICES ASSUME Init PROVE TypeOK
    OBVIOUS
  <1>1. keys \in [Role -> Key] /\ interval \in Int /\ namespaces \subseteq Name
    BY FlagAssumption DEF Init
  <1>2. PICK meta \in Annotation :
          server = [l \in Level |-> IF l = "meta" THEN meta ELSE None]
    BY EditAssumption DEF Init
  <1>3. server \in Object
    BY <1>2, NoneIsAnnotation DEF Object
  <1>4. server["meta"] \in Annotation
    BY <1>3 DEF Object, Level
  <1>5. asked \subseteq Int
    BY <1>1, <1>4, RequeueType DEF Init
  <1> QED
    BY <1>1, <1>3, <1>5 DEF Init, TypeOK

\* A patch leaves an object, whatever it takes out of it.
LEMMA PatchType ==
  ASSUME server \in Object, NEW old \in Object, NEW new \in Object, Patch(old, new)
  PROVE  server' \in Object
  <1>1. \A l \in Level :
          server[l] \in Annotation /\ old[l] \in Annotation /\ new[l] \in Annotation
    BY DEF Object
  <1>2. \A l \in Level : Merged(server[l], old[l], new[l]) \in Annotation
    BY <1>1, MergedType
  <1> QED
    BY <1>2 DEF Patch, Object

LEMMA MarkKeyIsKey == TypeOK => MarkKey \in Key
  BY DEF TypeOK, MarkKey, Role

LEMMA NextType == TypeOK /\ [Next]_vars => TypeOK'
  <1> SUFFICES ASSUME TypeOK, [Next]_vars PROVE TypeOK'
    OBVIOUS
  <1> USE DEF flagVars, clusterVars, workVars
  <1>1. CASE ParseArgs \/ ValidateKeys \/ SetUp
    BY <1>1 DEF ParseArgs, ValidateKeys, SetUp, TypeOK
  <1>2. CASE Edit
    <2>1. server' \in Object /\ others' \in Object
      BY <1>2, EditWrites, WithType DEF TypeOK
    <2>2. RequeueDurationFor(others'["meta"]) \in Int
      BY <2>1, RequeueType DEF TypeOK, Object, Level
    <2>3. asked' \subseteq Int
      BY <1>2, <2>2 DEF Edit, TypeOK
    <2>4. /\ edits' \in Nat
          /\ UNCHANGED <<phase, keys, interval, namespaces, cache, copy, pc, batch, waits>>
      BY <1>2 DEF Edit, TypeOK
    <2> QED
      BY <2>1, <2>3, <2>4 DEF TypeOK
  <1>3. CASE Deliver
    BY <1>3 DEF Deliver, TypeOK
  <1>4. CASE Trigger
    <2>1. With(cache, "pod", BuiltInKey, Now) \in Object
      BY WithType, TextAssumption DEF TypeOK, Level
    <2>2. server' \in Object
      BY <1>4, <2>1, PatchType DEF Trigger, TypeOK
    <2> QED
      BY <1>4, <2>2 DEF Trigger, TypeOK
  <1>5. CASE Dequeue
    BY <1>5 DEF Dequeue, TypeOK
  <1>6. CASE SetMark
    <2>1. With(copy, "meta", MarkKey, Now) \in Object
      BY WithType, MarkKeyIsKey, TextAssumption DEF TypeOK, Level
    <2>2. server' \in Object
      BY <1>6, <2>1, PatchType DEF SetMark, TypeOK
    <2> QED
      BY <1>6, <2>2 DEF SetMark, TypeOK
  <1>7. CASE GiveUp \/ TriggerReloads
    BY <1>7 DEF GiveUp, TriggerReloads, TypeOK
  <1>8. CASE ComeBack
    <2>1. RequeueDurationFor(copy["meta"]) \in Int
      BY RequeueType DEF TypeOK, Object, Level
    <2> QED
      BY <1>8, <2>1 DEF ComeBack, TypeOK
  <1>9. CASE BeginReload
    <2>1. ExtractTargets(copy["meta"]) \subseteq Target
      BY <1>9, ExtractedTargets DEF BeginReload, Readable, TypeOK, Object, Level
    <2> QED
      BY <1>9, <2>1 DEF BeginReload, TypeOK
  <1>10. CASE ClearMark
    <2>1. With(copy, "meta", MarkKey, Absent) \in Object
      BY WithType, MarkKeyIsKey DEF TypeOK, Level
    <2>2. server' \in Object
      BY <1>10, <2>1, PatchType DEF ClearMark, TypeOK
    <2> QED
      BY <1>10, <2>2 DEF ClearMark, TypeOK
  <1>11. CASE UNCHANGED vars
    BY <1>11 DEF vars, TypeOK
  <1> QED
    BY <1>1, <1>2, <1>3, <1>4, <1>5, <1>6, <1>7, <1>8, <1>9, <1>10, <1>11 DEF Next

\* The state keeps its shape; the targets in hand are always a kind and a workload's name.
THEOREM TypeCorrect == Spec => []TypeOK
  BY InitType, NextType, PTL DEF Spec

-----------------------------------------------------------------------------
(* What is kept *)

\* How far Run has come says what has been validated, and who may be at work.
Validated ==
  /\ phase \in {"parsed", "valid", "running"} => interval >= 1
  /\ phase \in {"valid", "running"} => UniqueAnnotations(keys)
  /\ pc # "idle" \/ waits # {} => phase = "running"

\* A reconcile that is to remove the mark has targets in its hands.
ClearsWithTargets == pc = "clear" => ExtractTargets(copy["meta"]) # {}

\* What meta says was said by others.
Said(meta) ==
  /\ ExtractTargets(meta) \in named
  /\ RequeueDurationFor(meta) \in asked \cup {interval}

\* Nothing is written before the keys are known to differ.
Untouched == UniqueAnnotations(keys) \/ server = others

EverythingSaid ==
  /\ Said(others["meta"]) /\ Said(cache["meta"]) /\ Said(copy["meta"])
  /\ waits \subseteq asked \cup {interval}

Inv ==
  /\ Validated /\ ClearsWithTargets /\ Untouched
  /\ OthersKept /\ EverythingSaid /\ BatchesWereNamed

LEMMA NextValidated == TypeOK /\ Validated /\ [Next]_vars => Validated'
  <1> SUFFICES ASSUME TypeOK, Validated, [Next]_vars PROVE Validated'
    OBVIOUS
  <1> USE DEF flagVars, clusterVars, workVars, UniqueAnnotations
  <1>1. CASE ParseArgs
    BY <1>1 DEF ParseArgs, TypeOK, Validated
  <1>2. CASE ValidateKeys \/ SetUp
    BY <1>2 DEF ValidateKeys, SetUp, Validated
  <1>3. CASE Edit \/ Deliver \/ Trigger \/ UNCHANGED vars
    BY <1>3 DEF Edit, Deliver, Trigger, vars, Validated
  <1>4. CASE Dequeue \/ SetMark \/ GiveUp \/ ComeBack
    BY <1>4 DEF Dequeue, SetMark, GiveUp, ComeBack, Validated
  <1>5. CASE BeginReload \/ ClearMark \/ TriggerReloads
    BY <1>5 DEF BeginReload, ClearMark, TriggerReloads, Validated
  <1> QED
    BY <1>1, <1>2, <1>3, <1>4, <1>5 DEF Next

LEMMA NextClears == TypeOK /\ ClearsWithTargets /\ [Next]_vars => ClearsWithTargets'
  <1> SUFFICES ASSUME TypeOK, ClearsWithTargets, [Next]_vars PROVE ClearsWithTargets'
    OBVIOUS
  <1> USE DEF flagVars, clusterVars, workVars, ClearsWithTargets, ExtractTargets, References
  <1>1. CASE ParseArgs \/ ValidateKeys \/ SetUp \/ UNCHANGED vars
    BY <1>1 DEF ParseArgs, ValidateKeys, SetUp, vars
  <1>2. CASE Edit \/ Deliver \/ Trigger
    BY <1>2 DEF Edit, Deliver, Trigger
  <1>3. CASE Dequeue \/ SetMark \/ GiveUp \/ ComeBack \/ ClearMark \/ TriggerReloads
    BY <1>3 DEF Dequeue, SetMark, GiveUp, ComeBack, ClearMark, TriggerReloads
  <1>4. CASE BeginReload
    BY <1>4 DEF BeginReload, Readable
  <1> QED
    BY <1>1, <1>2, <1>3, <1>4 DEF Next

\* Cascader's three patches, one by one.
LEMMA WritesTouchOne ==
  ASSUME TypeOK, Validated, ClearsWithTargets, Trigger \/ SetMark \/ ClearMark
  PROVE  /\ UniqueAnnotations(keys) /\ UNCHANGED <<keys, interval, others, named, asked>>
         /\ \A k \in Key \ {MarkKey} : server'["meta"][k] = server["meta"][k]
         /\ \A k \in Key \ {BuiltInKey} : server'["pod"][k] = server["pod"][k]
  <1>1. UniqueAnnotations(keys) /\ keys \in [Role -> Key] /\ MarkKey \in Key
    BY MarkKeyIsKey DEF Trigger, SetMark, ClearMark, Validated, TypeOK
  <1>2. UNCHANGED <<keys, interval, others, named, asked>>
    BY DEF Trigger, SetMark, ClearMark, flagVars
  <1>3. "meta" \in Level /\ "pod" \in Level
    BY DEF Level
  <1>4. CASE Trigger
    <2>1. With(cache, "pod", BuiltInKey, Now)["pod"] # None
      BY <1>3, WithTextIsNotNone, TextAssumption DEF TypeOK
    <2>2. /\ \A k \in Key \ {BuiltInKey} : server'["pod"][k] = server["pod"][k]
          /\ server'["meta"] = server["meta"]
      BY <1>3, <1>4, <2>1, PatchTouchesOne, TextAssumption DEF Trigger, TypeOK
    <2> QED
      BY <1>1, <1>2, <2>2
  <1>5. CASE SetMark
    <2>1. With(copy, "meta", MarkKey, Now)["meta"] # None
      BY <1>1, <1>3, WithTextIsNotNone, TextAssumption DEF TypeOK
    <2>2. /\ \A k \in Key \ {MarkKey} : server'["meta"][k] = server["meta"][k]
          /\ server'["pod"] = server["pod"]
      BY <1>1, <1>3, <1>5, <2>1, PatchTouchesOne, TextAssumption DEF SetMark, TypeOK
    <2> QED
      BY <1>1, <1>2, <2>2
  <1>6. CASE ClearMark
    <2>1. PICK k \in Key \ {MarkKey} : copy["meta"][k] # Absent
      BY <1>1, <1>6, TargetsOutlastMark DEF ClearMark, ClearsWithTargets
    <2>2. With(copy, "meta", MarkKey, Absent)["meta"][k] = copy["meta"][k]
      BY <1>3 DEF With, TypeOK, Object, Annotation
    <2>3. With(copy, "meta", MarkKey, Absent)["meta"] # None
      BY <2>1, <2>2 DEF None
    <2>4. CASE Patch(copy, With(copy, "meta", MarkKey, Absent))
      <3>1. /\ \A j \in Key \ {MarkKey} : server'["meta"][j] = server["meta"][j]
            /\ server'["pod"] = server["pod"]
        BY <1>1, <1>3, <2>3, <2>4, PatchTouchesOne DEF TypeOK
      <3> QED
        BY <1>1, <1>2, <3>1
    <2>5. CASE UNCHANGED server
      BY <1>1, <1>2, <2>5
    <2> QED
      BY <1>6, <2>4, <2>5 DEF ClearMark
  <1> QED
    BY <1>4, <1>5, <1>6

LEMMA NextKeptByWrites ==
  ASSUME TypeOK, Validated, ClearsWithTargets, OthersKept, [Next]_vars
  PROVE  OthersKept'
  <1>1. CASE Trigger \/ SetMark \/ ClearMark
    BY <1>1, WritesTouchOne DEF OthersKept, MarkKey
  <1>2. CASE Edit
    <2>1. PICK l \in Level, k \in Key, text \in Text \cup {Absent} :
             /\ server' = With(server, l, k, text)
             /\ others' = With(others, l, k, text)
      BY <1>2, EditWrites
    <2>2. keys' = keys /\ server \in Object /\ others \in Object
      BY <1>2 DEF Edit, flagVars, TypeOK
    <2>3. \A m \in Level, j \in Key :
             server[m][j] = others[m][j] => server'[m][j] = others'[m][j]
      BY <2>1, <2>2 DEF With, Object, Annotation
    <2> QED
      BY <2>2, <2>3 DEF OthersKept, MarkKey, Level
  <1>3. CASE UNCHANGED <<keys, server, others>>
    BY <1>3 DEF OthersKept, MarkKey
  <1>4. ASSUME ~(Trigger \/ SetMark \/ ClearMark), ~Edit
        PROVE  UNCHANGED <<keys, server, others>>
    BY <1>4 DEF Next, ParseArgs, ValidateKeys, SetUp, Deliver, Dequeue, GiveUp, ComeBack,
                BeginReload, TriggerReloads, vars, flagVars, clusterVars
  <1> QED
    BY <1>1, <1>2, <1>3, <1>4

LEMMA NextUntouched ==
  ASSUME TypeOK, Validated, ClearsWithTargets, Untouched, [Next]_vars
  PROVE  Untouched'
  <1>1. keys' = keys
    BY DEF Next, ParseArgs, ValidateKeys, SetUp, Edit, Deliver, Trigger, Dequeue, SetMark,
           GiveUp, ComeBack, BeginReload, ClearMark, TriggerReloads, vars, flagVars
  <1>2. CASE UniqueAnnotations(keys)
    BY <1>1, <1>2 DEF Untouched
  <1>3. CASE ~UniqueAnnotations(keys)
    <2>1. server = others /\ ~(Trigger \/ SetMark \/ ClearMark)
      BY <1>3, WritesTouchOne DEF Untouched
    <2>2. CASE Edit
      BY <2>1, <2>2, EditWrites DEF Untouched
    <2>3. CASE ~Edit
      <3>1. UNCHANGED <<server, others>>
        BY <2>1, <2>3 DEF Next, ParseArgs, ValidateKeys, SetUp, Deliver, Dequeue, GiveUp,
             ComeBack, BeginReload, TriggerReloads, vars, clusterVars
      <3> QED
        BY <2>1, <3>1 DEF Untouched
    <2> QED
      BY <2>2, <2>3
  <1> QED
    BY <1>2, <1>3

\* What the server holds was said by others, mark or no mark.
LEMMA ServerSaid ==
  ASSUME TypeOK, Untouched, OthersKept, Said(others["meta"])
  PROVE  Said(server["meta"])
  <1>1. CASE UniqueAnnotations(keys)
    BY <1>1, MarkIsNotRead DEF TypeOK, OthersKept, Said
  <1>2. CASE server = others
    BY <1>2
  <1> QED
    BY <1>1, <1>2 DEF Untouched

LEMMA NextSaid ==
  ASSUME TypeOK, Validated, ClearsWithTargets, Untouched, OthersKept, EverythingSaid,
         [Next]_vars
  PROVE  EverythingSaid'
  <1> USE DEF Said, ExtractTargets, References, RequeueDurationFor
  <1>1. CASE UNCHANGED <<keys, interval, others, named, asked, cache, copy, waits>>
    BY <1>1 DEF EverythingSaid
  <1>2. CASE Deliver
    <2>1. Said(server["meta"])
      BY ServerSaid DEF EverythingSaid
    <2>2. UNCHANGED <<keys, interval, others, named, asked, copy, waits>> /\ cache' = server
      BY <1>2 DEF Deliver, flagVars, workVars
    <2> QED
      BY <2>1, <2>2 DEF EverythingSaid
  <1>3. CASE Dequeue
    <2>1. UNCHANGED <<keys, interval, others, named, asked, cache, waits>> /\ copy' = cache
      BY <1>3 DEF Dequeue, flagVars, clusterVars
    <2> QED
      BY <2>1 DEF EverythingSaid
  <1>4. CASE SetMark
    <2>1. /\ UNCHANGED <<keys, interval, others, named, asked, cache, waits>>
          /\ copy' = server'
      BY <1>4 DEF SetMark, flagVars
    <2>2. UniqueAnnotations(keys) /\ keys \in [Role -> Key]
      BY <1>4, WritesTouchOne DEF TypeOK
    <2>3. \A k \in Key \ {MarkKey} : server'["meta"][k] = others["meta"][k]
      BY <1>4, WritesTouchOne DEF OthersKept
    <2>4. /\ ExtractTargets(server'["meta"]) = ExtractTargets(others["meta"])
          /\ RequeueDurationFor(server'["meta"]) = RequeueDurationFor(others["meta"])
      <3> HIDE DEF ExtractTargets, References, RequeueDurationFor
      <3> QED
        BY <2>2, <2>3, MarkIsNotRead
    <2>5. ExtractTargets(copy'["meta"]) \in named
          /\ RequeueDurationFor(copy'["meta"]) \in asked \cup {interval}
      <3> HIDE DEF ExtractTargets, References, RequeueDurationFor
      <3> QED
        BY <2>1, <2>4 DEF EverythingSaid
    <2> QED
      BY <2>1, <2>5 DEF EverythingSaid
  <1>5. CASE ComeBack
    <2>1. /\ UNCHANGED <<keys, interval, others, named, asked, cache, copy>>
          /\ waits' = waits \cup {RequeueDurationFor(copy["meta"])}
      BY <1>5 DEF ComeBack, flagVars, clusterVars
    <2> QED
      BY <2>1 DEF EverythingSaid
  <1>6. CASE Edit
    <2>1. /\ UNCHANGED <<keys, interval, cache, copy, waits>>
          /\ named' = named \cup {ExtractTargets(others'["meta"])}
          /\ asked' = asked \cup ({RequeueDurationFor(others'["meta"])} \ {interval})
      BY <1>6 DEF Edit, flagVars, workVars
    <2>2. Said(others["meta"])'
      BY <2>1
    <2>3. Said(cache["meta"])' /\ Said(copy["meta"])'
      BY <2>1 DEF EverythingSaid
    <2> QED
      BY <2>1, <2>2, <2>3 DEF EverythingSaid
  <1>7. ASSUME ~Deliver, ~Dequeue, ~SetMark, ~ComeBack, ~Edit
        PROVE  UNCHANGED <<keys, interval, others, named, asked, cache, copy, waits>>
    BY <1>7 DEF Next, ParseArgs, ValidateKeys, SetUp, Trigger, GiveUp, BeginReload,
         ClearMark, TriggerReloads, vars, flagVars, clusterVars, workVars
  <1> QED
    BY <1>1, <1>2, <1>3, <1>4, <1>5, <1>6, <1>7

LEMMA NextNamed ==
  ASSUME EverythingSaid, BatchesWereNamed, [Next]_vars
  PROVE  BatchesWereNamed'
  <1>1. CASE UNCHANGED batch /\ named \subseteq named'
    BY <1>1 DEF BatchesWereNamed
  <1>2. CASE BeginReload
    BY <1>2 DEF BeginReload, BatchesWereNamed, EverythingSaid, Said, clusterVars
  <1>3. CASE TriggerReloads
    BY <1>3 DEF TriggerReloads, BatchesWereNamed
  <1>4. ASSUME ~BeginReload, ~TriggerReloads
        PROVE  UNCHANGED batch /\ named \subseteq named'
    BY <1>4 DEF Next, ParseArgs, ValidateKeys, SetUp, Edit, Deliver, Trigger, Dequeue,
         SetMark, GiveUp, ComeBack, ClearMark, vars, clusterVars, workVars
  <1> QED
    BY <1>1, <1>2, <1>3, <1>4

LEMMA NextKeeps == TypeOK /\ Inv /\ [Next]_vars => Inv'
  <1> SUFFICES ASSUME TypeOK, Inv, [Next]_vars PROVE Inv'
    OBVIOUS
  <1> QED
    BY NextValidated, NextClears, NextUntouched, NextKeptByWrites, NextSaid, NextNamed
       DEF Inv

LEMMA InitKeeps == Init => Inv
  <1> SUFFICES ASSUME Init PROVE Inv
    OBVIOUS
  <1>1. Validated /\ ClearsWithTargets /\ Untouched /\ OthersKept /\ BatchesWereNamed
    BY DEF Init, Validated, ClearsWithTargets, Untouched, OthersKept, BatchesWereNamed
  <1>2. Said(server["meta"])
    BY DEF Init, Said
  <1>3. EverythingSaid
    BY <1>2 DEF Init, EverythingSaid
  <1> QED
    BY <1>1, <1>3 DEF Inv

\* The strengthening that carries the three theorems below: keys that were compared, and
\* an interval that was checked, before anything is written; targets in the hands of
\* whoever removes a mark; and copies that say nothing that others have not said.
THEOREM InvCorrect == Spec => []Inv
  BY InitKeeps, NextKeeps, TypeCorrect, PTL DEF Spec

\* With any keys, and whatever others write in between, no patch of Cascader's loses an
\* annotation that is not its own.
THEOREM OthersAnnotationsAreKept == Spec => []OthersKept
  <1>1. Inv => OthersKept
    BY DEF Inv
  <1> QED
    BY <1>1, InvCorrect, PTL

\* A batch of reloads is what others named as targets, at one time, and the whole of it.
THEOREM BatchesAreWhatWasNamed == Spec => []BatchesWereNamed
  <1>1. Inv => BatchesWereNamed
    BY DEF Inv
  <1> QED
    BY <1>1, InvCorrect, PTL

\* No reconcile comes back sooner than after a second, unless others asked for that.
THEOREM WaitsAreASecondOrAskedFor == Spec => []WaitsWereAsked
  <1>1. TypeOK /\ Inv => WaitsWereAsked
    <2> SUFFICES ASSUME TypeOK, Inv, NEW d \in waits PROVE d >= 1 \/ d \in asked
      BY DEF WaitsWereAsked
    <2>1. d \in asked \cup {interval}
      BY DEF Inv, EverythingSaid
    <2>2. interval >= 1
      BY DEF Inv, Validated
    <2> QED
      BY <2>1, <2>2
  <1> QED
    BY <1>1, TypeCorrect, InvCorrect, PTL

-----------------------------------------------------------------------------
(* Annotations implement AnnotatedWorkload *)

\* A worker that is to set the mark has none in its hands, one past that has one.
MarksHeld ==
  /\ pc = "mark" => ~Marked(copy)
  /\ pc \in {"check", "clear"} => Marked(copy)

\* What others than the mark say is the same in two readings that differ in the mark alone.
LEMMA ReadingButMark ==
  ASSUME UniqueAnnotations(keys), keys \in [Role -> Key],
         NEW o, NEW p, \A k \in Key \ {MarkKey} : o["meta"][k] = p["meta"][k]
  PROVE  Reading(o) = [Reading(p) EXCEPT !.mark = Marked(o)]
  <1>1. \A r \in TargetRole : keys[r] \in Key \ {MarkKey}
    BY DEF UniqueAnnotations, MarkKey, Role, TargetRole
  <1>2. ExtractTargets(o["meta"]) = ExtractTargets(p["meta"])
    BY MarkIsNotRead
  <1>3. \A kind \in TargetRole : References(o["meta"], kind) = References(p["meta"], kind)
    BY <1>1 DEF References
  <1>4. Parses(o["meta"]) = Parses(p["meta"])
    BY <1>3 DEF Parses
  <1>5. (\E kind \in TargetRole : o["meta"][keys[kind]] # Absent)
          = (\E kind \in TargetRole : p["meta"][keys[kind]] # Absent)
    BY <1>1
  <1>6. /\ Reading(o).targets = Reading(p).targets
        /\ Reading(o).sound = Reading(p).sound
        /\ Reading(o).annotated = Reading(p).annotated
        /\ Reading(o).mark = Marked(o)
    BY <1>2, <1>4, <1>5, Zenon DEF Reading
  <1>7. \A r \in {o, p} : Reading(r) = [targets |-> Reading(r).targets,
          sound |-> Reading(r).sound, annotated |-> Reading(r).annotated,
          mark |-> Reading(r).mark]
    BY DEF Reading
  <1> QED
    BY <1>6, <1>7

LEMMA KeysStay ==
  [Next]_vars => keys' = keys
  BY DEF Next, ParseArgs, ValidateKeys, SetUp, Edit, Deliver, Trigger, Dequeue, SetMark,
         GiveUp, ComeBack, BeginReload, ClearMark, TriggerReloads, vars, flagVars

\* What an object is read as depends on it and on the keys.
LEMMA ReadingStays ==
  ASSUME keys' = keys
  PROVE  /\ server' = server => Reading(server)' = Reading(server)
         /\ cache' = cache => Reading(cache)' = Reading(cache)
         /\ copy' = copy => Reading(copy)' = Reading(copy)
         /\ cache' = server => Reading(cache)' = Reading(server)
         /\ copy' = cache => Reading(copy)' = Reading(cache)
         /\ copy' = server' => Reading(copy)' = Reading(server)'
  <1>1. /\ Reading(server)' = Reading(server')
        /\ Reading(cache)' = Reading(cache')
        /\ Reading(copy)' = Reading(copy')
    BY DEF Reading, ExtractTargets, References, Parses, Marked, MarkKey
  <1> QED
    BY <1>1

\* The patch that sets the mark on the server sets it, and the one that removes it removes it.
LEMMA MarkIsPatched ==
  ASSUME TypeOK, MarksHeld
  PROVE  /\ SetMark => Marked(server)'
         /\ ClearMark /\ server' # server /\ Validated /\ ClearsWithTargets => ~Marked(server)'
  <1>1. MarkKey \in Key
    BY MarkKeyIsKey
  <1>2. "meta" \in Level
    BY DEF Level
  <1>3. ASSUME SetMark
        PROVE  Marked(server)'
    <2> DEFINE new == With(copy, "meta", MarkKey, Now)
    <2>1. new["meta"] # None
      BY <1>1, <1>2, WithTextIsNotNone, TextAssumption DEF TypeOK
    <2>2. server'["meta"] = Merged(server["meta"], copy["meta"], new["meta"])
      BY <1>2, <1>3 DEF SetMark, Patch
    <2>3. copy["meta"][MarkKey] = Absent
      BY <1>3 DEF SetMark, MarksHeld, Marked
    <2>4. new["meta"][MarkKey] = Now
      BY <1>1, <1>2 DEF With, TypeOK, Object, Annotation
    <2>5. Now # Absent
      BY TextAssumption
    <2> HIDE DEF new
    <2>6. server'["meta"][MarkKey] = Now
      BY <1>1, <2>1, <2>2, <2>3, <2>4, <2>5 DEF Merged
    <2>7. MarkKey' = MarkKey
      BY <1>3 DEF SetMark, flagVars, MarkKey
    <2> QED
      BY <2>5, <2>6, <2>7 DEF Marked
  <1>4. ASSUME ClearMark, server' # server, Validated, ClearsWithTargets
        PROVE  ~Marked(server)'
    <2> DEFINE new == With(copy, "meta", MarkKey, Absent)
    <2>1. server'["meta"] = Merged(server["meta"], copy["meta"], new["meta"])
      BY <1>2, <1>4 DEF ClearMark, Patch
    <2>2. copy["meta"][MarkKey] # Absent
      BY <1>4 DEF ClearMark, MarksHeld, Marked
    <2>3. new["meta"][MarkKey] = Absent
      BY <1>1, <1>2 DEF With, TypeOK, Object, Annotation
    <2> HIDE DEF new
    <2>4. server'["meta"][MarkKey] = Absent
      BY <1>1, <2>1, <2>2, <2>3 DEF Merged, None
    <2>5. MarkKey' = MarkKey
      BY <1>4 DEF ClearMark, flagVars, MarkKey
    <2> QED
      BY <2>4, <2>5 DEF Marked
  <1> QED
    BY <1>3, <1>4

LEMMA NextMarksHeld == TypeOK /\ MarksHeld /\ [Next]_vars => MarksHeld'
  <1> SUFFICES ASSUME TypeOK, MarksHeld, [Next]_vars PROVE MarksHeld'
    OBVIOUS
  <1>1. CASE SetMark
    <2>1. Marked(server)'
      BY <1>1, MarkIsPatched
    <2>2. pc' = "check" /\ copy' = server'
      BY <1>1 DEF SetMark
    <2> QED
      BY <2>1, <2>2 DEF MarksHeld, Marked
  <1>2. CASE Dequeue
    BY <1>2 DEF Dequeue, MarksHeld, Marked, MarkKey, flagVars
  <1>3. CASE Trigger \/ Edit \/ Deliver \/ ParseArgs \/ ValidateKeys \/ SetUp \/ UNCHANGED vars
    BY <1>3 DEF Trigger, Edit, Deliver, ParseArgs, ValidateKeys, SetUp, vars, flagVars,
         workVars, MarksHeld, Marked, MarkKey
  <1>4. CASE GiveUp \/ ComeBack \/ BeginReload \/ ClearMark \/ TriggerReloads
    BY <1>4 DEF GiveUp, ComeBack, BeginReload, ClearMark, TriggerReloads, flagVars,
         MarksHeld, Marked, MarkKey
  <1> QED
    BY <1>1, <1>2, <1>3, <1>4 DEF Next

LEMMA NextImplements ==
  ASSUME TypeOK, Validated, ClearsWithTargets, MarksHeld, [Next]_vars
  PROVE  [Workload!Next]_Workload!vars
  <1> USE DEF flagVars, clusterVars, workVars
  <1>1. keys' = keys
    BY KeysStay
  <1>2. CASE ParseArgs \/ ValidateKeys \/ SetUp \/ UNCHANGED vars
    BY <1>1, <1>2, ReadingStays DEF ParseArgs, ValidateKeys, SetUp, vars, Workload!vars
  <1>3. CASE Edit
    <2>1. Workload!Edit
      BY <1>1, <1>3, ReadingStays DEF Edit, Workload!Edit
    <2> QED
      BY <2>1 DEF Workload!Next
  <1>4. CASE Deliver
    <2>1. Workload!Deliver
      BY <1>1, <1>4, ReadingStays DEF Deliver, Workload!Deliver
    <2> QED
      BY <2>1 DEF Workload!Next
  <1>5. CASE Trigger
    <2>1. server'["meta"] = server["meta"]
      <3>1. With(cache, "pod", BuiltInKey, Now)["pod"] # None
        BY WithTextIsNotNone, TextAssumption DEF TypeOK, Level
      <3> QED
        BY <1>5, <3>1, PatchTouchesOne, TextAssumption DEF Trigger, TypeOK, Level
    <2>2. Reading(server)' = Reading(server)
      BY <1>1, <2>1 DEF Reading, ExtractTargets, References, Parses, Marked, MarkKey
    <2> QED
      BY <1>1, <1>5, <2>2, ReadingStays DEF Trigger, Workload!vars
  <1>6. CASE Dequeue
    <2>1. Reading(cache).mark = Marked(cache)
      BY DEF Reading
    <2>2. Workload!Dequeue
      BY <1>1, <1>6, <2>1, ReadingStays DEF Dequeue, Workload!Dequeue
    <2> QED
      BY <2>2 DEF Workload!Next
  <1>7. CASE SetMark
    <2>1. Reading(server)' = [Reading(server) EXCEPT !.mark = TRUE]
      <3>1. UniqueAnnotations(keys) /\ keys \in [Role -> Key]
        BY <1>7, WritesTouchOne DEF TypeOK
      <3>2. \A k \in Key \ {MarkKey} : server'["meta"][k] = server["meta"][k]
        BY <1>7, WritesTouchOne
      <3>3. Reading(server') = [Reading(server) EXCEPT !.mark = Marked(server')]
        BY <3>1, <3>2, ReadingButMark
      <3>4. Reading(server)' = Reading(server') /\ Marked(server)' = Marked(server')
        BY <1>1 DEF Reading, ExtractTargets, References, Parses, Marked, MarkKey
      <3>5. Marked(server)'
        BY <1>7, MarkIsPatched
      <3>6. Marked(server') = TRUE
        BY <3>4, <3>5 DEF Marked
      <3> QED
        BY <3>3, <3>4, <3>6
    <2>2. Workload!SetMark
      BY <1>1, <1>7, <2>1, ReadingStays DEF SetMark, Workload!SetMark
    <2> QED
      BY <2>2 DEF Workload!Next
  <1>8. CASE GiveUp \/ ComeBack
    <2>1. Workload!Leave
      BY <1>1, <1>8, ReadingStays DEF GiveUp, ComeBack, Workload!Leave
    <2> QED
      BY <2>1 DEF Workload!Next
  <1>9. CASE BeginReload
    <2>1. Reading(copy).sound /\ Reading(copy).targets = ExtractTargets(copy["meta"])
      BY <1>9 DEF BeginReload, Readable, Reading
    <2>2. Workload!BeginReload
      BY <1>1, <1>9, <2>1, ReadingStays DEF BeginReload, Readable, Workload!BeginReload
    <2> QED
      BY <2>2 DEF Workload!Next
  <1>10. CASE ClearMark
    <2>1. Reading(server)' \in {Reading(server), [Reading(server) EXCEPT !.mark = FALSE]}
      <3>1. CASE server' = server
        BY <1>1, <3>1, ReadingStays
      <3>2. CASE server' # server
        <4>1. UniqueAnnotations(keys) /\ keys \in [Role -> Key]
          BY <1>10, WritesTouchOne DEF TypeOK
        <4>2. \A k \in Key \ {MarkKey} : server'["meta"][k] = server["meta"][k]
          BY <1>10, WritesTouchOne
        <4>3. Reading(server') = [Reading(server) EXCEPT !.mark = Marked(server')]
          BY <4>1, <4>2, ReadingButMark
        <4>4. Reading(server)' = Reading(server') /\ Marked(server)' = Marked(server')
          BY <1>1 DEF Reading, ExtractTargets, References, Parses, Marked, MarkKey
        <4>5. ~Marked(server)'
          BY <1>10, <3>2, MarkIsPatched
        <4>6. Marked(server') = FALSE
          BY <4>4, <4>5 DEF Marked
        <4> QED
          BY <4>3, <4>4, <4>6
      <3> QED
        BY <3>1, <3>2
    <2>2. Workload!ClearMark
      BY <1>1, <1>10, <2>1, ReadingStays DEF ClearMark, Workload!ClearMark
    <2> QED
      BY <2>2 DEF Workload!Next
  <1>11. CASE TriggerReloads
    <2>1. Workload!TriggerReloads
      BY <1>1, <1>11, ReadingStays DEF TriggerReloads, Workload!TriggerReloads
    <2> QED
      BY <2>1 DEF Workload!Next
  <1> QED
    BY <1>2, <1>3, <1>4, <1>5, <1>6, <1>7, <1>8, <1>9, <1>10, <1>11 DEF Next

LEMMA InitImplements == Init => Workload!Init /\ MarksHeld
  <1> SUFFICES ASSUME Init PROVE Workload!Init /\ MarksHeld
    OBVIOUS
  <1>1. cache = server /\ copy = server /\ pc = "idle" /\ batch = {} /\ edits = 0
    BY DEF Init
  <1> QED
    BY <1>1 DEF Workload!Init, MarksHeld

\* One workload's annotations, their keys, texts and patches, implement a set of targets and
\* a mark, for any keys the flags may choose and whatever others write in between: this is
\* what the specification of the cluster takes for granted of each of its workloads.
THEOREM AnnotationsAreTargetsAndMark == Spec => ImplementsWorkload
  <1>1. Spec => []MarksHeld
    BY InitImplements, NextMarksHeld, TypeCorrect, PTL DEF Spec
  <1>2. Inv => Validated /\ ClearsWithTargets
    BY DEF Inv
  <1>3. TypeOK /\ Inv /\ MarksHeld /\ [Next]_vars => [Workload!Next]_Workload!vars
    BY <1>2, NextImplements
  <1> QED
    BY <1>1, <1>3, InitImplements, TypeCorrect, InvCorrect, PTL
       DEF Spec, ImplementsWorkload, Workload!Spec

=============================================================================
