-------------------- MODULE InvestigationLifecycleProofs --------------------
(***************************************************************************)
(* The file of an investigation is what its readers see, and a closed one  *)
(* is edited by a request that reopens it only, for every number of        *)
(* threads, objects, snapshots and restarts.                               *)
(***************************************************************************)
EXTENDS InvestigationLifecycle, TLAPS

-----------------------------------------------------------------------------
(* The inductive invariant *)

\* No thread holds an address where nothing is, and neither does the repository.
ObjectsExist ==
  /\ repo # Nobody => heap[repo] # Absent
  /\ \A t \in Threads : local[t].obj # Nobody => heap[local[t].obj] # Absent

\* What the thread t relies on, between its steps.
Relies(t) ==
  /\ pc[t] # "idle" => local[t].obj # Nobody
  /\ pc[t] \in {"editing", "applying", "linking"} => service = t
  /\ pc[t] = "writing" => disk = t /\ repo = local[t].obj
  /\ pc[t] = "copying" => local[t].copy \in Content
  /\ pc[t] = "editing" /\ heap[local[t].obj].status = "CLOSED" => local[t].ask.status = "OPEN"

Inv ==
  /\ TypeOK
  /\ ObjectsExist
  /\ \A t \in Threads : Relies(t)
  /\ DiskMatchesMemory

-----------------------------------------------------------------------------
(* What the steps do to the threads *)

LEMMA Addresses ==
  ASSUME LifecycleAssumption
  PROVE  Nobody \notin Objects /\ Nobody \notin Threads /\ Nobody \notin Titles
         /\ Absent \notin Content /\ Torn \notin Content /\ Absent # Torn
         /\ Nobody \notin Statuses /\ "OPEN" \in Statuses
  BY DEF LifecycleAssumption

LEMMA Gone ==
  ASSUME TypeOK, NEW t \in Threads, NEW stage \in Stages, Goto(t, stage)
  PROVE  /\ pc' \in [Threads -> Stages] /\ pc'[t] = stage
         /\ \A u \in Threads \ {t} : pc'[u] = pc[u]
  BY DEF TypeOK, Goto

LEMMA Held ==
  ASSUME TypeOK, NEW t \in Threads, NEW o \in Objects, NEW ask \in Asked, Hold(t, o, ask)
  PROVE  /\ local' \in [Threads -> Locals]
         /\ local'[t].obj = o /\ local'[t].ask = ask /\ local'[t].copy = local[t].copy
         /\ \A u \in Threads \ {t} : local'[u] = local[u]
  <1> DEFINE l == [local[t] EXCEPT !.obj = o, !.ask = ask]
  <1>1. l \in Locals /\ l.obj = o /\ l.ask = ask /\ l.copy = local[t].copy
    BY DEF TypeOK, Locals
  <1>2. local' = [local EXCEPT ![t] = l]
    BY DEF Hold
  <1> HIDE DEF l
  <1>3. local' \in [Threads -> Locals] /\ local'[t] = l /\ \A u \in Threads \ {t} : local'[u] = local[u]
    BY <1>1, <1>2 DEF TypeOK
  <1> QED
    BY <1>1, <1>3

LEMMA NothingHeld ==
  NoLocals \in Locals /\ NoLocals.obj = Nobody /\ NoRequest \in Asked /\ NoRequest.status = Nobody
  BY DEF NoLocals, Locals, NoRequest, Asked

LEMMA Left ==
  ASSUME TypeOK, NEW t \in Threads, Leave(t)
  PROVE  /\ pc' \in [Threads -> Stages] /\ pc'[t] = "idle"
         /\ \A u \in Threads \ {t} : pc'[u] = pc[u]
         /\ local' \in [Threads -> Locals] /\ local'[t].obj = Nobody
         /\ \A u \in Threads \ {t} : local'[u] = local[u]
         /\ service' \in Threads \cup {Nobody}
         /\ \A u \in Threads \ {t} : service = u => service' = u
  BY NothingHeld DEF TypeOK, Leave, Stages

\* Collecting does not touch what is still referred to.
LEMMA Collected ==
  ASSUME NEW h \in [Objects -> Content \cup {Absent}], Collect(h)
  PROVE  /\ heap' \in [Objects -> Content \cup {Absent}]
         /\ repo' \in Objects => heap'[repo'] = h[repo']
         /\ \A t \in Threads : local'[t].obj \in Objects => heap'[local'[t].obj] = h[local'[t].obj]
  BY DEF Collect

\* A new object is at an address nobody has.
LEMMA Allocated ==
  ASSUME TypeOK, ObjectsExist, LifecycleAssumption,
         NEW t \in Threads, NEW content \in Content, New(t, content)
  PROVE  /\ Fresh \in Objects /\ heap[Fresh] = Absent /\ Fresh # repo
         /\ \A u \in Threads : local[u].obj # Fresh
         /\ heap' \in [Objects -> Content \cup {Absent}] /\ heap'[Fresh] = content
         /\ \A o \in Objects \ {Fresh} : heap'[o] = heap[o]
         /\ local' \in [Threads -> Locals]
         /\ local'[t].obj = Fresh /\ local'[t].ask = NoRequest
         /\ \A u \in Threads \ {t} : local'[u] = local[u]
  <1>1. Fresh \in Objects /\ heap[Fresh] = Absent
    BY DEF New, Fresh
  <1> HIDE DEF Fresh
  <1>2. Fresh # Nobody
    BY <1>1, Addresses
  <1>3. Fresh # repo /\ \A u \in Threads : local[u].obj # Fresh
    BY <1>1, <1>2 DEF ObjectsExist
  <1>4. heap' \in [Objects -> Content \cup {Absent}] /\ heap'[Fresh] = content
        /\ \A o \in Objects \ {Fresh} : heap'[o] = heap[o]
    BY <1>1 DEF New, TypeOK
  <1>5. local' \in [Threads -> Locals] /\ local'[t].obj = Fresh /\ local'[t].ask = NoRequest
        /\ \A u \in Threads \ {t} : local'[u] = local[u]
    BY <1>1, Held, NothingHeld DEF New
  <1> QED
    BY <1>1, <1>3, <1>4, <1>5

\* A thread whose locks, variables and object are left alone relies on what it did.
LEMMA Undisturbed ==
  ASSUME NEW u \in Threads, Relies(u), pc'[u] = pc[u], local'[u] = local[u],
         service = u => service' = u,
         disk = u => disk' = u /\ repo' = repo,
         pc[u] = "editing" => heap'[local[u].obj] = heap[local[u].obj]
  PROVE  Relies(u)'
  BY DEF Relies

LEMMA StillMatches ==
  ASSUME Inv, View' = View, file' = file, ~ behind' => ~ behind, disk' = Nobody => disk = Nobody,
         \A u \in Threads : Unsaved(u) => Unsaved(u)'
  PROVE  DiskMatchesMemory'
  BY DEF Inv, DiskMatchesMemory, Loaded

-----------------------------------------------------------------------------
(* Every step keeps the invariant *)

LEMMA EnterKeepsInv ==
  ASSUME Inv, LifecycleAssumption, NEW t \in Threads, NEW ask \in Asked,
         NEW stage \in {"editing", "linking"}, Enter(t, ask, stage),
         stage = "editing" /\ heap[repo].status = "CLOSED" => ask.status = "OPEN"
  PROVE  Inv'
  <1> USE DEF Enter
  <1>1. repo \in Objects /\ stage \in Stages
    BY DEF Inv, TypeOK, Stages
  <1>2. /\ local' \in [Threads -> Locals] /\ local'[t].obj = repo /\ local'[t].ask = ask
        /\ \A u \in Threads \ {t} : local'[u] = local[u]
    BY <1>1, Held DEF Inv
  <1>3. pc' \in [Threads -> Stages] /\ pc'[t] = stage /\ \A u \in Threads \ {t} : pc'[u] = pc[u]
    BY <1>1, Gone DEF Inv
  <1>4. TypeOK'
    BY <1>2, <1>3 DEF Inv, TypeOK
  <1>5. ObjectsExist'
    BY <1>2 DEF Inv, ObjectsExist
  <1>6. ASSUME NEW u \in Threads PROVE Relies(u)'
    <2>1. CASE u = t
      BY <2>1, <1>1, <1>2, <1>3, Addresses DEF Relies
    <2>2. CASE u # t
      BY <2>2, <1>2, <1>3, Undisturbed, Addresses DEF Inv
    <2> QED
      BY <2>1, <2>2
  <1>7. DiskMatchesMemory'
    BY <1>2, <1>3 DEF Inv, DiskMatchesMemory, Unsaved, View
  <1> QED
    BY <1>4, <1>5, <1>6, <1>7 DEF Inv

LEMMA CreateKeepsInv ==
  ASSUME Inv, LifecycleAssumption, NEW t \in Threads, NEW title \in Titles, Create(t, title)
  PROVE  Inv'
  <1> DEFINE content == [title |-> title, status |-> "OPEN", links |-> {}]
  <1>0. content \in Content
    BY Addresses DEF Content
  <1>1. New(t, content)
    BY DEF Create
  <1> HIDE DEF content
  <1>2. /\ Fresh \in Objects /\ Fresh # repo /\ \A u \in Threads : local[u].obj # Fresh
        /\ heap' \in [Objects -> Content \cup {Absent}] /\ heap'[Fresh] = content
        /\ \A o \in Objects \ {Fresh} : heap'[o] = heap[o]
        /\ local' \in [Threads -> Locals] /\ local'[t].obj = Fresh
        /\ \A u \in Threads \ {t} : local'[u] = local[u]
    BY <1>0, <1>1, Allocated DEF Inv
  <1>3. pc' \in [Threads -> Stages] /\ pc'[t] = "storing" /\ \A u \in Threads \ {t} : pc'[u] = pc[u]
    BY Gone DEF Inv, Create, Stages
  <1>4. UNCHANGED <<repo, file, snapshots, disk, behind>> /\ service' = t /\ service = Nobody
    BY DEF Create
  <1>5. TypeOK'
    BY <1>2, <1>3, <1>4 DEF Inv, TypeOK, Create
  <1>6. ObjectsExist'
    BY <1>0, <1>2, <1>4, Addresses DEF Inv, ObjectsExist, TypeOK, Locals
  <1>7. ASSUME NEW u \in Threads PROVE Relies(u)'
    <2>1. CASE u = t
      BY <2>1, <1>2, <1>3, Addresses DEF Relies
    <2>2. CASE u # t
      <3>1. pc[u] = "editing" => heap'[local[u].obj] = heap[local[u].obj]
        BY <1>2 DEF Inv, TypeOK, Locals, Relies
      <3> QED
        BY <3>1, <2>2, <1>2, <1>3, <1>4, Undisturbed, Addresses DEF Inv
    <2> QED
      BY <2>1, <2>2
  <1>8. DiskMatchesMemory'
    <2>1. View' = View
      BY <1>2, <1>4 DEF View, Inv, TypeOK
    <2>2. \A u \in Threads : Unsaved(u) => Unsaved(u)'
      BY <1>2, <1>3, <1>4 DEF Unsaved, Create
    <2> QED
      BY <2>1, <2>2, <1>4, StillMatches
  <1> QED
    BY <1>5, <1>6, <1>7, <1>8 DEF Inv

\* The holder of the lock of the service changes its object.
LEMMA ChangeKeepsInv ==
  ASSUME Inv, LifecycleAssumption, NEW t \in Threads, NEW content \in Content,
         NEW stage \in {"applying", "storing"},
         pc[t] \in {"editing", "applying", "linking"}, Goto(t, stage),
         heap' = [heap EXCEPT ![local[t].obj] = content],
         local' \in [Threads -> Locals], local'[t].obj = local[t].obj,
         \A u \in Threads \ {t} : local'[u] = local[u],
         UNCHANGED <<repo, file, snapshots, service, disk, behind, used>>
  PROVE  Inv'
  <1> DEFINE o == local[t].obj
  <1>1. o \in Objects /\ service = t
    BY DEF Inv, TypeOK, Locals, Relies
  <1>2. heap' \in [Objects -> Content \cup {Absent}] /\ heap'[o] = content
        /\ \A p \in Objects \ {o} : heap'[p] = heap[p]
    BY <1>1 DEF Inv, TypeOK
  <1>3. pc' \in [Threads -> Stages] /\ pc'[t] = stage /\ \A u \in Threads \ {t} : pc'[u] = pc[u]
    BY Gone DEF Inv, Stages
  <1>4. TypeOK'
    BY <1>2, <1>3 DEF Inv, TypeOK
  <1>5. ObjectsExist'
    BY <1>1, <1>2, Addresses DEF Inv, ObjectsExist, TypeOK, Locals
  <1>6. ASSUME NEW u \in Threads PROVE Relies(u)'
    <2>1. CASE u = t
      BY <2>1, <1>1, <1>3, Addresses DEF Relies
    <2>2. CASE u # t
      BY <2>2, <1>1, <1>3, Undisturbed DEF Inv, Relies
    <2> QED
      BY <2>1, <2>2
  <1>7. DiskMatchesMemory'
    <2>1. CASE o = repo
      BY <2>1, <1>3 DEF DiskMatchesMemory, Unsaved
    <2>2. CASE o # repo
      <3>1. View' = View
        BY <2>2, <1>2 DEF View, Inv, TypeOK
      <3>2. \A u \in Threads : Unsaved(u) => Unsaved(u)'
        BY <2>2, <1>3 DEF Unsaved
      <3> QED
        BY <3>1, <3>2, StillMatches
    <2> QED
      BY <2>1, <2>2
  <1> QED
    BY <1>4, <1>5, <1>6, <1>7 DEF Inv

\* What a request leaves behind when it raises: its object, with what it has set.
LEMMA RaiseKeepsInv ==
  ASSUME Inv, LifecycleAssumption, NEW t \in Threads, NEW content \in Content,
         pc[t] \in {"editing", "applying"}, Leave(t), Collect([heap EXCEPT ![local[t].obj] = content]),
         ~ behind' => /\ ~ behind
                      /\ local[t].obj = repo => pc[t] = "editing" /\ content = heap[repo],
         behind' \in BOOLEAN,
         UNCHANGED <<repo, file, snapshots, disk, used>>
  PROVE  Inv'
  <1> DEFINE o == local[t].obj
             h == [heap EXCEPT ![o] = content]
  <1>1. o \in Objects /\ service = t
    BY DEF Inv, TypeOK, Locals, Relies
  <1>2. h \in [Objects -> Content \cup {Absent}] /\ h[o] = content
        /\ \A p \in Objects \ {o} : h[p] = heap[p]
    BY <1>1 DEF Inv, TypeOK
  <1> HIDE DEF h
  <1>3. /\ heap' \in [Objects -> Content \cup {Absent}]
        /\ repo \in Objects => heap'[repo] = h[repo]
        /\ \A u \in Threads : local'[u].obj \in Objects => heap'[local'[u].obj] = h[local'[u].obj]
    BY <1>2, Collected DEF h
  <1>4. /\ pc' \in [Threads -> Stages] /\ pc'[t] = "idle" /\ \A u \in Threads \ {t} : pc'[u] = pc[u]
        /\ local' \in [Threads -> Locals] /\ local'[t].obj = Nobody
        /\ \A u \in Threads \ {t} : local'[u] = local[u]
        /\ service' \in Threads \cup {Nobody}
        /\ \A u \in Threads \ {t} : service = u => service' = u
    BY Left DEF Inv
  <1>5. TypeOK'
    BY <1>3, <1>4 DEF Inv, TypeOK
  <1>6. ObjectsExist'
    BY <1>1, <1>2, <1>3, <1>4, Addresses DEF Inv, ObjectsExist, TypeOK, Locals
  <1>7. ASSUME NEW u \in Threads PROVE Relies(u)'
    <2>1. CASE u = t
      BY <2>1, <1>4 DEF Relies
    <2>2. CASE u # t
      BY <2>2, <1>1, <1>4, Undisturbed DEF Inv, Relies
    <2> QED
      BY <2>1, <2>2
  <1>8. DiskMatchesMemory'
    <2>1. CASE behind'
      BY <2>1 DEF DiskMatchesMemory
    <2>2. CASE ~ behind'
      <3>1. View' = View
        BY <2>2, <1>2, <1>3 DEF View, Inv, TypeOK
      <3>2. \A u \in Threads : Unsaved(u) => Unsaved(u)'
        BY <2>2, <1>4 DEF Unsaved
      <3> QED
        BY <2>2, <3>1, <3>2, StillMatches
    <2> QED
      BY <2>1, <2>2
  <1> QED
    BY <1>5, <1>6, <1>7, <1>8 DEF Inv

LEMMA SetFieldsKeepsInv ==
  ASSUME Inv, LifecycleAssumption, NEW t \in Threads, SetFields(t)
  PROVE  Inv'
  <1> DEFINE o == local[t].obj
             title == IF local[t].ask.title = Nobody THEN heap[o].title ELSE local[t].ask.title
             content == [heap[o] EXCEPT !.title = title]
  <1>1. pc[t] = "editing" /\ o \in Objects /\ heap[o] \in Content /\ local[t].ask \in Asked
    BY DEF SetFields, Inv, TypeOK, Locals, Relies, ObjectsExist
  <1>2. content \in Content /\ content.title = title /\ (title = heap[o].title => content = heap[o])
    BY <1>1 DEF Content, Asked
  <1>3. [heap EXCEPT ![o].title = title] = [heap EXCEPT ![o] = content]
    OBVIOUS
  <1>4. CASE Goto(t, "applying") /\ local' = [local EXCEPT ![t].ask.title = Nobody]
             /\ heap' = [heap EXCEPT ![o].title = title] /\ UNCHANGED <<service, behind>>
    <2> DEFINE ask == [local[t].ask EXCEPT !.title = Nobody]
               l == [local[t] EXCEPT !.ask = ask]
    <2>1. ask \in Asked
      BY <1>1 DEF Asked
    <2>2. l \in Locals /\ l.obj = o
      BY <2>1 DEF Inv, TypeOK, Locals
    <2>3. local' = [local EXCEPT ![t] = l]
      BY <1>4
    <2> HIDE DEF l
    <2>4. local' \in [Threads -> Locals] /\ local'[t].obj = o /\ \A u \in Threads \ {t} : local'[u] = local[u]
      BY <2>2, <2>3 DEF Inv, TypeOK
    <2>5. UNCHANGED <<repo, file, snapshots, disk, used>>
      BY DEF SetFields
    <2> HIDE DEF content, title
    <2> QED
      BY <1>1, <1>2, <1>3, <1>4, <2>4, <2>5, ChangeKeepsInv
  <1>5. CASE Leave(t) /\ behind' = (behind \/ (o = repo /\ title # heap[o].title))
             /\ Collect([heap EXCEPT ![o].title = title])
    <2>1. UNCHANGED <<repo, file, snapshots, disk, used>>
      BY DEF SetFields
    <2>2. /\ behind' \in BOOLEAN
          /\ ~ behind' => /\ ~ behind
                          /\ o = repo => pc[t] = "editing" /\ content = heap[repo]
      BY <1>1, <1>2, <1>5 DEF Inv, TypeOK
    <2>3. Collect([heap EXCEPT ![o] = content])
      BY <1>3, <1>5
    <2> HIDE DEF content, title
    <2> QED
      BY <1>1, <1>2, <1>5, <2>1, <2>2, <2>3, RaiseKeepsInv
  <1> QED
    BY <1>4, <1>5 DEF SetFields

LEMMA SetStatusKeepsInv ==
  ASSUME Inv, LifecycleAssumption, NEW t \in Threads, SetStatus(t)
  PROVE  Inv'
  <1> DEFINE o == local[t].obj
             status == IF local[t].ask.status = Nobody THEN heap[o].status ELSE local[t].ask.status
             content == [heap[o] EXCEPT !.status = status]
  <1>1. pc[t] = "applying" /\ o \in Objects /\ heap[o] \in Content /\ local[t].ask \in Asked
    BY DEF SetStatus, Inv, TypeOK, Locals, Relies, ObjectsExist
  <1>2. content \in Content
    BY <1>1 DEF Content, Asked
  <1>3. [heap EXCEPT ![o].status = status] = [heap EXCEPT ![o] = content]
    OBVIOUS
  <1>4. UNCHANGED <<repo, file, snapshots, disk, used>>
    BY DEF SetStatus
  <1>5. CASE Goto(t, "storing") /\ Hold(t, o, NoRequest)
             /\ heap' = [heap EXCEPT ![o].status = status] /\ UNCHANGED <<service, behind>>
    <2>1. local' \in [Threads -> Locals] /\ local'[t].obj = o /\ \A u \in Threads \ {t} : local'[u] = local[u]
      BY <1>1, <1>5, Held, NothingHeld DEF Inv
    <2> HIDE DEF content, status
    <2> QED
      BY <1>1, <1>2, <1>3, <1>4, <1>5, <2>1, ChangeKeepsInv
  <1>6. CASE Leave(t) /\ behind' = (behind \/ o = repo)
             /\ Collect([heap EXCEPT ![o].status = status])
    <2>1. behind' \in BOOLEAN /\ (~ behind' => ~ behind /\ o # repo)
      BY <1>6 DEF Inv, TypeOK
    <2>2. Collect([heap EXCEPT ![o] = content])
      BY <1>3, <1>6
    <2> HIDE DEF content, status
    <2> QED
      BY <1>1, <1>2, <1>4, <1>6, <2>1, <2>2, RaiseKeepsInv
  <1>7. [heap EXCEPT ![o].status = IF local[t].ask.status = Nobody THEN @ ELSE local[t].ask.status]
          = [heap EXCEPT ![o].status = status]
    OBVIOUS
  <1> HIDE DEF content, status
  <1> QED
    BY <1>5, <1>6, <1>7 DEF SetStatus

LEMMA AddLinkKeepsInv ==
  ASSUME Inv, LifecycleAssumption, NEW t \in Threads, NEW item \in Items, AddLink(t, item)
  PROVE  Inv'
  <1> DEFINE o == local[t].obj
             content == [heap[o] EXCEPT !.links = @ \cup {item}]
  <1>1. pc[t] = "linking" /\ o \in Objects /\ heap[o] \in Content
    BY DEF AddLink, Inv, TypeOK, Locals, Relies, ObjectsExist
  <1>2. content \in Content
    BY <1>1 DEF Content
  <1>3. heap' = [heap EXCEPT ![o] = content]
    BY DEF AddLink
  <1> HIDE DEF content
  <1> QED
    BY <1>1, <1>2, <1>3, ChangeKeepsInv DEF AddLink, Inv, TypeOK

LEMMA StoreKeepsInv ==
  ASSUME Inv, LifecycleAssumption, NEW t \in Threads, Store(t)
  PROVE  Inv'
  <1>1. /\ pc[t] = "storing" /\ disk = Nobody /\ disk' = t /\ repo' = local[t].obj
        /\ UNCHANGED <<local, service, behind, snapshots, used>> /\ file' \in {file, Torn}
    BY DEF Store
  <1>2. local[t].obj \in Objects
    BY <1>1 DEF Inv, TypeOK, Locals, Relies
  <1>3. pc' \in [Threads -> Stages] /\ pc'[t] = "writing" /\ \A u \in Threads \ {t} : pc'[u] = pc[u]
    BY Gone DEF Inv, Stages, Store
  <1>4. /\ heap' \in [Objects -> Content \cup {Absent}]
        /\ heap'[repo'] = heap[repo']
        /\ \A u \in Threads : local[u].obj \in Objects => heap'[local[u].obj] = heap[local[u].obj]
    BY <1>1, <1>2, Collected DEF Store, Inv, TypeOK
  <1>5. TypeOK'
    BY <1>1, <1>2, <1>3, <1>4 DEF Inv, TypeOK
  <1>6. ObjectsExist'
    BY <1>1, <1>2, <1>4, Addresses DEF Inv, ObjectsExist, TypeOK, Locals
  <1>7. ASSUME NEW u \in Threads PROVE Relies(u)'
    <2>1. CASE u = t
      BY <2>1, <1>1, <1>2, <1>3, Addresses DEF Relies
    <2>2. CASE u # t
      <3>1. pc[u] = "editing" => heap'[local[u].obj] = heap[local[u].obj]
        BY <1>4 DEF Inv, TypeOK, Locals, Relies
      <3> QED
        BY <3>1, <2>2, <1>1, <1>3, Undisturbed, Addresses DEF Inv
    <2> QED
      BY <2>1, <2>2
  <1>8. DiskMatchesMemory'
    BY <1>1, Addresses DEF DiskMatchesMemory
  <1> QED
    BY <1>5, <1>6, <1>7, <1>8 DEF Inv

\* A request that writes ends, with its object in the file or a failure on record.
LEMMA WrittenKeepsInv ==
  ASSUME Inv, LifecycleAssumption, NEW t \in Threads, pc[t] = "writing", Leave(t), Collect(heap),
         disk' = Nobody, UNCHANGED <<repo, snapshots, used>>,
         \/ file' = heap[local[t].obj] /\ behind' = FALSE
         \/ file' = file /\ behind' = TRUE
  PROVE  Inv'
  <1>1. local[t].obj \in Objects /\ disk = t /\ repo = local[t].obj /\ heap[repo] \in Content
    BY DEF Inv, TypeOK, Locals, Relies, ObjectsExist
  <1>2. /\ pc' \in [Threads -> Stages] /\ pc'[t] = "idle" /\ \A u \in Threads \ {t} : pc'[u] = pc[u]
        /\ local' \in [Threads -> Locals] /\ local'[t].obj = Nobody
        /\ \A u \in Threads \ {t} : local'[u] = local[u]
        /\ service' \in Threads \cup {Nobody}
        /\ \A u \in Threads \ {t} : service = u => service' = u
    BY Left DEF Inv
  <1>3. /\ heap' \in [Objects -> Content \cup {Absent}]
        /\ heap'[repo] = heap[repo]
        /\ \A u \in Threads : local'[u].obj \in Objects => heap'[local'[u].obj] = heap[local'[u].obj]
    BY <1>1, Collected DEF Inv, TypeOK
  <1>4. TypeOK'
    BY <1>1, <1>2, <1>3 DEF Inv, TypeOK
  <1>5. ObjectsExist'
    BY <1>1, <1>2, <1>3, Addresses DEF Inv, ObjectsExist, TypeOK, Locals
  <1>6. ASSUME NEW u \in Threads PROVE Relies(u)'
    <2>1. CASE u = t
      BY <2>1, <1>2 DEF Relies
    <2>2. CASE u # t
      <3>1. pc[u] = "editing" => heap'[local[u].obj] = heap[local[u].obj]
        BY <2>2, <1>2, <1>3 DEF Inv, TypeOK, Locals, Relies
      <3> QED
        BY <3>1, <2>2, <1>1, <1>2, Undisturbed DEF Inv
    <2> QED
      BY <2>1, <2>2
  <1>7. DiskMatchesMemory'
    BY <1>1, <1>3, Addresses DEF DiskMatchesMemory, View, Loaded
  <1> QED
    BY <1>4, <1>5, <1>6, <1>7 DEF Inv

LEMMA DeleteKeepsInv ==
  ASSUME Inv, LifecycleAssumption, NEW t \in Threads, Delete(t)
  PROVE  Inv'
  <1>1. /\ disk = Nobody /\ repo' = Nobody /\ UNCHANGED <<snapshots, pc, local, service, disk, used>>
        /\ behind' \in BOOLEAN /\ (file' = Absent \/ (file' = file /\ behind'))
    BY DEF Delete
  <1>2. /\ heap' \in [Objects -> Content \cup {Absent}]
        /\ \A u \in Threads : local[u].obj \in Objects => heap'[local[u].obj] = heap[local[u].obj]
    BY <1>1, Collected DEF Inv, TypeOK, Delete
  <1>3. TypeOK'
    BY <1>1, <1>2 DEF Inv, TypeOK
  <1>4. ObjectsExist'
    BY <1>1, <1>2 DEF Inv, ObjectsExist, TypeOK, Locals
  <1>5. ASSUME NEW u \in Threads PROVE Relies(u)'
    <2>1. pc[u] = "editing" => heap'[local[u].obj] = heap[local[u].obj]
      BY <1>2 DEF Inv, TypeOK, Locals, Relies
    <2> QED
      BY <2>1, <1>1, Undisturbed, Addresses DEF Inv
  <1>6. DiskMatchesMemory'
    BY <1>1, Addresses DEF DiskMatchesMemory, View, Loaded
  <1> QED
    BY <1>3, <1>4, <1>5, <1>6 DEF Inv

LEMMA SnapshotKeepsInv ==
  ASSUME Inv, LifecycleAssumption, NEW t \in Threads, Snapshot(t)
  PROVE  Inv'
  <1> DEFINE l == [local[t] EXCEPT !.obj = repo, !.copy = heap[repo]]
  <1>1. repo \in Objects /\ heap[repo] \in Content /\ pc[t] = "idle"
        /\ UNCHANGED <<heap, repo, file, snapshots, service, disk, behind>>
    BY DEF Snapshot, Inv, TypeOK, ObjectsExist
  <1>2. l \in Locals /\ l.obj = repo /\ l.copy = heap[repo]
    BY <1>1 DEF Inv, TypeOK, Locals
  <1>3. local' = [local EXCEPT ![t] = l]
    BY DEF Snapshot
  <1> HIDE DEF l
  <1>4. local' \in [Threads -> Locals] /\ local'[t] = l /\ \A u \in Threads \ {t} : local'[u] = local[u]
    BY <1>2, <1>3 DEF Inv, TypeOK
  <1>5. pc' \in [Threads -> Stages] /\ pc'[t] = "copying" /\ \A u \in Threads \ {t} : pc'[u] = pc[u]
    BY Gone DEF Inv, Stages, Snapshot
  <1>6. TypeOK'
    BY <1>1, <1>4, <1>5 DEF Inv, TypeOK, Snapshot
  <1>7. ObjectsExist'
    BY <1>1, <1>2, <1>4, Addresses DEF Inv, ObjectsExist
  <1>8. ASSUME NEW u \in Threads PROVE Relies(u)'
    <2>1. CASE u = t
      BY <2>1, <1>1, <1>2, <1>4, <1>5, Addresses DEF Relies
    <2>2. CASE u # t
      BY <2>2, <1>1, <1>4, <1>5, Undisturbed DEF Inv
    <2> QED
      BY <2>1, <2>2
  <1>9. DiskMatchesMemory'
    <2>1. \A u \in Threads : Unsaved(u) => Unsaved(u)'
      BY <1>1, <1>4, <1>5 DEF Unsaved
    <2> QED
      BY <2>1, <1>1, StillMatches DEF View
  <1> QED
    BY <1>6, <1>7, <1>8, <1>9 DEF Inv

LEMMA CopyLinksKeepsInv ==
  ASSUME Inv, LifecycleAssumption, NEW t \in Threads, CopyLinks(t)
  PROVE  Inv'
  <1> DEFINE o == local[t].obj
             copy == [local[t].copy EXCEPT !.links = heap[o].links]
  <1>1. o \in Objects /\ heap[o] \in Content /\ local[t].copy \in Content /\ pc[t] = "copying"
        /\ UNCHANGED <<repo, file, disk, behind, used>>
    BY DEF CopyLinks, Inv, TypeOK, Locals, Relies, ObjectsExist
  <1>2. copy \in Content
    BY <1>1 DEF Content
  <1>3. snapshots' = snapshots \cup {copy}
    BY DEF CopyLinks
  <1> HIDE DEF copy
  <1>4. /\ pc' \in [Threads -> Stages] /\ pc'[t] = "idle" /\ \A u \in Threads \ {t} : pc'[u] = pc[u]
        /\ local' \in [Threads -> Locals] /\ local'[t].obj = Nobody
        /\ \A u \in Threads \ {t} : local'[u] = local[u]
        /\ service' \in Threads \cup {Nobody}
        /\ \A u \in Threads \ {t} : service = u => service' = u
    BY Left DEF Inv, CopyLinks
  <1>5. /\ heap' \in [Objects -> Content \cup {Absent}]
        /\ repo \in Objects => heap'[repo] = heap[repo]
        /\ \A u \in Threads : local'[u].obj \in Objects => heap'[local'[u].obj] = heap[local'[u].obj]
    BY <1>1, Collected DEF Inv, TypeOK, CopyLinks
  <1>6. TypeOK'
    BY <1>1, <1>2, <1>3, <1>4, <1>5 DEF Inv, TypeOK
  <1>7. ObjectsExist'
    BY <1>1, <1>4, <1>5, Addresses DEF Inv, ObjectsExist, TypeOK, Locals
  <1>8. ASSUME NEW u \in Threads PROVE Relies(u)'
    <2>1. CASE u = t
      BY <2>1, <1>4 DEF Relies
    <2>2. CASE u # t
      <3>1. pc[u] = "editing" => heap'[local[u].obj] = heap[local[u].obj]
        BY <2>2, <1>4, <1>5 DEF Inv, TypeOK, Locals, Relies
      <3> QED
        BY <3>1, <2>2, <1>1, <1>4, Undisturbed DEF Inv
    <2> QED
      BY <2>1, <2>2
  <1>9. DiskMatchesMemory'
    <2>1. View' = View
      BY <1>1, <1>5 DEF View, Inv, TypeOK
    <2>2. \A u \in Threads : Unsaved(u) => Unsaved(u)'
      BY <1>1, <1>4 DEF Unsaved
    <2> QED
      BY <2>1, <2>2, <1>1, StillMatches
  <1> QED
    BY <1>6, <1>7, <1>8, <1>9 DEF Inv

LEMMA RestoreKeepsInv ==
  ASSUME Inv, LifecycleAssumption, NEW t \in Threads, NEW state \in snapshots, Restore(t, state)
  PROVE  Inv'
  <1>0. state \in Content /\ pc[t] = "idle"
        /\ UNCHANGED <<repo, file, snapshots, service, disk, behind, used>>
    BY DEF Inv, TypeOK, Restore
  <1>1. New(t, state)
    BY DEF Restore
  <1>2. /\ Fresh \in Objects /\ Fresh # repo /\ \A u \in Threads : local[u].obj # Fresh
        /\ heap' \in [Objects -> Content \cup {Absent}] /\ heap'[Fresh] = state
        /\ \A o \in Objects \ {Fresh} : heap'[o] = heap[o]
        /\ local' \in [Threads -> Locals] /\ local'[t].obj = Fresh
        /\ \A u \in Threads \ {t} : local'[u] = local[u]
    BY <1>0, <1>1, Allocated DEF Inv
  <1>3. pc' \in [Threads -> Stages] /\ pc'[t] = "storing" /\ \A u \in Threads \ {t} : pc'[u] = pc[u]
    BY Gone DEF Inv, Restore, Stages
  <1>4. TypeOK'
    BY <1>0, <1>2, <1>3 DEF Inv, TypeOK
  <1>5. ObjectsExist'
    BY <1>0, <1>2, Addresses DEF Inv, ObjectsExist, TypeOK, Locals
  <1>6. ASSUME NEW u \in Threads PROVE Relies(u)'
    <2>1. CASE u = t
      BY <2>1, <1>2, <1>3, Addresses DEF Relies
    <2>2. CASE u # t
      <3>1. pc[u] = "editing" => heap'[local[u].obj] = heap[local[u].obj]
        BY <1>2 DEF Inv, TypeOK, Locals, Relies
      <3> QED
        BY <3>1, <2>2, <1>0, <1>2, <1>3, Undisturbed DEF Inv
    <2> QED
      BY <2>1, <2>2
  <1>7. DiskMatchesMemory'
    <2>1. View' = View
      BY <1>0, <1>2 DEF View, Inv, TypeOK
    <2>2. \A u \in Threads : Unsaved(u) => Unsaved(u)'
      BY <1>0, <1>2, <1>3 DEF Unsaved
    <2> QED
      BY <2>1, <2>2, <1>0, StillMatches
  <1> QED
    BY <1>4, <1>5, <1>6, <1>7 DEF Inv

LEMMA RestartKeepsInv ==
  ASSUME Inv, LifecycleAssumption, Restart
  PROVE  Inv'
  <1> DEFINE content == Loaded(file)
  <1>1. content \in Content \cup {Absent}
    BY DEF Inv, TypeOK, Loaded
  <1>2. PICK o \in Objects : /\ heap' = [p \in Objects |-> IF p = o THEN content ELSE Absent]
                             /\ repo' = IF content = Absent THEN Nobody ELSE o
    BY DEF Restart
  <1>3. /\ pc' = [t \in Threads |-> "idle"] /\ local' = [t \in Threads |-> NoLocals]
        /\ service' = Nobody /\ disk' = Nobody /\ file' = file /\ snapshots' = {} /\ behind' = FALSE
        /\ used' = [used EXCEPT !.restarts = @ + 1]
    BY DEF Restart
  <1> HIDE DEF content
  <1>4. TypeOK'
    <2>1. heap' \in [Objects -> Content \cup {Absent}] /\ repo' \in Objects \cup {Nobody}
      BY <1>1, <1>2
    <2>2. used' \in [snapshots : Nat, restarts : Nat, created : BOOLEAN]
      BY <1>3 DEF Inv, TypeOK
    <2>3. pc' \in [Threads -> Stages] /\ local' \in [Threads -> Locals]
      BY <1>3, NothingHeld DEF Stages
    <2> QED
      BY <2>1, <2>2, <2>3, <1>3 DEF Inv, TypeOK
  <1>5. ObjectsExist' /\ \A t \in Threads : Relies(t)'
    BY <1>1, <1>2, <1>3, NothingHeld, Addresses DEF ObjectsExist, Relies
  <1>6. DiskMatchesMemory'
    BY <1>1, <1>2, <1>3, Addresses DEF DiskMatchesMemory, View, Loaded, content
  <1> QED
    BY <1>4, <1>5, <1>6 DEF Inv

LEMMA InitEstablishesInv ==
  ASSUME LifecycleAssumption, Init
  PROVE  Inv
  <1>1. TypeOK
    BY NothingHeld DEF Init, TypeOK, Stages
  <1>2. ObjectsExist /\ \A t \in Threads : Relies(t)
    BY NothingHeld DEF Init, ObjectsExist, Relies
  <1>3. DiskMatchesMemory
    BY Addresses DEF Init, DiskMatchesMemory, View, Loaded
  <1> QED
    BY <1>1, <1>2, <1>3 DEF Inv

LEMMA StutterKeepsInv ==
  ASSUME Inv, UNCHANGED vars
  PROVE  Inv'
  BY DEF vars, Inv, TypeOK, ObjectsExist, Relies, DiskMatchesMemory, Unsaved, View, Loaded

LEMMA StepKeepsInv ==
  ASSUME Inv, LifecycleAssumption, [Next]_vars
  PROVE  Inv'
  <1>1. ASSUME NEW t \in Threads, NEW title \in Titles, Create(t, title) PROVE Inv'
    BY <1>1, CreateKeepsInv
  <1>2. ASSUME NEW t \in Threads, NEW ask \in Asked, Update(t, ask) PROVE Inv'
    BY <1>2, EnterKeepsInv DEF Update
  <1>3. ASSUME NEW t \in Threads, Link(t) PROVE Inv'
    BY <1>3, NothingHeld, EnterKeepsInv DEF Link
  <1>4. ASSUME NEW t \in Threads, Delete(t) PROVE Inv'
    BY <1>4, DeleteKeepsInv
  <1>5. ASSUME NEW t \in Threads, Snapshot(t) PROVE Inv'
    BY <1>5, SnapshotKeepsInv
  <1>6. ASSUME NEW t \in Threads, NEW state \in snapshots, Restore(t, state) PROVE Inv'
    BY <1>6, RestoreKeepsInv
  <1>7. ASSUME NEW t \in Threads, Store(t) PROVE Inv'
    BY <1>7, StoreKeepsInv
  <1>8. ASSUME NEW t \in Threads, SetFields(t) \/ SetStatus(t) \/ CopyLinks(t) PROVE Inv'
    BY <1>8, SetFieldsKeepsInv, SetStatusKeepsInv, CopyLinksKeepsInv
  <1>9. ASSUME NEW t \in Threads, NEW item \in Items, AddLink(t, item) PROVE Inv'
    BY <1>9, AddLinkKeepsInv
  <1>10. ASSUME NEW t \in Threads, Write(t) \/ WriteFails(t) PROVE Inv'
    BY <1>10, WrittenKeepsInv DEF Write, WriteFails
  <1> QED
    BY <1>1, <1>2, <1>3, <1>4, <1>5, <1>6, <1>7, <1>8, <1>9, <1>10,
       RestartKeepsInv, StutterKeepsInv DEF Next, Step

THEOREM Invariance == Spec => []Inv
  <1>1. Init => Inv
    BY InitEstablishesInv, LifecycleAssumption
  <1>2. Inv /\ [Next]_vars => Inv'
    BY StepKeepsInv, LifecycleAssumption
  <1> QED
    BY <1>1, <1>2, PTL DEF Spec

-----------------------------------------------------------------------------
(* The results *)

\* Threads, locks, objects, file and snapshots keep their types, however many there are.
THEOREM TypeCorrect == Spec => []TypeOK
  BY Invariance, PTL DEF Inv

\* FilePersistence and the repository: what clients read is what a restart brings back.
THEOREM DiskIsMemory == Spec => []DiskMatchesMemory
  BY Invariance, PTL DEF Inv

-----------------------------------------------------------------------------
(* A closed investigation *)

\* The object of the repository keeps its title.
Untouched == repo \in Objects /\ repo' = repo => heap'[repo].title = heap[repo].title

LEMMA SetFieldsReopens ==
  ASSUME Inv, NEW t \in Threads, SetFields(t), repo # Nobody, heap[repo].status = "CLOSED"
  PROVE  Untouched \/ Reopening
  <1> DEFINE o == local[t].obj
             title == IF local[t].ask.title = Nobody THEN heap[o].title ELSE local[t].ask.title
             h == [heap EXCEPT ![o].title = title]
  <1>1. CASE o = repo
    BY <1>1 DEF Inv, Relies, SetFields, Reopening
  <1>2. CASE o # repo
    <2>1. repo \in Objects => h[repo] = heap[repo]
      BY <1>2 DEF Inv, TypeOK
    <2>2. heap' = h \/ Collect(h)
      BY DEF SetFields
    <2> HIDE DEF h
    <2>3. repo \in Objects /\ repo' = repo => heap'[repo] = h[repo]
      BY <2>2 DEF Collect
    <2> QED
      BY <2>1, <2>3 DEF Untouched
  <1> QED
    BY <1>1, <1>2

LEMMA OthersDoNotTouch ==
  ASSUME Inv, LifecycleAssumption, NEW t \in Threads,
         \/ \E title \in Titles : Create(t, title)
         \/ \E state \in snapshots : Restore(t, state)
         \/ \E ask \in Asked : Update(t, ask)
         \/ Link(t) \/ Delete(t) \/ Snapshot(t) \/ Store(t) \/ SetStatus(t)
         \/ \E item \in Items : AddLink(t, item)
         \/ Write(t) \/ WriteFails(t) \/ CopyLinks(t)
  PROVE  Untouched
  <1>1. ASSUME NEW title \in Titles, Create(t, title) PROVE Untouched
    <2> DEFINE content == [title |-> title, status |-> "OPEN", links |-> {}]
    <2>1. content \in Content /\ New(t, content)
      BY <1>1, Addresses DEF Content, Create
    <2> HIDE DEF content
    <2> QED
      BY <2>1, Allocated DEF Inv, Untouched
  <1>2. ASSUME NEW state \in snapshots, Restore(t, state) PROVE Untouched
    <2>1. state \in Content /\ New(t, state)
      BY <1>2 DEF Inv, TypeOK, Restore
    <2> QED
      BY <2>1, Allocated DEF Inv, Untouched
  <1>3. CASE (\E ask \in Asked : Update(t, ask)) \/ Link(t) \/ Snapshot(t)
    BY <1>3 DEF Update, Link, Enter, Snapshot, Untouched
  <1>4. CASE Delete(t) \/ Store(t) \/ Write(t) \/ WriteFails(t) \/ CopyLinks(t)
    <2>1. Collect(heap)
      BY <1>4 DEF Delete, Store, Write, WriteFails, CopyLinks
    <2> QED
      BY <2>1 DEF Collect, Untouched
  <1>5. CASE SetStatus(t)
    <2> DEFINE o == local[t].obj
               status == IF local[t].ask.status = Nobody THEN heap[o].status ELSE local[t].ask.status
    <2>1. o \in Objects /\ heap[o] \in Content
      BY <1>5 DEF SetStatus, Inv, TypeOK, Locals, Relies, ObjectsExist
    <2> DEFINE h == [heap EXCEPT ![o] = [heap[o] EXCEPT !.status = status]]
    <2>2. heap' = h \/ Collect(h)
      BY <1>5 DEF SetStatus
    <2>3. repo \in Objects => h[repo].title = heap[repo].title
      BY <2>1 DEF Content, Inv, TypeOK
    <2> HIDE DEF h
    <2> QED
      BY <2>2, <2>3 DEF Collect, Untouched
  <1>6. ASSUME NEW item \in Items, AddLink(t, item) PROVE Untouched
    <2> DEFINE o == local[t].obj
               links == heap[o].links \cup {item}
    <2>1. o \in Objects /\ heap[o] \in Content
      BY <1>6 DEF AddLink, Inv, TypeOK, Locals, Relies, ObjectsExist
    <2>2. heap' = [heap EXCEPT ![o] = [heap[o] EXCEPT !.links = links]]
      BY <1>6 DEF AddLink
    <2> HIDE DEF links
    <2> QED
      BY <2>1, <2>2 DEF Content, Inv, TypeOK, Untouched
  <1> QED
    BY <1>1, <1>2, <1>3, <1>4, <1>5, <1>6

LEMMA StepReopens ==
  ASSUME Inv, LifecycleAssumption, [Next]_vars, repo # Nobody, repo' = repo,
         heap[repo].status = "CLOSED", heap'[repo].title # heap[repo].title
  PROVE  Reopening
  <1>1. repo \in Objects /\ ~ Untouched
    BY DEF Inv, TypeOK, Untouched
  <1>2. ~ Restart
    BY DEF Restart
  <1>3. ~ UNCHANGED vars
    BY DEF vars
  <1>4. PICK t \in Threads :
          \/ SetFields(t)
          \/ \E title \in Titles : Create(t, title)
          \/ \E state \in snapshots : Restore(t, state)
          \/ \E ask \in Asked : Update(t, ask)
          \/ Link(t) \/ Delete(t) \/ Snapshot(t) \/ Store(t) \/ SetStatus(t)
          \/ \E item \in Items : AddLink(t, item)
          \/ Write(t) \/ WriteFails(t) \/ CopyLinks(t)
    BY <1>2, <1>3 DEF Next, Step
  <1> QED
    BY <1>1, <1>4, SetFieldsReopens, OthersDoNotTouch

\* update_investigation: no closed investigation gets a new title but by a request
\* that reopens it, whatever the other requests do meanwhile.
THEOREM ClosedStaysAsItIs == Spec => ClosedNotEdited
  <1>1. Inv /\ [Next]_vars =>
          [(repo # Nobody /\ repo' = repo /\ heap[repo].status = "CLOSED"
              /\ heap'[repo].title # heap[repo].title) => Reopening]_vars
    BY StepReopens, LifecycleAssumption
  <1> QED
    BY <1>1, Invariance, PTL DEF Spec, ClosedNotEdited

-----------------------------------------------------------------------------
(* Who holds the locks, and for how long *)

\* A lock is held by a request that is under way, and the lock of the repository by one
\* that writes and waits for nobody: the two locks, always taken in this order, cannot
\* make requests wait in a circle.
LocksOfRequests ==
  /\ service # Nobody => pc[service] \in {"editing", "applying", "linking", "storing", "writing"}
  /\ disk # Nobody => pc[disk] = "writing"

\* How a step of t may change the locks and the places of the threads.
Passes(t) ==
  /\ \A u \in Threads \ {t} : pc'[u] = pc[u]
  /\ service' \in {service, t, Nobody} /\ disk' \in {disk, t, Nobody}
  /\ service' = t => pc'[t] \in {"editing", "applying", "linking", "storing", "writing"}
  /\ disk' = t => pc'[t] = "writing"

\* The most steps that a request still takes, besides waiting for the repository's lock.
StepsLeft(t) ==
  CASE pc[t] = "editing" -> 4
    [] pc[t] \in {"applying", "linking"} -> 3
    [] pc[t] = "storing" -> 2
    [] pc[t] \in {"writing", "copying"} -> 1
    [] pc[t] = "idle" -> 0

LEMMA StepsPass ==
  ASSUME Inv, LocksOfRequests, LifecycleAssumption, NEW t \in Threads, Step(t) \/ Store(t)
  PROVE  Passes(t) /\ StepsLeft(t)' < StepsLeft(t)
  <1>0. Nobody \notin Threads /\ disk \in Threads \cup {Nobody} /\ service \in Threads \cup {Nobody}
    BY Addresses DEF Inv, TypeOK
  <1>1. ASSUME Leave(t), pc[t] \in {"editing", "applying", "writing", "copying"},
               disk' = (IF pc[t] = "writing" THEN Nobody ELSE disk)
        PROVE  Passes(t) /\ StepsLeft(t)' < StepsLeft(t)
    <2>1. pc'[t] = "idle" /\ \A u \in Threads \ {t} : pc'[u] = pc[u]
      BY <1>1, Left DEF Inv
    <2>2. service' = IF service = t THEN Nobody ELSE service
      BY <1>1 DEF Leave
    <2>3. disk' # t /\ disk' \in {disk, Nobody}
      BY <1>0, <1>1 DEF LocksOfRequests
    <2> QED
      BY <1>0, <1>1, <2>1, <2>2, <2>3 DEF Passes, StepsLeft
  <1>2. ASSUME NEW stage \in {"applying", "storing"}, Goto(t, stage),
               pc[t] \in {"editing", "applying", "linking"},
               stage = "applying" => pc[t] = "editing", UNCHANGED <<service, disk>>
        PROVE  Passes(t) /\ StepsLeft(t)' < StepsLeft(t)
    <2>1. pc'[t] = stage /\ \A u \in Threads \ {t} : pc'[u] = pc[u]
      BY <1>2, Gone DEF Inv, Stages
    <2>2. disk # t
      BY <1>0, <1>2 DEF LocksOfRequests
    <2> QED
      BY <1>2, <2>1, <2>2 DEF Passes, StepsLeft
  <1>3. CASE SetFields(t)
    BY <1>1, <1>2, <1>3 DEF SetFields
  <1>4. CASE SetStatus(t) \/ \E item \in Items : AddLink(t, item)
    BY <1>1, <1>2, <1>4 DEF SetStatus, AddLink
  <1>5. CASE Write(t) \/ WriteFails(t) \/ CopyLinks(t)
    BY <1>1, <1>5 DEF Write, WriteFails, CopyLinks
  <1>6. CASE Store(t)
    <2>1. /\ pc[t] = "storing" /\ disk' = t /\ service' = service
          /\ pc'[t] = "writing" /\ \A u \in Threads \ {t} : pc'[u] = pc[u]
      BY <1>6, Gone DEF Store, Inv, Stages
    <2> QED
      BY <2>1 DEF Passes, StepsLeft
  <1> QED
    BY <1>3, <1>4, <1>5, <1>6 DEF Step

LEMMA RequestsPass ==
  ASSUME Inv, LocksOfRequests, LifecycleAssumption, NEW t \in Threads,
         \/ \E title \in Titles : Create(t, title)
         \/ \E ask \in Asked : Update(t, ask)
         \/ Link(t) \/ Delete(t) \/ Snapshot(t)
         \/ \E state \in snapshots : Restore(t, state)
  PROVE  Passes(t) /\ pc[t] = "idle"
  <1>0. /\ Nobody \notin Threads /\ disk \in Threads \cup {Nobody}
        /\ service \in Threads \cup {Nobody} /\ pc \in [Threads -> Stages]
    BY Addresses DEF Inv, TypeOK
  <1>1. pc[t] = "idle" /\ disk' = disk /\ service' \in {service, t}
        /\ \/ pc' = pc /\ service' = service
           \/ Goto(t, "copying") /\ service' = service
           \/ \E stage \in {"editing", "linking", "storing"} : Goto(t, stage)
    BY DEF Create, Update, Link, Delete, Snapshot, Restore, Enter
  <1>2. disk # t /\ service # t
    BY <1>0, <1>1 DEF LocksOfRequests
  <1>3. pc'[t] \in {"idle", "copying", "editing", "linking", "storing"}
        /\ (service' # service => pc'[t] \in {"editing", "linking", "storing"})
        /\ \A u \in Threads \ {t} : pc'[u] = pc[u]
    BY <1>0, <1>1 DEF Goto
  <1> QED
    BY <1>1, <1>2, <1>3 DEF Passes

LEMMA PassingKeepsLocks ==
  ASSUME LocksOfRequests, TypeOK, LifecycleAssumption, NEW t \in Threads, Passes(t)
  PROVE  LocksOfRequests'
  <1>0. Nobody \notin Threads /\ disk \in Threads \cup {Nobody} /\ service \in Threads \cup {Nobody}
    BY Addresses DEF TypeOK
  <1> QED
    BY <1>0 DEF LocksOfRequests, Passes

LEMMA LocksKept ==
  ASSUME Inv, LocksOfRequests, LifecycleAssumption, [Next]_vars
  PROVE  LocksOfRequests'
  <1>1. ASSUME NEW t \in Threads, Passes(t)
        PROVE  LocksOfRequests'
    BY <1>1, PassingKeepsLocks DEF Inv
  <1>2. CASE Restart
    BY <1>2 DEF Restart, LocksOfRequests
  <1>3. CASE UNCHANGED vars
    BY <1>3 DEF vars, LocksOfRequests
  <1> QED
    BY <1>1, <1>2, <1>3, StepsPass, RequestsPass DEF Next

\* The locks of InvestigationService and InvestigationRepository: whoever holds one is on
\* its way to giving it back, for any threads and whatever raises.
THEOREM NoCircularWait == Spec => []LocksOfRequests
  <1>1. Init => LocksOfRequests
    BY DEF Init, LocksOfRequests
  <1>2. Inv /\ LocksOfRequests /\ [Next]_vars => LocksOfRequests'
    BY LocksKept, LifecycleAssumption
  <1> QED
    BY <1>1, <1>2, Invariance, PTL DEF Spec

\* Each step of a request brings it nearer to its return, and no other request takes it
\* further away.
RequestShortens ==
  [][\A t \in Threads :
       /\ StepsLeft(t) # 0 => StepsLeft(t)' <= StepsLeft(t)
       /\ Step(t) \/ Store(t) => StepsLeft(t)' < StepsLeft(t)]_vars

\* update_investigation, link_entities, create_snapshot and restore_snapshot take four
\* steps at most, besides waiting for a lock, for any threads and whatever raises.
THEOREM RequestsEnd == Spec => RequestShortens
  <1>1. ASSUME Inv, LocksOfRequests, LifecycleAssumption, [Next]_vars, NEW t \in Threads
        PROVE  /\ StepsLeft(t) # 0 => StepsLeft(t)' <= StepsLeft(t)
               /\ Step(t) \/ Store(t) => StepsLeft(t)' < StepsLeft(t)
    <2>1. StepsLeft(t) \in Nat
      BY <1>1 DEF Inv, TypeOK, Stages, StepsLeft
    <2>2. Step(t) \/ Store(t) => StepsLeft(t)' < StepsLeft(t)
      BY <1>1, StepsPass
    <2>3. ASSUME pc'[t] = pc[t]
          PROVE  StepsLeft(t)' <= StepsLeft(t)
      <3>1. StepsLeft(t)' = StepsLeft(t)
        BY <2>3 DEF StepsLeft
      <3> QED
        BY <2>1, <3>1
    <2>4. CASE Restart
      <3>1. StepsLeft(t)' = 0
        BY <2>4 DEF Restart, StepsLeft
      <3> QED
        BY <2>1, <2>2, <3>1
    <2>5. CASE UNCHANGED vars
      BY <2>2, <2>3, <2>5 DEF vars
    <2>6. ASSUME NEW u \in Threads, Step(u) \/ Store(u)
          PROVE  StepsLeft(t)' <= StepsLeft(t)
      <3>1. CASE u = t
        <4>1. StepsLeft(t)' \in Nat
          BY <1>1, StepKeepsInv DEF Inv, TypeOK, Stages, StepsLeft
        <4> QED
          BY <2>1, <2>2, <2>6, <3>1, <4>1
      <3>2. CASE u # t
        BY <1>1, <2>3, <2>6, <3>2, StepsPass DEF Passes
      <3> QED
        BY <3>1, <3>2
    <2>7. CASE \E u \in Threads :
               \/ \E title \in Titles : Create(u, title)
               \/ \E ask \in Asked : Update(u, ask)
               \/ Link(u) \/ Delete(u) \/ Snapshot(u)
               \/ \E state \in snapshots : Restore(u, state)
      <3>1. PICK u \in Threads : Passes(u) /\ pc[u] = "idle"
        BY <1>1, <2>7, RequestsPass
      <3>2. CASE u = t
        <4>1. StepsLeft(t) = 0
          BY <3>1, <3>2 DEF StepsLeft
        <4> QED
          BY <2>2, <4>1
      <3>3. CASE u # t
        <4>1. pc'[t] = pc[t]
          BY <3>1, <3>3 DEF Passes
        <4> QED
          BY <2>2, <2>3, <4>1
      <3> QED
        BY <3>2, <3>3
    <2> QED
      BY <1>1, <2>2, <2>4, <2>5, <2>6, <2>7 DEF Next
  <1>2. Inv /\ LocksOfRequests /\ [Next]_vars =>
          [\A t \in Threads :
             /\ StepsLeft(t) # 0 => StepsLeft(t)' <= StepsLeft(t)
             /\ Step(t) \/ Store(t) => StepsLeft(t)' < StepsLeft(t)]_vars
    BY <1>1, LifecycleAssumption
  <1> QED
    BY <1>2, Invariance, NoCircularWait, PTL DEF Spec, RequestShortens

=============================================================================
