---------------------------- MODULE CleanupProofs ----------------------------
(***************************************************************************)
(* The daily cleanup keeps the files of the sessions it has not listed,    *)
(* and a record until its directories are gone.  The invariant relates the *)
(* list of the pass to the records it was read from, which may have been   *)
(* changed since, and the ages of directories to those of records.         *)
(***************************************************************************)
EXTENDS Cleanup, TLAPS

Runners == Nodes \cup {Unbound}
Record == [runner : Runners \cup {None}, age : {"fresh", "expired", "graced"}, running : BOOLEAN]
Directory == [at : Nodes \cup {Local}, chat : Sessions, root : Roots, age : {"fresh", "expired"}]
Entry == Sessions \X Runners \X {"fresh", "expired", "graced"}
Pass == [at : {"rest", "removing", "sweeping"}, todo : SUBSET Entry, confirmed : SUBSET Sessions,
         keep : SUBSET Sessions, nodes : SUBSET (Nodes \cup {Local})]
CleanupTypeOK ==
    /\ record \in [Sessions -> Record] /\ dirs \subseteq Directory
    /\ node \in [Nodes -> {"online", "offline", "unknown"}]
    /\ pass \in Pass /\ touched \subseteq Sessions

\* Files that were written lately belong to a session that was.
AgesInv == \A d \in dirs : d.age = "fresh" /\ Known(d.chat) => record[d.chat].age = "fresh"

\* A session of the list is still as it was read, unless it became active, and once its
\* runner has confirmed, nothing of it is left there.
Gone(c) == Dirs(record[c].runner, c) = {}
Listed(c) == Known(c) /\ record[c].age # "fresh" /\ ~record[c].running
ListInv ==
    /\ pass.at # "removing" => pass.todo = {} /\ pass.confirmed = {}
    /\ \A t, u \in pass.todo : t[1] = u[1] => t = u
    /\ \A t \in pass.todo :
          /\ t[1] \notin pass.confirmed
          /\ t[1] \notin touched =>
                Listed(t[1]) /\ record[t[1]].runner = t[2] /\ record[t[1]].age = t[3]
    /\ \A c \in pass.confirmed : c \notin touched =>
          Listed(c) /\ record[c].runner # Unbound /\ Gone(c)

\* The sweep knows every session that did not begin after the records were read.
SweepInv == pass.at = "sweeping" => \A c \in Sessions : Known(c) /\ c \notin touched => c \in pass.keep

CleanupInv == CleanupTypeOK /\ AgesInv /\ ListInv /\ SweepInv

-----------------------------------------------------------------------------
LEMMA RecordFields ==
    ASSUME CleanupTypeOK, NEW c \in Sessions
    PROVE  /\ record[c] \in Record /\ record[c].runner \in Runners \cup {None}
           /\ record[c].age \in {"fresh", "expired", "graced"} /\ record[c].running \in BOOLEAN
  BY DEF CleanupTypeOK, Record

LEMMA CleanupInitInv == CleanupInit => CleanupInv
  <1> SUFFICES ASSUME CleanupInit PROVE CleanupInv
      OBVIOUS
  <1>1. NoRecord \in Record /\ NoRecord.runner = None /\ Rest \in Pass
      BY DEF NoRecord, Record, Rest, Pass, None
  <1>2. CleanupTypeOK
      BY <1>1 DEF CleanupInit, CleanupTypeOK
  <1>3. AgesInv /\ ListInv /\ SweepInv
      BY DEF CleanupInit, AgesInv, ListInv, SweepInv, Rest
  <1> QED BY <1>2, <1>3 DEF CleanupInv

-----------------------------------------------------------------------------
(* The chats and the runners *)

\* A session changes while it is touched: what the pass knows of the others stays.
LEMMA TouchedKeeps ==
    ASSUME CleanupInv, NEW c \in Sessions, touched' = touched \cup {c}, pass' = pass,
           \A b \in Sessions \ {c} : record'[b] = record[b],
           \A d \in dirs' : d.chat # c => d \in dirs
    PROVE  ListInv' /\ SweepInv'
  <1> USE DEF CleanupInv
  <1>1. \A b \in Sessions : b \notin touched' => record'[b] = record[b] /\ (Listed(b) => Listed(b)')
      BY DEF Listed, Known
  <1>2. \A b \in Sessions : b \notin touched' /\ Gone(b) => Gone(b)'
      BY <1>1 DEF Gone, Dirs
  <1>3. pass.todo \subseteq Entry /\ pass.confirmed \subseteq Sessions /\ \A t \in Entry : t[1] \in Sessions
      BY DEF CleanupTypeOK, Pass, Entry
  <1>4. ListInv'
    <2>1. ASSUME NEW t \in pass.todo, t[1] \notin touched'
          PROVE  Listed(t[1])' /\ record'[t[1]].runner = t[2] /\ record'[t[1]].age = t[3]
        BY <1>1, <1>3, <2>1 DEF ListInv
    <2>2. ASSUME NEW b \in pass.confirmed, b \notin touched'
          PROVE  Listed(b)' /\ record'[b].runner # Unbound /\ Gone(b)'
        BY <1>1, <1>2, <1>3, <2>2 DEF ListInv
    <2>3. \A t \in pass.todo : t[1] \notin pass.confirmed
        BY DEF ListInv
    <2> QED BY <2>1, <2>2, <2>3 DEF ListInv
  <1>5. SweepInv'
      BY <1>1 DEF SweepInv, Known
  <1> QED BY <1>4, <1>5

LEMMA ActivateInv ==
    ASSUME CleanupInv, NEW c \in Sessions, Activate(c)
    PROVE  CleanupInv'
  <1>1. /\ record' = [record EXCEPT ![c].age = "fresh", ![c].running = (record[c].runner # Unbound)]
        /\ record \in [Sessions -> Record] /\ record[c] \in Record
        /\ touched' = touched \cup {c} /\ pass' = pass /\ node' = node /\ Known(c)
      BY RecordFields DEF Activate, CleanupInv, CleanupTypeOK
  <1>2. /\ record' \in [Sessions -> Record] /\ \A b \in Sessions \ {c} : record'[b] = record[b]
        /\ record'[c].age = "fresh" /\ record'[c].runner = record[c].runner
      BY <1>1 DEF Record
  <1>3. /\ dirs' \subseteq Directory /\ \A d \in dirs' : d.chat # c => d \in dirs
    <2>1. CASE UNCHANGED dirs
        BY <2>1 DEF CleanupInv, CleanupTypeOK
    <2>2. ASSUME record[c].runner # Unbound, NEW roots \in SUBSET Roots,
                 dirs' = {d \in dirs : ~(d.at = record[c].runner /\ d.chat = c /\ d.root \in roots)}
                            \cup {Dir(record[c].runner, c, r, "fresh") : r \in roots}
          PROVE  /\ dirs' \subseteq Directory /\ \A d \in dirs' : d.chat # c => d \in dirs
      <3>1. record[c].runner \in Nodes
          BY <1>1, <2>2 DEF Known, Record, Runners
      <3>2. \A r \in Roots : Dir(record[c].runner, c, r, "fresh") \in Directory
                             /\ Dir(record[c].runner, c, r, "fresh").chat = c
          BY <3>1 DEF Dir, Directory
      <3> QED BY <2>2, <3>2 DEF CleanupInv, CleanupTypeOK
    <2> QED BY <2>1, <2>2 DEF Activate
  <1>4. CleanupTypeOK'
      BY <1>1, <1>2, <1>3 DEF CleanupInv, CleanupTypeOK
  <1>5. AgesInv'
    <2> SUFFICES ASSUME NEW d \in dirs', d.age = "fresh", Known(d.chat)'
                 PROVE  record'[d.chat].age = "fresh"
        BY DEF AgesInv
    <2>1. d.chat \in Sessions
        BY <1>3 DEF Directory
    <2>2. CASE d.chat = c
        BY <1>2, <2>2
    <2>3. CASE d.chat # c
        BY <1>2, <1>3, <2>1, <2>3 DEF CleanupInv, AgesInv, Known
    <2> QED BY <2>2, <2>3
  <1> QED BY <1>1, <1>2, <1>3, <1>4, <1>5, TouchedKeeps DEF CleanupInv

LEMMA CreateInv ==
    ASSUME CleanupInv, NEW c \in Sessions, Create(c)
    PROVE  CleanupInv'
  <1>1. PICK r \in {m \in Nodes : node[m] = "online"} \cup {Unbound} :
          /\ record' = [record EXCEPT ![c] = [runner |-> r, age |-> "fresh", running |-> FALSE]]
          /\ dirs' = dirs \cup IF r = Unbound THEN {Dir(Local, c, root, "fresh") : root \in Roots}
                                              ELSE {Dir(r, c, root, "fresh") : root \in Roots}
      BY DEF Create
  <1>2. /\ touched' = touched \cup {c} /\ pass' = pass /\ node' = node
        /\ record \in [Sessions -> Record]
      BY DEF Create, CleanupInv, CleanupTypeOK
  <1>3. /\ record' \in [Sessions -> Record] /\ \A b \in Sessions \ {c} : record'[b] = record[b]
        /\ record'[c].age = "fresh"
    <2>1. [runner |-> r, age |-> "fresh", running |-> FALSE] \in Record
        BY DEF Record, Runners
    <2> QED BY <1>1, <1>2, <2>1
  <1>4. dirs' \subseteq Directory /\ \A d \in dirs' : d.chat # c => d \in dirs
    <2>1. \A h \in Nodes \cup {Local}, root \in Roots :
              Dir(h, c, root, "fresh") \in Directory /\ Dir(h, c, root, "fresh").chat = c
        BY DEF Dir, Directory
    <2>2. CASE r = Unbound
        BY <1>1, <2>1, <2>2 DEF CleanupInv, CleanupTypeOK
    <2>3. CASE r # Unbound
        BY <1>1, <2>1, <2>3 DEF CleanupInv, CleanupTypeOK
    <2> QED BY <2>2, <2>3
  <1>5. CleanupTypeOK'
      BY <1>2, <1>3, <1>4 DEF CleanupInv, CleanupTypeOK
  <1>6. AgesInv'
    <2> SUFFICES ASSUME NEW d \in dirs', d.age = "fresh", Known(d.chat)'
                 PROVE  record'[d.chat].age = "fresh"
        BY DEF AgesInv
    <2>1. d.chat \in Sessions
        BY <1>4 DEF Directory
    <2>2. CASE d.chat = c
        BY <1>3, <2>2
    <2>3. CASE d.chat # c
        BY <1>3, <1>4, <2>1, <2>3 DEF CleanupInv, AgesInv, Known
    <2> QED BY <2>2, <2>3
  <1> QED BY <1>2, <1>3, <1>4, <1>5, <1>6, TouchedKeeps DEF CleanupInv

LEMMA RunEndsInv ==
    ASSUME CleanupInv, NEW c \in Sessions, RunEnds(c)
    PROVE  CleanupInv'
  <1> USE DEF CleanupInv
  <1>1. /\ record' = [record EXCEPT ![c].running = FALSE] /\ record \in [Sessions -> Record]
        /\ dirs' = dirs /\ pass' = pass /\ node' = node /\ touched' = touched
      BY DEF RunEnds, CleanupTypeOK
  <1>2. /\ record' \in [Sessions -> Record]
        /\ \A b \in Sessions : /\ record'[b].runner = record[b].runner /\ record'[b].age = record[b].age
                               /\ Listed(b) => Listed(b)'
    <2>1. \A b \in Sessions : record[b] \in Record
        BY <1>1
    <2>2. record'[c] = [record[c] EXCEPT !.running = FALSE] /\ \A b \in Sessions \ {c} : record'[b] = record[b]
        BY <1>1
    <2>3. /\ record'[c] \in Record /\ record'[c].runner = record[c].runner
          /\ record'[c].age = record[c].age /\ record'[c].running = FALSE
        BY <2>1, <2>2 DEF Record
    <2>4. record' \in [Sessions -> Record]
        BY <1>1, <2>2, <2>3
    <2> QED BY <2>2, <2>3, <2>4 DEF Listed, Known
  <1>3. CleanupTypeOK'
      BY <1>1, <1>2 DEF CleanupTypeOK
  <1>4. AgesInv'
      BY <1>1, <1>2 DEF AgesInv, CleanupTypeOK, Known, Directory
  <1>5. pass.todo \subseteq Entry /\ pass.confirmed \subseteq Sessions /\ \A t \in Entry : t[1] \in Sessions
      BY DEF CleanupTypeOK, Pass, Entry
  <1>6. ListInv' /\ SweepInv'
      BY <1>1, <1>2, <1>5 DEF ListInv, SweepInv, Known, Gone, Dirs
  <1> QED BY <1>3, <1>4, <1>6

LEMMA MonthInv ==
    ASSUME CleanupInv, Month
    PROVE  CleanupInv'
  <1> USE DEF CleanupInv
  <1>1. /\ pass = Rest /\ pass' = pass /\ node' = node /\ touched' = touched
        /\ record' = [c \in Sessions |-> IF Known(c) THEN [record[c] EXCEPT !.age = Older(record[c].age)] ELSE NoRecord]
        /\ dirs' = {[d EXCEPT !.age = "expired"] : d \in dirs}
      BY DEF Month
  <1>2. record' \in [Sessions -> Record]
    <2>1. NoRecord \in Record
        BY DEF NoRecord, Record, None
    <2>2. ASSUME NEW c \in Sessions PROVE [record[c] EXCEPT !.age = Older(record[c].age)] \in Record
        BY RecordFields DEF Record, Older
    <2> QED BY <1>1, <2>1, <2>2
  <1>3. dirs' \subseteq Directory /\ \A d \in dirs' : d.age = "expired"
    <2>1. ASSUME NEW d \in dirs
          PROVE  [d EXCEPT !.age = "expired"] \in Directory /\ [d EXCEPT !.age = "expired"].age = "expired"
      <3>1. d \in Directory
          BY DEF CleanupTypeOK
      <3> QED BY <3>1 DEF Directory
    <2> QED BY <1>1, <2>1
  <1>4. CleanupTypeOK' /\ AgesInv'
      BY <1>1, <1>2, <1>3 DEF CleanupTypeOK, AgesInv
  <1>5. pass.at = "rest" /\ pass.todo = {} /\ pass.confirmed = {}
      BY <1>1 DEF Rest
  <1>6. ListInv' /\ SweepInv'
      BY <1>1, <1>5 DEF ListInv, SweepInv
  <1> QED BY <1>4, <1>6

LEMMA NodeChangesInv ==
    ASSUME CleanupInv, NEW n \in Nodes, NodeChanges(n)
    PROVE  CleanupInv'
  <1> USE DEF CleanupInv
  <1>1. /\ record' = record /\ dirs' = dirs /\ pass' = pass /\ touched' = touched
        /\ node' \in [Nodes -> {"online", "offline", "unknown"}]
      BY DEF NodeChanges, CleanupTypeOK
  <1> QED BY <1>1 DEF CleanupTypeOK, AgesInv, ListInv, SweepInv, Listed, Known, Gone, Dirs

-----------------------------------------------------------------------------
(* The pass *)

LEMMA PassFields ==
    ASSUME CleanupTypeOK
    PROVE  /\ pass.at \in {"rest", "removing", "sweeping"} /\ pass.todo \subseteq Entry
           /\ pass.confirmed \subseteq Sessions /\ pass.keep \subseteq Sessions
           /\ pass.nodes \subseteq Nodes \cup {Local}
           /\ \A t \in Entry : /\ t[1] \in Sessions /\ t[2] \in Runners
                               /\ t[3] \in {"fresh", "expired", "graced"} /\ t = <<t[1], t[2], t[3]>>
  BY DEF CleanupTypeOK, Pass, Entry

LEMMA CleanExpiredSessionsInv ==
    ASSUME CleanupInv, CleanExpiredSessions
    PROVE  CleanupInv'
  <1> USE DEF CleanupInv
  <1> DEFINE list == {<<c, record[c].runner, record[c].age>> : c \in ExpiredIdleSessions}
  <1>1. /\ record' = record /\ dirs' = dirs /\ node' = node /\ touched' = {}
        /\ pass' = [Rest EXCEPT !.at = "removing", !.todo = list]
      BY DEF CleanExpiredSessions
  <1>2. \A c \in ExpiredIdleSessions : c \in Sessions /\ Listed(c) /\ record[c].runner \in Runners
      BY RecordFields DEF ExpiredIdleSessions, Listed, Known
  <1>3. list \subseteq Entry
      BY <1>2, RecordFields DEF Entry
  <1>4. /\ pass'.at = "removing" /\ pass'.todo = list /\ pass'.confirmed = {} /\ pass' \in Pass
      BY <1>1, <1>3 DEF Rest, Pass
  <1>5. CleanupTypeOK' /\ AgesInv' /\ SweepInv'
      BY <1>1, <1>4 DEF CleanupTypeOK, AgesInv, SweepInv, Known
  <1>6. \A t \in list : Listed(t[1])' /\ record'[t[1]].runner = t[2] /\ record'[t[1]].age = t[3]
      BY <1>1, <1>2 DEF Listed, Known
  <1>7. \A t, u \in list : t[1] = u[1] => t = u
      OBVIOUS
  <1> HIDE DEF list
  <1>8. ListInv'
      BY <1>4, <1>6, <1>7 DEF ListInv
  <1> QED BY <1>5, <1>8

\* Sessions that are dealt with leave the list; the record of one of them, and its
\* directories on the backend's host, may go.
LEMMA Shrinks ==
    ASSUME CleanupInv, NEW c \in Sessions, UNCHANGED <<record, dirs>> \/ Deleted(c),
           node' = node, touched' = touched, pass' \in Pass, pass'.at = "removing", pass.at = "removing",
           pass'.todo \subseteq pass.todo, pass'.confirmed \subseteq pass.confirmed,
           UNCHANGED <<record, dirs>> \/ (c \notin pass'.confirmed /\ \A t \in pass'.todo : t[1] # c)
    PROVE  CleanupInv'
  <1> USE DEF CleanupInv
  <1>1. CASE UNCHANGED <<record, dirs>>
    <2>1. record' = record /\ dirs' = dirs
        BY <1>1
    <2>2. CleanupTypeOK' /\ AgesInv' /\ SweepInv'
        BY <2>1 DEF CleanupTypeOK, AgesInv, SweepInv, Known
    <2>3. ListInv'
        BY <2>1 DEF ListInv, Listed, Known, Gone, Dirs
    <2> QED BY <2>2, <2>3
  <1>2. CASE ~UNCHANGED <<record, dirs>>
    <2>1. /\ record' = [record EXCEPT ![c] = NoRecord] /\ dirs' \subseteq dirs
          /\ record \in [Sessions -> Record]
        BY <1>2 DEF Deleted, CleanupTypeOK
    <2>2. NoRecord \in Record /\ NoRecord.runner = None
        BY DEF NoRecord, Record, None
    <2>3. /\ record' \in [Sessions -> Record] /\ record'[c] = NoRecord
          /\ \A b \in Sessions \ {c} : record'[b] = record[b]
        BY <2>1, <2>2
    <2>4. ~Known(c)' /\ \A b \in Sessions \ {c} : /\ Listed(b) => Listed(b)'
                                                  /\ Gone(b) => Gone(b)'
        BY <2>1, <2>2, <2>3 DEF Known, Listed, Gone, Dirs
    <2>5. CleanupTypeOK' /\ SweepInv'
        BY <2>1, <2>3 DEF CleanupTypeOK, SweepInv
    <2>6. AgesInv'
      <3> SUFFICES ASSUME NEW d \in dirs', d.age = "fresh", Known(d.chat)'
                   PROVE  record'[d.chat].age = "fresh"
          BY DEF AgesInv
      <3>1. d \in dirs /\ d.chat \in Sessions /\ d.chat # c
          BY <2>1, <2>4 DEF CleanupTypeOK, Directory
      <3> QED BY <2>3, <3>1 DEF AgesInv, Known
    <2>7. ASSUME NEW t \in pass'.todo
          PROVE  /\ t[1] \notin pass'.confirmed
                 /\ t[1] \notin touched' =>
                       Listed(t[1])' /\ record'[t[1]].runner = t[2] /\ record'[t[1]].age = t[3]
      <3>1. t \in pass.todo /\ t[1] \in Sessions \ {c}
          BY <1>2, PassFields
      <3> QED BY <2>3, <2>4, <3>1 DEF ListInv
    <2>8. ASSUME NEW b \in pass'.confirmed, b \notin touched'
          PROVE  Listed(b)' /\ record'[b].runner # Unbound /\ Gone(b)'
      <3>1. b \in pass.confirmed /\ b \in Sessions \ {c}
          BY <1>2, PassFields
      <3> QED BY <2>3, <2>4, <2>8, <3>1 DEF ListInv
    <2>9. \A t, u \in pass'.todo : t[1] = u[1] => t = u
        BY DEF ListInv
    <2>10. ListInv'
        BY <2>7, <2>8, <2>9 DEF ListInv
    <2> QED BY <2>5, <2>6, <2>10
  <1> QED BY <1>1, <1>2

LEMMA DropRecordInv ==
    ASSUME CleanupInv, NEW c \in Sessions, DropRecord(c)
    PROVE  CleanupInv'
  <1>1. PICK t \in pass.todo : t[1] = c /\ NobodyToAsk(t) /\ pass' = [pass EXCEPT !.todo = pass.todo \ {t}]
      BY DEF DropRecord
  <1>2. pass.at = "removing" /\ Deleted(c) /\ node' = node /\ touched' = touched /\ pass \in Pass
      BY DEF DropRecord, CleanupInv, CleanupTypeOK
  <1>3. /\ pass' \in Pass /\ pass'.at = "removing" /\ pass'.todo = pass.todo \ {t}
        /\ pass'.confirmed = pass.confirmed
      BY <1>1, <1>2 DEF Pass
  <1>4. c \notin pass.confirmed /\ \A u \in pass'.todo : u[1] # c
      BY <1>1, <1>3 DEF CleanupInv, ListInv
  <1> QED BY <1>2, <1>3, <1>4, Shrinks

LEMMA DeleteConfirmedInv ==
    ASSUME CleanupInv, NEW c \in Sessions, DeleteConfirmed(c)
    PROVE  CleanupInv'
  <1>1. /\ pass.at = "removing" /\ Deleted(c) /\ node' = node /\ touched' = touched /\ pass \in Pass
        /\ pass' = [pass EXCEPT !.confirmed = pass.confirmed \ {c}] /\ c \in pass.confirmed
      BY DEF DeleteConfirmed, CleanupInv, CleanupTypeOK
  <1>2. /\ pass' \in Pass /\ pass'.at = "removing" /\ pass'.todo = pass.todo
        /\ pass'.confirmed = pass.confirmed \ {c}
      BY <1>1 DEF Pass
  <1>3. c \notin pass'.confirmed /\ \A u \in pass'.todo : u[1] # c
      BY <1>1, <1>2 DEF CleanupInv, ListInv
  <1> QED BY <1>1, <1>2, <1>3, Shrinks

LEMMA SkipNodeInv ==
    ASSUME CleanupInv, NEW n \in Nodes, SkipNode(n)
    PROVE  CleanupInv'
  <1>1. /\ pass.at = "removing" /\ record' = record /\ dirs' = dirs /\ node' = node
        /\ touched' = touched /\ pass \in Pass
        /\ pass' = [pass EXCEPT !.todo = {t \in pass.todo : t[2] = n => NobodyToAsk(t)}]
      BY DEF SkipNode, CleanupInv, CleanupTypeOK
  <1>2. /\ pass' \in Pass /\ pass'.at = "removing" /\ pass'.todo \subseteq pass.todo
        /\ pass'.confirmed = pass.confirmed
      BY <1>1 DEF Pass
  <1>3. PICK t \in pass.todo : t[2] = n
      BY DEF SkipNode
  <1>4. t[1] \in Sessions
      BY <1>3, PassFields DEF CleanupInv
  <1> QED BY <1>1, <1>2, <1>4, Shrinks

LEMMA RemoteCleanupInv ==
    ASSUME CleanupInv, NEW n \in Nodes, RemoteCleanup(n)
    PROVE  CleanupInv'
  <1> USE DEF CleanupInv
  <1> DEFINE batch == {t[1] : t \in {u \in pass.todo : u[2] = n}}
  <1>1. PICK left \in SUBSET (batch \X Roots), answered \in BOOLEAN :
          /\ dirs' = {d \in dirs : ~(d.at = n /\ d.chat \in batch /\ <<d.chat, d.root>> \notin left)}
          /\ pass' = [pass EXCEPT !.todo = {t \in pass.todo : t[2] # n},
                                  !.confirmed = pass.confirmed \cup IF answered THEN Confirmed(batch, left) ELSE {}]
      BY DEF RemoteCleanup
  <1>2. /\ pass.at = "removing" /\ record' = record /\ node' = node /\ touched' = touched
        /\ pass \in Pass /\ dirs' \subseteq dirs
      BY <1>1 DEF RemoteCleanup, CleanupTypeOK
  <1> DEFINE new == IF answered THEN Confirmed(batch, left) ELSE {}
  <1>3. batch \subseteq Sessions /\ new \subseteq batch
      BY PassFields DEF Confirmed
  <1>4. /\ pass' \in Pass /\ pass'.at = "removing" /\ pass'.todo = {t \in pass.todo : t[2] # n}
        /\ pass'.confirmed = pass.confirmed \cup new
      BY <1>1, <1>2, <1>3 DEF Pass
  <1>5. CleanupTypeOK' /\ AgesInv' /\ SweepInv'
      BY <1>2, <1>4 DEF CleanupTypeOK, AgesInv, SweepInv, Known
  <1>6. \A b \in Sessions : (Listed(b) => Listed(b)') /\ (Gone(b) => Gone(b)')
      BY <1>2 DEF Listed, Known, Gone, Dirs
  <1>7. ASSUME NEW b \in new, b \notin touched
        PROVE  Listed(b)' /\ record'[b].runner # Unbound /\ Gone(b)'
    <2>1. PICK t \in pass.todo : t[1] = b /\ t[2] = n
        BY <1>3
    <2>2. b \in Sessions /\ Listed(b) /\ record[b].runner = n
        BY <1>3, <1>7, <2>1 DEF ListInv
    <2>3. \A d \in dirs' : ~(d.at = n /\ d.chat = b)
      <3> SUFFICES ASSUME NEW d \in dirs, d.at = n, d.chat = b PROVE d \notin dirs'
          BY <1>2
      <3>1. d.root \in Roots
          BY DEF CleanupTypeOK, Directory
      <3>2. <<b, d.root>> \notin left
          BY <1>7, <3>1 DEF Confirmed
      <3> QED BY <1>1, <1>3, <1>7, <3>2
    <2> QED BY <1>2, <1>6, <2>2, <2>3, CleanupConstants DEF Gone, Dirs, Unbound
  <1>8. ASSUME NEW t \in pass'.todo
        PROVE  /\ t[1] \notin pass'.confirmed
               /\ t[1] \notin touched' =>
                     Listed(t[1])' /\ record'[t[1]].runner = t[2] /\ record'[t[1]].age = t[3]
    <2>1. t \in pass.todo /\ t[2] # n /\ t[1] \in Sessions
        BY <1>4, PassFields
    <2>2. t[1] \notin batch
        BY <2>1 DEF ListInv
    <2> QED BY <1>2, <1>3, <1>4, <1>6, <2>1, <2>2 DEF ListInv
  <1> HIDE DEF new, batch
  <1>9. ASSUME NEW b \in pass'.confirmed, b \notin touched'
        PROVE  Listed(b)' /\ record'[b].runner # Unbound /\ Gone(b)'
    <2>1. CASE b \in new
        BY <1>2, <1>7, <1>9, <2>1
    <2>2. CASE b \in pass.confirmed
        BY <1>2, <1>6, <1>9, <2>2, PassFields DEF ListInv
    <2> QED BY <1>4, <2>1, <2>2
  <1>10. \A t, u \in pass'.todo : t[1] = u[1] => t = u
      BY <1>4 DEF ListInv
  <1>11. ListInv'
      BY <1>4, <1>8, <1>9, <1>10 DEF ListInv
  <1> QED BY <1>5, <1>11

\* A step after the batches: the list is empty, and directories only go.
LEMMA Sweeps ==
    ASSUME CleanupInv, record' = record, dirs' \subseteq dirs, node' = node, pass' \in Pass,
           touched' \subseteq touched, pass'.todo = {}, pass'.confirmed = {},
           pass'.at = "sweeping" => \A c \in Sessions : Known(c) /\ c \notin touched' => c \in pass'.keep
    PROVE  CleanupInv'
  <1> USE DEF CleanupInv
  <1>1. CleanupTypeOK' /\ AgesInv'
      BY DEF CleanupTypeOK, AgesInv, Known
  <1>2. ListInv' /\ SweepInv'
      BY DEF ListInv, SweepInv, Known
  <1> QED BY <1>1, <1>2

LEMMA SweepInvs ==
    ASSUME CleanupInv, \/ BeginSweep \/ EndPass
                       \/ \E h \in Nodes \cup {Local} : SweepHost(h)
    PROVE  CleanupInv'
  <1>0. pass \in Pass
      BY DEF CleanupInv, CleanupTypeOK
  <1>1. CASE BeginSweep
    <2>1. /\ pass' = [pass EXCEPT !.at = "sweeping", !.keep = Keep, !.nodes = Nodes \cup {Local}]
          /\ record' = record /\ dirs' = dirs /\ node' = node /\ touched' = touched
          /\ pass.todo = {} /\ pass.confirmed = {}
        BY <1>1 DEF BeginSweep
    <2>2. Keep \subseteq Sessions
        BY DEF Keep
    <2>3. pass' \in Pass /\ pass'.todo = {} /\ pass'.confirmed = {} /\ pass'.keep = Keep
        BY <1>0, <2>1, <2>2 DEF Pass
    <2> QED BY <2>1, <2>3, Sweeps DEF Keep
  <1>2. CASE EndPass
    <2>1. pass' = Rest /\ record' = record /\ dirs' = dirs /\ node' = node /\ touched' = {}
        BY <1>2 DEF EndPass
    <2>2. pass' \in Pass /\ pass'.todo = {} /\ pass'.confirmed = {} /\ pass'.at = "rest"
        BY <2>1 DEF Rest, Pass
    <2> QED BY <2>1, <2>2, Sweeps
  <1>3. ASSUME NEW h \in Nodes \cup {Local}, SweepHost(h) PROVE CleanupInv'
    <2>1. /\ pass' = [pass EXCEPT !.nodes = pass.nodes \ {h}] /\ pass.at = "sweeping"
          /\ record' = record /\ dirs' \subseteq dirs /\ node' = node /\ touched' = touched
        BY <1>3 DEF SweepHost
    <2>2. pass' \in Pass /\ pass'.todo = pass.todo /\ pass'.confirmed = pass.confirmed /\ pass'.keep = pass.keep
        BY <1>0, <2>1 DEF Pass
    <2>3. /\ pass.todo = {} /\ pass.confirmed = {}
          /\ \A c \in Sessions : Known(c) /\ c \notin touched => c \in pass.keep
        BY <2>1 DEF CleanupInv, ListInv, SweepInv
    <2> QED BY <2>1, <2>2, <2>3, Sweeps
  <1> QED BY <1>1, <1>2, <1>3

LEMMA CleanupNextInv == CleanupInv /\ [CleanupNext]_cleanupVars => CleanupInv'
  <1> SUFFICES ASSUME CleanupInv, [CleanupNext]_cleanupVars PROVE CleanupInv'
      OBVIOUS
  <1>1. CASE Month \/ CleanExpiredSessions
      BY <1>1, MonthInv, CleanExpiredSessionsInv
  <1>2. CASE \E c \in Sessions : Activate(c) \/ Create(c) \/ RunEnds(c) \/ DropRecord(c) \/ DeleteConfirmed(c)
      BY <1>2, ActivateInv, CreateInv, RunEndsInv, DropRecordInv, DeleteConfirmedInv
  <1>3. CASE \E n \in Nodes : NodeChanges(n) \/ SkipNode(n) \/ RemoteCleanup(n)
      BY <1>3, NodeChangesInv, SkipNodeInv, RemoteCleanupInv
  <1>4. CASE BeginSweep \/ EndPass \/ \E h \in Nodes \cup {Local} : SweepHost(h)
      BY <1>4, SweepInvs
  <1>5. CASE UNCHANGED cleanupVars
      BY <1>5 DEF cleanupVars, CleanupInv, CleanupTypeOK, AgesInv, ListInv, SweepInv, Listed, Known, Gone, Dirs
  <1> QED BY <1>1, <1>2, <1>3, <1>4, <1>5 DEF CleanupNext

THEOREM CleanupInvariant == CleanupSpec => []CleanupInv
  <1> QED BY CleanupInitInv, CleanupNextInv, PTL DEF CleanupSpec

-----------------------------------------------------------------------------
(* Records and files *)

\* The steps that take a record, and what they may take with it.
LEMMA RecordTaken ==
    ASSUME CleanupInv, CleanupNext, NEW c \in Sessions, Known(c), ~Known(c)'
    PROVE  DropRecord(c) \/ DeleteConfirmed(c)
  <1> USE DEF CleanupInv
  <1>1. record \in [Sessions -> Record] /\ record[c] \in Record /\ record[c].runner # None
      BY RecordFields DEF CleanupTypeOK, Known
  <1>2. record'[c].runner = None
      BY DEF Known
  <1>3. ASSUME NEW b \in Sessions, Activate(b) \/ RunEnds(b) PROVE FALSE
    <2>1. \/ record' = [record EXCEPT ![b].age = "fresh", ![b].running = (record[b].runner # Unbound)]
          \/ record' = [record EXCEPT ![b].running = FALSE]
        BY <1>3 DEF Activate, RunEnds
    <2>2. record'[c].runner = record[c].runner
        BY <1>1, <2>1 DEF Record
    <2> QED BY <1>1, <1>2, <2>2
  <1>4. ASSUME NEW b \in Sessions, Create(b) PROVE FALSE
    <2>1. b # c /\ \E r : record' = [record EXCEPT ![b] = r]
        BY <1>4 DEF Create
    <2> QED BY <1>1, <1>2, <2>1
  <1>5. ASSUME NEW b \in Sessions, b # c, Deleted(b) PROVE FALSE
      BY <1>1, <1>2, <1>5 DEF Deleted
  <1>6. ASSUME Month PROVE FALSE
    <2>1. record'[c] = [record[c] EXCEPT !.age = Older(record[c].age)]
        BY <1>6 DEF Month
    <2>2. record'[c].runner = record[c].runner
        BY <1>1, <2>1 DEF Record
    <2> QED BY <1>1, <1>2, <2>2
  <1>7. record' # record
      BY <1>1, <1>2
  <1> QED BY <1>3, <1>4, <1>5, <1>6, <1>7
          DEF CleanupNext, CleanExpiredSessions, BeginSweep, EndPass, DropRecord, DeleteConfirmed,
              NodeChanges, SkipNode, RemoteCleanup, SweepHost

LEMMA RecordStep ==
    ASSUME CleanupInv, CleanupNext, NEW c \in Sessions, Known(c), record'[c] = NoRecord, c \notin touched
    PROVE  \/ record[c].runner = Unbound \/ record[c].age = "graced"
           \/ Dirs(record[c].runner, c) = {}
  <1>1. ~Known(c)'
      BY DEF Known, NoRecord
  <1>2. CASE DropRecord(c)
    <2>1. PICK t \in pass.todo : t[1] = c /\ NobodyToAsk(t)
        BY <1>2 DEF DropRecord
    <2>2. record[c].runner = t[2] /\ record[c].age = t[3]
        BY <2>1 DEF CleanupInv, ListInv
    <2> QED BY <2>1, <2>2 DEF NobodyToAsk
  <1>3. CASE DeleteConfirmed(c)
      BY <1>3 DEF DeleteConfirmed, CleanupInv, ListInv, Gone
  <1> QED BY <1>1, <1>2, <1>3, RecordTaken

\* A record is deleted only when nothing of its chat is left on its runner, unless the
\* runner itself is gone or the chat became active meanwhile (cleanRunners).
THEOREM RecordsOutlive == CleanupSpec => RecordOutlivesDirectories
  <1>1. CleanupInv /\ [CleanupNext]_cleanupVars =>
            [\A c \in Sessions : Known(c) /\ record'[c] = NoRecord /\ c \notin touched =>
                \/ record[c].runner = Unbound \/ record[c].age = "graced"
                \/ Dirs(record[c].runner, c) = {}]_cleanupVars
      BY RecordStep
  <1> QED BY <1>1, CleanupInvariant, PTL DEF CleanupSpec, RecordOutlivesDirectories

\* A directory that goes was not written lately, and its session was listed.
LEMMA FilesStep ==
    ASSUME CleanupInv, CleanupNext, NEW d \in Removed, d.chat \notin touched
    PROVE  /\ d.age # "fresh"
           /\ Known(d.chat) /\ Known(d.chat)' => record[d.chat].age # "fresh" /\ ~record[d.chat].running
  <1> USE DEF CleanupInv
  <1>1. d \in dirs /\ d \in Directory /\ d.chat \in Sessions /\ d \notin dirs'
    <2>1. d \in dirs /\ d \in Directory /\ d \notin dirs'
        BY DEF Removed, CleanupTypeOK
    <2> QED BY <2>1 DEF Directory
  <1>2. \A f \in dirs' : ~(f.at = d.at /\ f.chat = d.chat /\ f.root = d.root)
      BY DEF Removed
  <1>3. ASSUME Listed(d.chat) PROVE d.age # "fresh"
      BY <1>1, <1>3 DEF Listed, AgesInv
  <1>4. ASSUME NEW c \in Sessions, Activate(c) PROVE FALSE
    <2>1. PICK roots \in SUBSET Roots :
              dirs' = {e \in dirs : ~(e.at = record[c].runner /\ e.chat = c /\ e.root \in roots)}
                         \cup {Dir(record[c].runner, c, r, "fresh") : r \in roots}
        BY <1>1, <1>4 DEF Activate
    <2>2. d.at = record[c].runner /\ d.chat = c /\ d.root \in roots
        BY <1>1, <2>1
    <2>3. Dir(record[c].runner, c, d.root, "fresh") \in dirs'
        BY <2>1, <2>2
    <2> QED BY <1>2, <2>2, <2>3 DEF Dir
  <1>5. ASSUME Month PROVE FALSE
    <2>1. [d EXCEPT !.age = "expired"] \in dirs'
        BY <1>1, <1>5 DEF Month
    <2> QED BY <1>1, <1>2, <2>1 DEF Directory
  <1>6. ASSUME NEW c \in Sessions, DropRecord(c) \/ DeleteConfirmed(c)
        PROVE  d.age # "fresh" /\ ~Known(d.chat)'
    <2>1. d.chat = c /\ record' = [record EXCEPT ![c] = NoRecord]
        BY <1>1, <1>6 DEF DropRecord, DeleteConfirmed, Deleted, Dirs
    <2>2. Listed(c)
        BY <1>6, <2>1 DEF DropRecord, DeleteConfirmed, ListInv
    <2>3. ~Known(c)'
        BY <2>1 DEF Known, NoRecord, CleanupTypeOK
    <2> QED BY <1>3, <2>1, <2>2, <2>3
  <1>7. ASSUME NEW n \in Nodes, RemoteCleanup(n) PROVE Listed(d.chat)
    <2>1. PICK t \in pass.todo : t[1] = d.chat
        BY <1>1, <1>7 DEF RemoteCleanup
    <2> QED BY <2>1 DEF ListInv
  <1>8. ASSUME NEW h \in Nodes \cup {Local}, SweepHost(h)
        PROVE  d.age # "fresh" /\ ~Known(d.chat)
    <2>1. Orphan(d) /\ pass.at = "sweeping"
        BY <1>1, <1>8 DEF SweepHost
    <2> QED BY <1>1, <2>1 DEF Orphan, SweepInv
  <1>9. dirs' # dirs /\ ~(dirs \subseteq dirs')
      BY <1>1
  <1>10. CASE \E n \in Nodes : RemoteCleanup(n)
      BY <1>3, <1>7, <1>10 DEF Listed
  <1>11. CASE \E h \in Nodes \cup {Local} : SweepHost(h)
      BY <1>8, <1>11
  <1>12. CASE \E c \in Sessions : DropRecord(c) \/ DeleteConfirmed(c)
      BY <1>6, <1>12
  <1> QED BY <1>4, <1>5, <1>9, <1>10, <1>11, <1>12
          DEF CleanupNext, CleanExpiredSessions, BeginSweep, EndPass, Create, RunEnds,
              NodeChanges, SkipNode

\* No pass removes files of a session it has not found idle and expired, or files that
\* were written lately, whatever runs, ends and goes offline during it (sweepOrphans).
THEOREM KeptFilesStay == CleanupSpec => FilesOfKeptStay
  <1>1. CleanupInv /\ [CleanupNext]_cleanupVars =>
            [\A d \in Removed : d.chat \notin touched =>
                /\ d.age # "fresh"
                /\ Known(d.chat) /\ Known(d.chat)' =>
                      record[d.chat].age # "fresh" /\ ~record[d.chat].running]_cleanupVars
      BY FilesStep
  <1> QED BY <1>1, CleanupInvariant, PTL DEF CleanupSpec, FilesOfKeptStay

\* The cleanup keeps what it must, for any sessions, runners, roots and passes.
THEOREM CleanupIsSafe == CleanupSpec => CleanupKeeps
  <1> QED BY RecordsOutlive, KeptFilesStay DEF CleanupKeeps

=============================================================================
