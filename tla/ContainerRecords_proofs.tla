----------------------- MODULE ContainerRecords_proofs -----------------------
(***************************************************************************)
(* Proofs about ContainerRecords, for any containers, specs, hosts,        *)
(* requests and streams, any faults, and a store that may lose any save.   *)
(* The argument: every record belongs to one id, says so in its spec, and  *)
(* the id is known as long as the record can be reached (Store), so that a *)
(* write to a record changes what is known of its own id only; and a       *)
(* deployment that can still be answered is of an id that is known         *)
(* (Transit, Streams), because a restart forgets ids and ends all streams. *)
(***************************************************************************)
EXTENDS ContainerRecords, SequenceTheorems, TLAPS

(* The id a record belongs to. *)
Owner(a) == IF a \in Ids THEN a ELSE req[a].id

(* What a deploy's request is, once its record is made. *)
Made(q) == q.kind = "deploy" /\ q.pc \in {"send", "ok", "error"}

WasStarted(i) == \E x \in started : x.id = i

(* A record that can be reached, by the map or by a handler. *)
RecordOK(a) ==
  heap[a] # Nil =>
    /\ heap[a].spec \in Specs /\ heap[a].spec.id = Owner(a)
    /\ Owner(a) \in Ids /\ mem[Owner(a)] # Nil
    /\ a \in Reqs => Made(req[a])
    /\ heap[a].status = "Running" => WasStarted(Owner(a))

MemOK(i) == mem[i] # Nil => heap[mem[i]] # Nil /\ Owner(mem[i]) = i

RowOK(i) ==
  db[i] # Nil => db[i].spec.id = i /\ (db[i].status = "Running" => WasStarted(i))

Store == /\ \A a \in Addrs : RecordOK(a)
         /\ \A i \in Ids : MemOK(i) /\ RowOK(i)

RecordTypes ==
  /\ heap \in [Addrs -> Records \union {Nil}]
  /\ mem \in [Ids -> Addrs \union {Nil}]
  /\ db \in [Ids -> Rows \union {Nil}]
  /\ adrift \subseteq Ids

RInv == RecordTypes /\ Store /\ SpecDurable /\ StatusLag

-----------------------------------------------------------------------------
(* The records.                                                            *)

(* What is and what is not a record, an address, a row.                    *)
LEMMA Kinds ==
  /\ Nil \notin Addrs /\ Nil \notin Records /\ Nil \notin Rows /\ Rows \subseteq Records
  /\ Reqs \subseteq Addrs /\ Ids \subseteq Addrs /\ \A a \in Addrs : a \in Ids \/ a \in Reqs
  /\ \A a \in Reqs : a \notin Ids
  /\ NoSpec \notin Specs
<1>1. Rows \subseteq Records
  BY DEF Rows, Records
<1>2. Nil \notin Addrs /\ Nil \notin Records
  BY ConstantsAssumption, NilAssumption DEF Addrs
<1>3. NoSpec \notin Specs
  BY ConstantsAssumption DEF Specs
<1> QED BY <1>1, <1>2, <1>3, ConstantsAssumption DEF Addrs

(* A record with a spec is saved as it is. *)
LEMMA Rowed ==
  ASSUME NEW rec \in Records, rec.spec \in Specs
  PROVE  /\ Row(rec) \in Rows /\ Row(rec) # Nil
         /\ Row(rec).host = rec.host /\ Row(rec).status = rec.status /\ Row(rec).spec = rec.spec
<1>1. RoundTrip(rec.spec) = rec.spec
  BY Kinds DEF RoundTrip
<1>2. Row(rec) \in Rows
  BY <1>1 DEF Row, Rows, Records
<1> QED BY <1>1, <1>2, Kinds DEF Row

(* The requests whose records exist stay what they are.                    *)
Kept(a) == heap[a] # Nil => Made(req[a])' /\ req'[a].id = req[a].id

(* A step that writes no record keeps what is true of them.                *)
LEMMA RecordsFrame ==
  ASSUME RInv, UNCHANGED <<heap, mem, db, adrift>>, started \subseteq started',
         \A a \in Reqs : Kept(a)
  PROVE  RInv'
<1>1. \A i : WasStarted(i) => WasStarted(i)'
  BY DEF WasStarted
<1>2. \A a \in Addrs : heap[a] # Nil => Owner(a)' = Owner(a)
  BY Kinds DEF Owner, Kept
<1>3. ASSUME NEW a \in Addrs PROVE RecordOK(a)'
  BY <1>1, <1>2 DEF RInv, Store, RecordOK, Kept
<1>4. ASSUME NEW i \in Ids PROVE MemOK(i)' /\ RowOK(i)'
  BY <1>1, <1>2 DEF RInv, Store, MemOK, RowOK, RecordTypes
<1>5. RecordTypes' /\ SpecDurable' /\ StatusLag'
  BY DEF RInv, RecordTypes, SpecDurable, StatusLag, Known, Info
<1> QED BY <1>3, <1>4, <1>5 DEF RInv, Store

(* A step that writes one record, of one id, and saves it, or changes its  *)
(* status only, to one that is not saved.                                  *)
LEMMA WriteRecord ==
  ASSUME RInv, NEW i \in Ids, NEW a \in Addrs, NEW rec \in Records,
         heap' = [heap EXCEPT ![a] = rec], mem' = [mem EXCEPT ![i] = a],
         heap[a] = Nil \/ mem[i] = a,
         started' = started,
         rec.spec \in Specs, rec.spec.id = i, rec.status = "Running" => WasStarted(i),
         a \in Ids => a = i,
         a \in Reqs => Made(req[a])' /\ req'[a].id = i,
         \A b \in Reqs : b # a => Kept(b),
         \/ Save(i, rec)
         \/ /\ UNCHANGED <<db, adrift>>
            /\ mem[i] = a /\ rec.host = heap[a].host /\ rec.spec = heap[a].spec
            /\ \/ rec.status = heap[a].status
               \/ rec.status \in {"Pending", "Stopped", "Stop Failed"}
  PROVE  RInv'
<1>1. /\ heap \in [Addrs -> Records \union {Nil}] /\ mem \in [Ids -> Addrs \union {Nil}]
      /\ db \in [Ids -> Rows \union {Nil}] /\ adrift \subseteq Ids
  BY DEF RInv, RecordTypes
<1>2. heap'[a] = rec /\ mem'[i] = a /\ rec # Nil /\ a # Nil
      /\ (\A b \in Addrs : b # a => heap'[b] = heap[b])
      /\ (\A j \in Ids : j # i => mem'[j] = mem[j])
  BY <1>1, Kinds
<1>3. Owner(a)' = i
  BY Kinds DEF Owner
<1>4. \A b \in Addrs : b # a /\ heap[b] # Nil => Owner(b)' = Owner(b)
  BY Kinds DEF Owner, Kept
<1>5. \A j : WasStarted(j)' <=> WasStarted(j)
  BY DEF WasStarted
<1>6. \A j \in Ids : j # i => mem[j] # a
  <2>1. \A j \in Ids : MemOK(j)
    BY DEF RInv, Store
  <2>2. ASSUME NEW j \in Ids, mem[j] = a PROVE heap[a] # Nil /\ Owner(a) = j
    BY <1>2, <2>1, <2>2 DEF MemOK
  <2> QED BY <2>2
<1>7. \/ db' = [db EXCEPT ![i] = Row(rec)] /\ adrift' = adrift \ {i}
      \/ db' = db /\ adrift' = adrift \union {i}
      \/ /\ db' = db /\ adrift' = adrift
         /\ mem[i] = a /\ rec.host = heap[a].host /\ rec.spec = heap[a].spec
         /\ \/ rec.status = heap[a].status
            \/ rec.status \in {"Pending", "Stopped", "Stop Failed"}
  BY DEF Save
<1>8. /\ Row(rec) \in Rows /\ Row(rec) # Nil
      /\ Row(rec).host = rec.host /\ Row(rec).status = rec.status /\ Row(rec).spec = rec.spec
  BY Rowed
<1>9. RecordTypes'
  <2>1. heap' \in [Addrs -> Records \union {Nil}] /\ mem' \in [Ids -> Addrs \union {Nil}]
    BY <1>1
  <2>2. db' \in [Ids -> Rows \union {Nil}]
    BY <1>1, <1>7, <1>8
  <2>3. adrift' \subseteq Ids
    BY <1>1, <1>7
  <2> QED BY <2>1, <2>2, <2>3 DEF RecordTypes
<1>10. ASSUME NEW b \in Addrs PROVE RecordOK(b)'
  <2>1. CASE b = a
    BY <1>2, <1>3, <1>5, <2>1 DEF RecordOK
  <2>2. CASE b # a
    <3>1. heap[b] # Nil => mem'[Owner(b)] # Nil
      BY <1>1, <1>2 DEF RInv, Store, RecordOK
    <3> QED BY <1>2, <1>4, <1>5, <2>2, <3>1 DEF RInv, Store, RecordOK, Kept
  <2> QED BY <2>1, <2>2
<1>11. ASSUME NEW j \in Ids PROVE MemOK(j)'
  <2>1. CASE j = i
    BY <1>2, <1>3, <2>1 DEF MemOK
  <2>2. CASE j # i
    <3>1. MemOK(j) /\ mem'[j] = mem[j] /\ mem[j] # a
      BY <1>2, <1>6, <2>2 DEF RInv, Store
    <3>2. ASSUME mem[j] # Nil PROVE heap'[mem[j]] # Nil /\ Owner(mem[j])' = j
      <4>1. mem[j] \in Addrs /\ heap[mem[j]] # Nil /\ Owner(mem[j]) = j
        BY <1>1, <3>1, <3>2 DEF MemOK
      <4> QED BY <1>2, <1>4, <3>1, <4>1
    <3> QED BY <3>1, <3>2 DEF MemOK
  <2> QED BY <2>1, <2>2
<1>12. ASSUME NEW j \in Ids PROVE RowOK(j)'
  <2>1. RowOK(j)
    BY DEF RInv, Store
  <2>2. db'[j] = db[j] \/ (j = i /\ db'[j] = Row(rec))
    BY <1>1, <1>7
  <2> QED BY <1>5, <1>8, <2>1, <2>2 DEF RowOK
<1>13. ASSUME NEW j \in Ids \ adrift'
       PROVE  /\ (mem'[j] # Nil) <=> (db'[j] # Nil)
              /\ mem'[j] # Nil =>
                   /\ db'[j].host = heap'[mem'[j]].host
                   /\ db'[j].spec = RoundTrip(heap'[mem'[j]].spec)
                   /\ db'[j].status # heap'[mem'[j]].status =>
                        heap'[mem'[j]].status \in {"Pending", "Stopped", "Stop Failed"}
  <2>1. CASE j # i
    <3>1. j \notin adrift /\ mem'[j] = mem[j] /\ db'[j] = db[j]
          /\ (mem[j] # Nil => heap'[mem'[j]] = heap[mem[j]])
      <4>1. j \in Ids /\ j \notin adrift /\ db'[j] = db[j]
        BY <1>1, <1>7, <2>1
      <4>2. mem'[j] = mem[j] /\ mem[j] # a
        BY <1>2, <1>6, <2>1, <4>1
      <4>3. mem[j] # Nil => heap'[mem[j]] = heap[mem[j]]
        BY <1>1, <1>2, <4>1, <4>2
      <4> QED BY <4>1, <4>2, <4>3
    <3> QED BY <3>1 DEF RInv, SpecDurable, StatusLag, Known, Info
  <2>2. CASE j = i
    <3>1. RoundTrip(rec.spec) = rec.spec
      BY Kinds DEF RoundTrip
    <3>2. CASE db' = [db EXCEPT ![i] = Row(rec)]
      BY <1>1, <1>2, <1>8, <2>2, <3>1, <3>2
    <3>3. CASE db' = db /\ adrift' = adrift /\ mem[i] = a /\ rec.host = heap[a].host
               /\ rec.spec = heap[a].spec
               /\ (rec.status = heap[a].status \/ rec.status \in {"Pending", "Stopped", "Stop Failed"})
      <4>1. j \notin adrift /\ mem[j] = a /\ mem'[j] = a /\ db'[j] = db[j] /\ heap'[a] = rec
        BY <1>2, <2>2, <3>3
      <4>2. db[j] # Nil /\ db[j].host = heap[a].host /\ db[j].spec = RoundTrip(heap[a].spec)
            /\ (db[j].status # heap[a].status =>
                  heap[a].status \in {"Pending", "Stopped", "Stop Failed"})
        BY <1>2, <4>1 DEF RInv, SpecDurable, StatusLag, Known, Info
      <4> QED BY <1>2, <3>3, <4>1, <4>2
    <3> QED BY <1>7, <2>2, <3>2, <3>3
  <2> QED BY <2>1, <2>2
<1>14. SpecDurable' /\ StatusLag'
  BY <1>13 DEF SpecDurable, StatusLag, Known, Info
<1> QED BY <1>9, <1>10, <1>11, <1>12, <1>14 DEF RInv, Store

(* A restart makes the records anew from the rows it gets to load.         *)
LEMMA Reload ==
  ASSUME RInv, NEW loaded, loaded \subseteq {i \in Ids : db[i] # Nil},
         mem' = [i \in Ids |-> IF i \in loaded THEN i ELSE Nil],
         heap' = [a \in Addrs |-> IF a \in loaded THEN db[a] ELSE Nil],
         adrift' = {i \in Ids : db[i] # Nil} \ loaded, UNCHANGED <<db, started>>
  PROVE  RInv'
<1>1. db \in [Ids -> Rows \union {Nil}]
  BY DEF RInv, RecordTypes
<1>2. \A i \in Ids : /\ IF i \in loaded THEN heap'[i] = db[i] /\ mem'[i] = i
                                        ELSE heap'[i] = Nil /\ mem'[i] = Nil
                     /\ i \in loaded => db[i] # Nil
                     /\ Owner(i)' = i
  BY Kinds DEF Owner
<1>3. \A r \in Reqs : heap'[r] = Nil
  BY Kinds
<1>4. RecordTypes'
  BY <1>1, Kinds DEF RecordTypes
<1>5. \A i : WasStarted(i)' <=> WasStarted(i)
  BY DEF WasStarted
<1>6. ASSUME NEW a \in Addrs PROVE RecordOK(a)'
  <2>1. CASE a \in Ids
    <3>1. /\ RowOK(a) /\ Owner(a)' = a /\ a \notin Reqs
          /\ heap'[a] # Nil => heap'[a] = db[a] /\ mem'[a] # Nil
      BY <1>2, <2>1, Kinds DEF RInv, Store
    <3>2. db[a] # Nil => db[a].spec \in Specs
      BY <1>1, <2>1 DEF Rows
    <3> QED BY <1>5, <2>1, <3>1, <3>2 DEF RecordOK, RowOK
  <2>2. CASE a \notin Ids
    BY <1>3, <2>2, Kinds DEF RecordOK
  <2> QED BY <2>1, <2>2
<1>7. ASSUME NEW i \in Ids PROVE MemOK(i)' /\ RowOK(i)'
  BY <1>2, <1>5, Kinds DEF MemOK, RInv, Store, RowOK
<1>8. \A i \in Ids : db[i] # Nil => RoundTrip(db[i].spec) = db[i].spec
  BY <1>1, Kinds DEF Rows, RoundTrip
<1>9. SpecDurable' /\ StatusLag'
  BY <1>2, <1>8, Kinds DEF SpecDurable, StatusLag, Known, Info
<1> QED BY <1>4, <1>6, <1>7, <1>9 DEF RInv, Store
-----------------------------------------------------------------------------
(* Requests, streams, and what is on its way.                              *)

ReqStates == [pc : {"new", "found", "marked", "send", "ok", "error", "aborted"},
              kind : {"none", "deploy", "stop", "start", "update"},
              id : Ids, host : Hosts \union {Nil}, body : Bodies,
              sw : 0..MaxConn, addr : Addrs \union {Nil}]

ReqOK(r) ==
  /\ req[r].pc \in {"found", "marked", "send"} => req[r].host \in Hosts
  /\ req[r].pc = "found" => req[r].kind = "deploy" /\ heap[r] = Nil /\ req[r].sw # 0
  /\ req[r].pc = "marked" => req[r].kind = "start"
  /\ req[r].pc = "send" =>
       /\ req[r].kind \in {"deploy", "stop", "start"} /\ req[r].sw # 0
       /\ req[r].kind = "deploy" => heap[r] # Nil
       /\ req[r].kind = "start" => req[r].addr # Nil
  /\ req[r].kind = "start" /\ req[r].pc \in {"marked", "send"} /\ req[r].addr # Nil =>
       req[r].addr \in Addrs /\ heap[req[r].addr] # Nil

Requests == req \in [Reqs -> ReqStates] /\ \A r \in Reqs : ReqOK(r)

KnownIds   == {i \in Ids : mem[i] # Nil}
StartedIds == {i \in Ids : WasStarted(i)}

(* Deployments under way are of known ids, and their answers too. *)
Deployable(K)   == {q \in Messages : q.type = "deploy" => q.id \in K}
Answerable(K, S) ==
  {p \in Responses : p.type = "deployed" => p.id \in K /\ (p.ok = TRUE => p.id \in S)}

Transit ==
  /\ down \in [Hosts -> Seq(Deployable(KnownIds))]
  /\ up \in [Hosts -> [Conns -> Seq(Answerable(KnownIds, StartedIds))]]

Deploys == [host : Hosts, conn : Conns, id : Ids, body : Bodies, req : Reqs]

(* Who deploys can answer only while its id is known. *)
Streams ==
  /\ conn \in [Hosts -> 0..MaxConn] /\ opened \in [Hosts -> 0..MaxConn]
  /\ registered \in [Hosts -> 0..MaxConn]
  /\ deploying \subseteq Deploys
  /\ started \subseteq [host : Hosts, id : Ids]
  /\ \A h \in Hosts : conn[h] <= opened[h]
  /\ \A d \in deploying : /\ d.conn <= opened[d.host]
                          /\ conn[d.host] = d.conn => d.id \in KnownIds

IInv == RInv /\ Requests /\ Transit /\ Streams

(* They are sequences of what TypeOK says, and stay so as ids become known. *)
LEMMA SeqMono == ASSUME NEW S, NEW T, S \subseteq T PROVE Seq(S) \subseteq Seq(T)
  OBVIOUS

(* An element added, the first, the rest, and a part of a sequence.        *)
LEMMA Sequences ==
  ASSUME NEW S, NEW q \in Seq(S)
  PROVE  /\ <<>> \in Seq(S)
         /\ q # <<>> => Head(q) \in S /\ Tail(q) \in Seq(S)
         /\ \A n \in 0..Len(q) : SubSeq(q, 1, n) \in Seq(S)
         /\ \A x \in S : Append(q, x) \in Seq(S)
<1>1. q # <<>> => Head(q) \in S /\ Tail(q) \in Seq(S)
  BY HeadTailProperties
<1>2. ASSUME NEW n \in 0..Len(q) PROVE SubSeq(q, 1, n) \in Seq(S)
  BY SubSeqProperties
<1>3. ASSUME NEW x \in S PROVE Append(q, x) \in Seq(S)
  BY AppendProperties
<1>4. <<>> \in Seq(S)
  BY EmptySeq
<1> QED BY <1>1, <1>2, <1>3, <1>4

(* What may be on its way may still be when more is known and started.     *)
LEMMA Monotone ==
  ASSUME NEW K, NEW S, NEW L, NEW T, K \subseteq L, S \subseteq T
  PROVE  /\ Seq(Deployable(K)) \subseteq Seq(Deployable(L))
         /\ Seq(Answerable(K, S)) \subseteq Seq(Answerable(L, T))
<1>1. Deployable(K) \subseteq Deployable(L)
  BY DEF Deployable
<1>2. Answerable(K, S) \subseteq Answerable(L, T)
  BY DEF Answerable
<1> QED BY <1>1, <1>2, SeqMono

(* The types of the properties follow. *)
LEMMA Types == IInv => TypeOK
<1> SUFFICES ASSUME IInv PROVE TypeOK
  OBVIOUS
<1>1. RecordTypes /\ req \in [Reqs -> ReqStates]
  BY DEF IInv, RInv, Requests
<1>2. down \in [Hosts -> Seq(Messages)] /\ up \in [Hosts -> [Conns -> Seq(Responses)]]
  <2>1. Deployable(KnownIds) \subseteq Messages
    BY DEF Deployable
  <2>2. Answerable(KnownIds, StartedIds) \subseteq Responses
    BY DEF Answerable
  <2>3. Seq(Deployable(KnownIds)) \subseteq Seq(Messages)
        /\ Seq(Answerable(KnownIds, StartedIds)) \subseteq Seq(Responses)
    BY <2>1, <2>2, SeqMono
  <2> QED BY <2>3 DEF IInv, Transit
<1>3. Streams
  BY DEF IInv
<1> QED BY <1>1, <1>2, <1>3 DEF TypeOK, RecordTypes, ReqStates, Streams, Deploys

(* Initially nothing is known.                                             *)
LEMMA InitIInv == Init => IInv
<1> SUFFICES ASSUME Init PROVE IInv
  OBVIOUS
<1> USE ConstantsAssumption, Kinds DEF Init
<1>1. RInv
  BY DEF RInv, RecordTypes, Store, RecordOK, MemOK, RowOK, SpecDurable, StatusLag, Known
<1>2. Requests
  BY DEF Requests, ReqOK, ReqStates, NoReq
<1>3. Transit
  BY EmptySeq DEF Transit
<1>4. Streams
  BY DEF Streams
<1> QED BY <1>1, <1>2, <1>3, <1>4 DEF IInv
-----------------------------------------------------------------------------
(* What a step leaves alone stays true.                                    *)

USE DEF agentVars, netVars

(* A step of one request.                                                  *)
LEMMA RequestsFrame ==
  ASSUME Requests, NEW r \in Reqs, NEW q \in ReqStates, req' = [req EXCEPT ![r] = q],
         \A a \in Addrs : heap[a] # Nil => heap'[a] # Nil,
         \A a \in Addrs \ {r} : heap[a] = Nil => heap'[a] = Nil,
         ReqOK(r)'
  PROVE  Requests'
<1>1. req' \in [Reqs -> ReqStates] /\ \A b \in Reqs : b # r => req'[b] = req[b]
  BY DEF Requests
<1>2. ASSUME NEW b \in Reqs, b # r PROVE ReqOK(b)'
  <2>1. ReqOK(b) /\ b \in Addrs /\ req'[b] = req[b]
    BY <1>1, <1>2, Kinds DEF Requests
  <2> QED BY <1>2, <2>1 DEF ReqOK
<1> QED BY <1>1, <1>2 DEF Requests

(* A step of no request.                                                   *)
LEMMA RequestsStay ==
  ASSUME Requests, req' = req, \A a \in Addrs : heap'[a] = Nil <=> heap[a] = Nil
  PROVE  Requests'
<1>1. ASSUME NEW b \in Reqs PROVE ReqOK(b)'
  <2>1. ReqOK(b) /\ b \in Addrs /\ req'[b] = req[b]
    BY Kinds DEF Requests
  <2> QED BY <2>1 DEF ReqOK
<1> QED BY <1>1 DEF Requests

(* Ids become known, containers are started.                               *)
LEMMA NetFrame ==
  ASSUME Transit, Streams, KnownIds \subseteq KnownIds', started' = started
  PROVE  /\ UNCHANGED <<down, up>> => Transit'
         /\ UNCHANGED <<conn, opened, registered, deploying>> => Streams'
<1>1. StartedIds' = StartedIds
  BY DEF StartedIds, WasStarted
<1>2. ASSUME UNCHANGED <<down, up>> PROVE Transit'
  <2>1. /\ Seq(Deployable(KnownIds)) \subseteq Seq(Deployable(KnownIds'))
        /\ Seq(Answerable(KnownIds, StartedIds)) \subseteq Seq(Answerable(KnownIds', StartedIds))
    BY Monotone
  <2>2. \A h \in Hosts : /\ down[h] \in Seq(Deployable(KnownIds'))
                         /\ up[h] \in [Conns -> Seq(Answerable(KnownIds', StartedIds))]
    BY <2>1 DEF Transit
  <2>3. Transit' <=> /\ down' \in [Hosts -> Seq(Deployable(KnownIds'))]
                     /\ up' \in [Hosts -> [Conns -> Seq(Answerable(KnownIds', StartedIds'))]]
    BY DEF Transit, Deployable, Answerable
  <2> HIDE DEF KnownIds, StartedIds
  <2> QED BY <1>1, <1>2, <2>2, <2>3 DEF Transit
<1>3. ASSUME UNCHANGED <<conn, opened, registered, deploying>> PROVE Streams'
  <2> HIDE DEF KnownIds
  <2> QED BY <1>3 DEF Streams
<1> QED BY <1>2, <1>3

(* A step of a request, which writes nothing.                              *)
LEMMA RequestOnly ==
  ASSUME IInv, NEW r \in Reqs, NEW q \in ReqStates, req' = [req EXCEPT ![r] = q],
         UNCHANGED <<heap, mem, db, adrift, agentVars, netVars>>,
         ReqOK(r)', Kept(r)
  PROVE  IInv'
<1>1. \A a \in Reqs : Kept(a)
  BY DEF Kept, Made, IInv, RInv, Store, RecordOK, Requests, Addrs
<1>2. RInv'
  BY <1>1, RecordsFrame DEF IInv
<1>3. Requests'
  BY RequestsFrame DEF IInv
<1>4. KnownIds' = KnownIds
  BY DEF KnownIds
<1>5. Transit' /\ Streams'
  BY <1>4, NetFrame DEF IInv
<1> QED BY <1>2, <1>3, <1>5 DEF IInv

(* A request that is new has no record.                                    *)
LEMMA NewRequest ==
  ASSUME IInv, NEW r \in Reqs, req[r].pc \in {"new", "marked", "found"}
  PROVE  heap[r] = Nil
<1>1. RecordOK(r)
  BY Kinds DEF IInv, RInv, Store
<1> QED BY <1>1 DEF RecordOK, Made

-----------------------------------------------------------------------------
(* The REST handlers.                                                      *)

(* A request that nothing is known of yet.                                 *)
LEMMA BlankRequest == NoReq \in ReqStates
BY ConstantsAssumption DEF NoReq, ReqStates

(* A request that is looked up has a host and a stream, or has failed.     *)
LEMMA LookupStep ==
  ASSUME IInv, NEW r \in Reqs, NEW i \in Ids, NEW h \in Hosts, NEW b \in Bodies,
         DeployLookup(r, i, h, b) \/ StopLookup(r, i, h)
  PROVE  IInv'
<1>1. registered[h] \in 0..MaxConn
  BY DEF IInv, Streams
<1>2. heap[r] = Nil
  BY NewRequest DEF DeployLookup, StopLookup
<1>3. CASE DeployLookup(r, i, h, b)
  <2> DEFINE q == [NoReq EXCEPT !.kind = "deploy", !.id = i, !.host = h, !.body = b,
                                !.sw = registered[h],
                                !.pc = IF registered[h] = 0 THEN "error" ELSE "found"]
  <2>1. q \in ReqStates /\ q.kind = "deploy" /\ q.host = h /\ q.sw = registered[h]
        /\ q.pc = IF registered[h] = 0 THEN "error" ELSE "found"
    BY <1>1, ConstantsAssumption DEF ReqStates, NoReq
  <2>2. req' = [req EXCEPT ![r] = q] /\ UNCHANGED <<heap, mem, db, adrift, agentVars, netVars>>
    BY <1>3 DEF DeployLookup
  <2>3. req'[r] = q
    BY <2>2 DEF IInv, Requests
  <2> HIDE DEF q
  <2>4. ReqOK(r)' /\ Kept(r)
    BY <1>2, <2>1, <2>2, <2>3 DEF ReqOK, Kept
  <2> QED BY <2>1, <2>2, <2>4, RequestOnly
<1>4. CASE StopLookup(r, i, h)
  <2> DEFINE q == [NoReq EXCEPT !.kind = "stop", !.id = i, !.host = h, !.sw = registered[h],
                                !.pc = IF registered[h] = 0 THEN "error" ELSE "send"]
  <2>1. q \in ReqStates /\ q.kind = "stop" /\ q.host = h /\ q.sw = registered[h]
        /\ q.pc = IF registered[h] = 0 THEN "error" ELSE "send"
    BY <1>1, ConstantsAssumption DEF ReqStates, NoReq
  <2>2. req' = [req EXCEPT ![r] = q] /\ UNCHANGED <<heap, mem, db, adrift, agentVars, netVars>>
    BY <1>4 DEF StopLookup
  <2>3. req'[r] = q
    BY <2>2 DEF IInv, Requests
  <2> HIDE DEF q
  <2>4. ReqOK(r)' /\ Kept(r)
    BY <1>2, <2>1, <2>2, <2>3 DEF ReqOK, Kept
  <2> QED BY <2>1, <2>2, <2>4, RequestOnly
<1> QED BY <1>3, <1>4

(* A start that is looked up has a record.                                 *)
LEMMA StartLookupStep == ASSUME IInv, NEW r \in Reqs, StartLookup(r) PROVE IInv'
<1> DEFINE found == /\ req[r].addr # Nil
                    /\ heap[req[r].addr].spec # NoSpec
                    /\ registered[req[r].host] # 0
           q == [req[r] EXCEPT !.pc = IF found THEN "send" ELSE "error",
                               !.sw = registered[req[r].host]]
<1>1. req[r] \in ReqStates /\ ReqOK(r) /\ req[r].pc = "marked"
  BY DEF IInv, Requests, StartLookup
<1>2. registered[req[r].host] \in 0..MaxConn
  BY <1>1 DEF IInv, Streams, ReqOK
<1>3. q \in ReqStates
  BY <1>1, <1>2 DEF ReqStates
<1>4. req' = [req EXCEPT ![r] = q] /\ UNCHANGED <<heap, mem, db, adrift, agentVars, netVars>>
  BY DEF StartLookup
<1>5. req'[r] = q
  BY <1>4 DEF IInv, Requests
<1>6. /\ q.pc = IF found THEN "send" ELSE "error"
      /\ q.sw = registered[req[r].host] /\ q.kind = req[r].kind /\ q.host = req[r].host
      /\ q.addr = req[r].addr /\ q.id = req[r].id
  BY <1>1 DEF ReqStates
<1> HIDE DEF q
<1>7. ReqOK(r)'
  BY <1>1, <1>4, <1>5, <1>6 DEF ReqOK
<1>8. Kept(r)
  BY <1>1, NewRequest DEF Kept
<1> QED BY <1>3, <1>4, <1>7, <1>8, RequestOnly
(* A deploy makes its record, and saves it.                                *)
LEMMA DeployRecordStep == ASSUME IInv, NEW r \in Reqs, DeployRecord(r) PROVE IInv'
<1> DEFINE i   == req[r].id
           rec == [host |-> req[r].host, status |-> "", spec |-> [id |-> i, body |-> req[r].body]]
           q   == [req[r] EXCEPT !.pc = "send"]
<1>1. req[r] \in ReqStates /\ ReqOK(r) /\ req[r].pc = "found" /\ req[r].host \in Hosts
      /\ i \in Ids /\ req[r].kind = "deploy" /\ heap[r] = Nil
  BY DEF IInv, Requests, DeployRecord, ReqOK, ReqStates
<1>2. rec \in Records /\ rec.spec \in Specs /\ rec.spec.id = i /\ rec.status = ""
  BY <1>1 DEF Records, Specs, Statuses, ReqStates
<1>3. /\ heap' = [heap EXCEPT ![r] = rec] /\ mem' = [mem EXCEPT ![i] = r] /\ Save(i, rec)
      /\ req' = [req EXCEPT ![r] = q] /\ UNCHANGED <<agentVars, netVars>>
  BY DEF DeployRecord
<1>4. q \in ReqStates /\ q.pc = "send" /\ q.kind = "deploy" /\ q.id = i /\ q.host = req[r].host
      /\ q.sw = req[r].sw
  BY <1>1 DEF ReqStates
<1> HIDE DEF rec, q, i
<1>5. req'[r] = q /\ \A b \in Reqs : b # r => req'[b] = req[b]
  BY <1>3 DEF IInv, Requests
<1>6. \A b \in Reqs : b # r => Kept(b)
  BY <1>5, Kinds DEF Kept, Made, IInv, RInv, Store, RecordOK
<1>7. Made(req[r])' /\ req'[r].id = i
  BY <1>4, <1>5 DEF Made
<1>8. RInv'
  BY <1>1, <1>2, <1>3, <1>6, <1>7, Kinds, WriteRecord DEF IInv
<1>9. heap \in [Addrs -> Records \union {Nil}] /\ mem \in [Ids -> Addrs \union {Nil}]
      /\ r \in Addrs /\ rec # Nil /\ r # Nil
  BY <1>2, Kinds DEF IInv, RInv, RecordTypes
<1>10. req[r].sw # 0
  BY <1>1 DEF IInv, Requests, ReqOK
<1>11. ReqOK(r)'
  BY <1>1, <1>3, <1>4, <1>5, <1>9, <1>10 DEF ReqOK
<1>12. Requests'
  BY <1>3, <1>4, <1>9, <1>11, RequestsFrame DEF IInv
<1>13. KnownIds \subseteq KnownIds'
  BY <1>1, <1>3, <1>9 DEF KnownIds
<1>14. Transit' /\ Streams'
  BY <1>3, <1>13, NetFrame DEF IInv
<1> QED BY <1>8, <1>12, <1>14 DEF IInv
(* A write to the record that the map has for an id.                       *)
LEMMA ExistingRecord ==
  ASSUME IInv, NEW i \in Ids, mem[i] # Nil, NEW rec \in Records,
         heap' = [heap EXCEPT ![mem[i]] = rec], mem' = mem, started' = started,
         rec.spec \in Specs, rec.spec.id = i, rec.status = "Running" => WasStarted(i),
         \A b \in Reqs : Kept(b),
         \/ Save(i, rec)
         \/ /\ UNCHANGED <<db, adrift>>
            /\ rec.host = heap[mem[i]].host /\ rec.spec = heap[mem[i]].spec
            /\ \/ rec.status = heap[mem[i]].status
               \/ rec.status \in {"Pending", "Stopped", "Stop Failed"}
  PROVE  /\ RInv' /\ KnownIds' = KnownIds
         /\ \A a \in Addrs : heap'[a] = Nil <=> heap[a] = Nil
<1> DEFINE a == mem[i]
<1>1. a \in Addrs /\ heap[a] # Nil /\ Owner(a) = i /\ RecordOK(a)
      /\ heap \in [Addrs -> Records \union {Nil}] /\ mem \in [Ids -> Addrs \union {Nil}]
  BY DEF IInv, RInv, RecordTypes, Store, MemOK
<1>2. mem' = [mem EXCEPT ![i] = a]
  BY <1>1
<1>3. a \in Ids => a = i
  BY <1>1 DEF Owner
<1>4. a \in Reqs => Made(req[a])' /\ req'[a].id = i
  BY <1>1, Kinds DEF Kept, Owner
<1> HIDE DEF a
<1>5. RInv'
  BY <1>1, <1>2, <1>3, <1>4, WriteRecord DEF IInv, a
<1>6. \A b \in Addrs : heap'[b] = Nil <=> heap[b] = Nil
  BY <1>1, Kinds DEF a
<1> QED BY <1>5, <1>6 DEF KnownIds

(* The record that the map has for an id. *)
LEMMA TheRecord ==
  ASSUME IInv, NEW i \in Ids, mem[i] # Nil
  PROVE  /\ mem[i] \in Addrs /\ heap[mem[i]] \in Records /\ heap[mem[i]] # Nil
         /\ heap[mem[i]].spec \in Specs /\ heap[mem[i]].spec.id = i
         /\ heap[mem[i]].status = "Running" => WasStarted(i)
<1>1. mem[i] \in Addrs /\ heap[mem[i]] # Nil /\ Owner(mem[i]) = i
      /\ heap \in [Addrs -> Records \union {Nil}]
  BY DEF IInv, RInv, RecordTypes, Store, MemOK
<1>2. RecordOK(mem[i])
  BY <1>1 DEF IInv, RInv, Store
<1> QED BY <1>1, <1>2 DEF RecordOK

(* A start keeps a pointer to the record it has marked.                    *)
LEMMA StartMarkStep ==
  ASSUME IInv, NEW r \in Reqs, NEW i \in Ids, NEW h \in Hosts, StartMark(r, i, h)
  PROVE  IInv'
<1> DEFINE a   == mem[i]
           rec == [heap[a] EXCEPT !.status = "Pending"]
           q   == [NoReq EXCEPT !.kind = "start", !.id = i, !.host = h, !.addr = a,
                                !.pc = "marked"]
<1>1. /\ req' = [req EXCEPT ![r] = q] /\ UNCHANGED <<mem, db, adrift, agentVars, netVars>>
      /\ heap' = IF a # Nil /\ heap[a].status # "Running"
                 THEN [heap EXCEPT ![a] = rec] ELSE heap
      /\ req[r].pc = "new"
  BY DEF StartMark
<1>2. a \in Addrs \union {Nil} /\ req \in [Reqs -> ReqStates]
  BY DEF IInv, RInv, RecordTypes, Requests
<1>3. q \in ReqStates /\ q.kind = "start" /\ q.pc = "marked" /\ q.host = h /\ q.addr = a
  <2> HIDE DEF a
  <2>1. NoReq \in ReqStates
    BY BlankRequest
  <2> QED BY <1>2, <2>1 DEF ReqStates
<1>4. heap[r] = Nil
  BY <1>1, NewRequest
<1> HIDE DEF q
<1>5. req'[r] = q /\ \A b \in Reqs : b # r => req'[b] = req[b]
  BY <1>1, <1>2
<1>6. \A b \in Reqs : Kept(b)
  BY <1>4, <1>5, Kinds DEF Kept, Made, IInv, RInv, Store, RecordOK
<1>7. CASE ~(a # Nil /\ heap[a].status # "Running")
  <2>1. heap' = heap
    BY <1>1, <1>7
  <2>2. a # Nil => heap[a] # Nil
    BY TheRecord
  <2>3. ReqOK(r)'
    BY <1>2, <1>3, <1>5, <2>1, <2>2 DEF ReqOK
  <2> QED BY <1>1, <1>3, <1>6, <2>1, <2>3, RequestOnly
<1>8. CASE a # Nil /\ heap[a].status # "Running"
  <2>1. /\ heap' = [heap EXCEPT ![a] = rec] /\ a \in Addrs /\ heap[a] \in Records
        /\ heap[a].spec \in Specs /\ heap[a].spec.id = i /\ heap[a] # Nil
    BY <1>1, <1>8, TheRecord
  <2>2. rec \in Records /\ rec.spec = heap[a].spec /\ rec.host = heap[a].host
        /\ rec.status = "Pending"
    BY <2>1 DEF Records, Statuses
  <2> HIDE DEF rec
  <2>3. /\ RInv' /\ KnownIds' = KnownIds
        /\ \A b \in Addrs : heap'[b] = Nil <=> heap[b] = Nil
    BY <1>1, <1>6, <1>8, <2>1, <2>2, ExistingRecord
  <2>4. ReqOK(r)'
    BY <1>3, <1>5, <2>1, <2>3 DEF ReqOK
  <2>5. Requests'
    BY <1>1, <1>3, <2>3, <2>4, RequestsFrame DEF IInv
  <2>6. Transit' /\ Streams'
    BY <1>1, <2>3, NetFrame DEF IInv
  <2> QED BY <2>3, <2>5, <2>6 DEF IInv
<1> QED BY <1>7, <1>8

(* An update gives the record a spec with the same id, and saves it.       *)
LEMMA UpdateStep ==
  ASSUME IInv, NEW r \in Reqs, NEW i \in Ids, NEW b \in Bodies, Update(r, i, b)
  PROVE  IInv'
<1> DEFINE a   == mem[i]
           rec == [heap[a] EXCEPT !.spec = [id |-> i, body |-> b]]
           ok  == [NoReq EXCEPT !.kind = "update", !.id = i, !.pc = "ok"]
           err == [NoReq EXCEPT !.kind = "update", !.id = i, !.pc = "error"]
<1>1. /\ req[r].pc = "new" /\ UNCHANGED <<mem, agentVars, netVars>>
      /\ \/ /\ a # Nil /\ heap' = [heap EXCEPT ![a] = rec] /\ Save(i, rec)
            /\ req' = [req EXCEPT ![r] = ok]
         \/ /\ req' = [req EXCEPT ![r] = err] /\ UNCHANGED <<heap, db, adrift>>
  BY DEF Update
<1>2. /\ ok \in ReqStates /\ ok.kind = "update" /\ ok.pc = "ok"
      /\ err \in ReqStates /\ err.kind = "update" /\ err.pc = "error"
      /\ req \in [Reqs -> ReqStates]
  <2>1. NoReq \in ReqStates
    BY BlankRequest
  <2>2. ok \in ReqStates /\ ok.kind = "update" /\ ok.pc = "ok"
    BY <2>1 DEF ReqStates
  <2>3. err \in ReqStates /\ err.kind = "update" /\ err.pc = "error"
    BY <2>1 DEF ReqStates
  <2>4. req \in [Reqs -> ReqStates]
    BY DEF IInv, Requests
  <2> QED BY <2>2, <2>3, <2>4
<1>3. heap[r] = Nil
  BY <1>1, NewRequest
<1> HIDE DEF ok, err
<1>4. CASE req' = [req EXCEPT ![r] = err] /\ UNCHANGED <<heap, db, adrift>>
  <2>1. req'[r] = err
    BY <1>2, <1>4
  <2>2. ReqOK(r)' /\ Kept(r)
    BY <1>2, <1>3, <2>1 DEF ReqOK, Kept
  <2> QED BY <1>1, <1>2, <1>4, <2>2, RequestOnly
<1>5. CASE a # Nil /\ heap' = [heap EXCEPT ![a] = rec] /\ Save(i, rec) /\ req' = [req EXCEPT ![r] = ok]
  <2>1. a \in Addrs /\ heap[a] \in Records /\ (heap[a].status = "Running" => WasStarted(i))
    BY <1>5, TheRecord
  <2>2. rec \in Records /\ rec.spec \in Specs /\ rec.spec.id = i /\ rec.status = heap[a].status
    BY <2>1 DEF Records, Specs
  <2> HIDE DEF rec
  <2>3. req'[r] = ok /\ \A d \in Reqs : d # r => req'[d] = req[d]
    BY <1>2, <1>5
  <2>4. \A d \in Reqs : Kept(d)
    BY <1>3, <2>3, Kinds DEF Kept, Made, IInv, RInv, Store, RecordOK
  <2>5. /\ RInv' /\ KnownIds' = KnownIds
        /\ \A d \in Addrs : heap'[d] = Nil <=> heap[d] = Nil
    BY <1>1, <1>5, <2>1, <2>2, <2>4, ExistingRecord
  <2>6. ReqOK(r)'
    BY <1>2, <2>3 DEF ReqOK
  <2>7. Requests'
    BY <1>2, <1>5, <2>5, <2>6, RequestsFrame DEF IInv
  <2>8. Transit' /\ Streams'
    BY <1>1, <2>5, NetFrame DEF IInv
  <2> QED BY <2>5, <2>7, <2>8 DEF IInv
<1> QED BY <1>1, <1>4, <1>5

(* What is sent to deploy is a record that can be reached, of a known id.  *)
LEMMA SendStep == ASSUME IInv, NEW r \in Reqs, Send(r) PROVE IInv'
<1> DEFINE h == req[r].host
<1>1. /\ req[r] \in ReqStates /\ ReqOK(r) /\ req[r].pc = "send" /\ h \in Hosts
      /\ req[r].kind \in {"deploy", "stop", "start"}
  BY DEF IInv, Requests, Send, ReqOK
<1>2. PICK pc \in {"ok", "error"} : req' = [req EXCEPT ![r] = [req[r] EXCEPT !.pc = pc]]
  BY DEF Send
<1>3. UNCHANGED <<heap, mem, db, adrift, agentVars, registered, up>>
  BY DEF Send
<1> DEFINE q == [req[r] EXCEPT !.pc = pc]
<1>4. q \in ReqStates /\ q.pc \in {"ok", "error"} /\ q.kind = req[r].kind /\ q.id = req[r].id
  BY <1>1 DEF ReqStates
<1>5. req' = [req EXCEPT ![r] = q]
  BY <1>2
<1> HIDE DEF q
<1>6. req'[r] = q /\ \A d \in Reqs : d # r => req'[d] = req[d]
  BY <1>5 DEF IInv, Requests
<1>7. \A d \in Reqs : Kept(d)
  BY <1>4, <1>6, Kinds DEF Kept, Made, IInv, RInv, Store, RecordOK
<1>8. RInv' /\ KnownIds' = KnownIds
  BY <1>3, <1>7, RecordsFrame DEF IInv, KnownIds
<1>9. ReqOK(r)'
  BY <1>4, <1>6 DEF ReqOK
<1>10. Requests'
  BY <1>3, <1>4, <1>5, <1>9, RequestsFrame DEF IInv
<1>11. Message(r) \in Deployable(KnownIds)
  <2>1. CASE req[r].kind = "stop"
    BY <1>1, <2>1, ConstantsAssumption DEF Message, Deployable, Messages, ReqStates
  <2>2. CASE req[r].kind # "stop"
    <3> DEFINE a == IF req[r].kind = "deploy" THEN r ELSE req[r].addr
    <3>1. a \in Addrs /\ heap[a] # Nil
      BY <1>1, <2>2, Kinds DEF ReqOK
    <3>2. RecordOK(a)
      BY <3>1 DEF IInv, RInv, Store
    <3>3. heap[a].spec \in Specs /\ heap[a].spec.id \in KnownIds
      BY <3>1, <3>2 DEF RecordOK, KnownIds
    <3>4. Message(r) = [type |-> "deploy", id |-> heap[a].spec.id, body |-> heap[a].spec.body,
                        req |-> r]
      BY <2>2 DEF Message
    <3> QED BY <3>3, <3>4 DEF Deployable, Messages, Specs, KnownIds
  <2> QED BY <2>1, <2>2
<1>12. Transit' /\ Streams'
  <2>1. CASE down' = down
    BY <1>3, <1>8, <2>1, NetFrame DEF IInv
  <2>2. CASE down' = [down EXCEPT ![h] = Append(down[h], Message(r))]
    <3>1. Append(down[h], Message(r)) \in Seq(Deployable(KnownIds))
      BY <1>1, <1>11, Sequences DEF IInv, Transit
    <3>2. down' \in [Hosts -> Seq(Deployable(KnownIds))]
      BY <2>2, <3>1 DEF IInv, Transit
    <3>3. StartedIds' = StartedIds
      BY <1>3 DEF StartedIds, WasStarted
    <3>4. Transit'
      <4>1. Transit' <=> /\ down' \in [Hosts -> Seq(Deployable(KnownIds'))]
                         /\ up' \in [Hosts -> [Conns -> Seq(Answerable(KnownIds', StartedIds'))]]
        BY DEF Transit, Deployable, Answerable
      <4> HIDE DEF KnownIds, StartedIds
      <4> QED BY <1>3, <1>8, <3>2, <3>3, <4>1 DEF IInv, Transit
    <3>5. Streams'
      BY <1>3, <1>8, NetFrame DEF IInv
    <3> QED BY <3>4, <3>5
  <2> QED BY <2>1, <2>2 DEF Send
<1> QED BY <1>8, <1>10, <1>12 DEF IInv
-----------------------------------------------------------------------------
(* The agents and the streams.                                             *)

(* A step of the agents writes no record; they may have started more.      *)
LEMMA AgentFrame ==
  ASSUME IInv, UNCHANGED <<heap, mem, db, adrift, req>>, started \subseteq started'
  PROVE  /\ RInv' /\ Requests' /\ KnownIds' = KnownIds
         /\ down' \in [Hosts -> Seq(Deployable(KnownIds))]
            /\ up' \in [Hosts -> [Conns -> Seq(Answerable(KnownIds, StartedIds'))]] => Transit'
         /\ up \in [Hosts -> [Conns -> Seq(Answerable(KnownIds, StartedIds'))]]
<1>1. \A a \in Reqs : Kept(a)
  BY Kinds DEF Kept, Made, IInv, RInv, Store, RecordOK
<1>2. RInv'
  BY <1>1, RecordsFrame DEF IInv
<1>3. Requests'
  BY RequestsStay DEF IInv
<1>4. KnownIds' = KnownIds
  BY DEF KnownIds
<1>5. StartedIds \subseteq StartedIds'
  BY DEF StartedIds, WasStarted
<1>6. Transit' <=> /\ down' \in [Hosts -> Seq(Deployable(KnownIds'))]
                   /\ up' \in [Hosts -> [Conns -> Seq(Answerable(KnownIds', StartedIds'))]]
  BY DEF Transit, Deployable, Answerable
<1>7. Seq(Answerable(KnownIds, StartedIds)) \subseteq Seq(Answerable(KnownIds, StartedIds'))
  <2> HIDE DEF KnownIds, StartedIds
  <2> QED BY <1>5, Monotone
<1>8. up \in [Hosts -> [Conns -> Seq(Answerable(KnownIds, StartedIds'))]]
  <2>1. up \in [Hosts -> [Conns -> Seq(Answerable(KnownIds, StartedIds))]]
    BY DEF IInv, Transit
  <2> DEFINE S == Seq(Answerable(KnownIds, StartedIds))
             T == Seq(Answerable(KnownIds, StartedIds'))
  <2>2. up \in [Hosts -> [Conns -> S]] /\ S \subseteq T
    BY <1>7, <2>1
  <2> HIDE DEF S, T
  <2>3. up \in [Hosts -> [Conns -> T]]
    BY <2>2
  <2> QED BY <2>3 DEF T
<1> HIDE DEF KnownIds, StartedIds
<1> QED BY <1>2, <1>3, <1>4, <1>6, <1>8

(* One queue of responses changes. *)
LEMMA OneQueue ==
  ASSUME NEW T, NEW u \in [Hosts -> [Conns -> T]], NEW h \in Hosts, NEW c \in Conns, NEW s \in T
  PROVE  [u EXCEPT ![h][c] = s] \in [Hosts -> [Conns -> T]]
OBVIOUS

(* A deployment that is taken up is of a known id.                         *)
LEMMA AgentDeployStep == ASSUME IInv, NEW h \in Hosts, AgentDeploy(h) PROVE IInv'
<1> DEFINE q == Head(down[h])
           d == [host |-> h, conn |-> conn[h], id |-> q.id, body |-> q.body, req |-> q.req]
<1>1. /\ conn[h] # 0 /\ down[h] # <<>> /\ q.type = "deploy"
      /\ deploying' = deploying \union {d}
      /\ down' = [down EXCEPT ![h] = Tail(down[h])]
      /\ UNCHANGED <<heap, mem, db, adrift, conn, opened, started, registered, up, req>>
  BY DEF AgentDeploy
<1>2. q \in Deployable(KnownIds) /\ Tail(down[h]) \in Seq(Deployable(KnownIds))
  BY <1>1, Sequences DEF IInv, Transit
<1>3. q \in Messages /\ q.id \in KnownIds
  BY <1>1, <1>2 DEF Deployable
<1>4. conn[h] \in Conns /\ conn[h] <= opened[h]
  BY <1>1, ConstantsAssumption DEF IInv, Streams, Conns
<1>5. d \in Deploys /\ d.host = h /\ d.conn = conn[h] /\ d.id = q.id
  BY <1>3, <1>4 DEF Deploys, Messages
<1> HIDE DEF q, d
<1>6. /\ RInv' /\ Requests' /\ KnownIds' = KnownIds
      /\ down' \in [Hosts -> Seq(Deployable(KnownIds))]
         /\ up' \in [Hosts -> [Conns -> Seq(Answerable(KnownIds, StartedIds'))]] => Transit'
      /\ up \in [Hosts -> [Conns -> Seq(Answerable(KnownIds, StartedIds'))]]
  BY <1>1, AgentFrame
<1>7. Transit'
  <2>1. down' \in [Hosts -> Seq(Deployable(KnownIds))]
    BY <1>1, <1>2 DEF IInv, Transit
  <2> QED BY <1>1, <1>6, <2>1
<1>8. Streams'
  <2> HIDE DEF KnownIds
  <2> QED BY <1>1, <1>3, <1>4, <1>5, <1>6 DEF IInv, Streams
<1> QED BY <1>6, <1>7, <1>8 DEF IInv

(* Its answer is of a known id, or is lost.                                *)
LEMMA DeployDoneStep ==
  ASSUME IInv, NEW d \in deploying, NEW ok \in BOOLEAN, DeployDone(d, ok)
  PROVE  IInv'
<1> DEFINE p == [type |-> "deployed", id |-> d.id, ok |-> ok]
<1>1. d \in Deploys /\ d.host \in Hosts /\ d.conn \in Conns /\ d.id \in Ids
  BY DEF IInv, Streams, Deploys
<1>2. /\ deploying' = deploying \ {d}
      /\ started' = IF ok THEN started \union {[host |-> d.host, id |-> d.id]} ELSE started
      /\ UNCHANGED <<heap, mem, db, adrift, conn, opened, registered, down, req>>
      /\ up' = IF conn[d.host] = d.conn
               THEN [up EXCEPT ![d.host][d.conn] = Append(up[d.host][d.conn], p)] ELSE up
  BY DEF DeployDone, Answer
<1>3. /\ RInv' /\ Requests' /\ KnownIds' = KnownIds
      /\ down' \in [Hosts -> Seq(Deployable(KnownIds))]
         /\ up' \in [Hosts -> [Conns -> Seq(Answerable(KnownIds, StartedIds'))]] => Transit'
      /\ up \in [Hosts -> [Conns -> Seq(Answerable(KnownIds, StartedIds'))]]
  BY <1>2, AgentFrame
<1>4. ok = TRUE => d.id \in StartedIds'
  <2>1. ASSUME ok = TRUE PROVE WasStarted(d.id)'
    <3>1. [host |-> d.host, id |-> d.id] \in started'
      BY <1>2, <2>1
    <3>2. [host |-> d.host, id |-> d.id].id = d.id
      OBVIOUS
    <3> QED BY <3>1, <3>2 DEF WasStarted
  <2> QED BY <1>1, <2>1 DEF StartedIds
<1>5. conn[d.host] = d.conn => p \in Answerable(KnownIds, StartedIds')
  <2>1. conn[d.host] = d.conn => d.id \in KnownIds
    BY DEF IInv, Streams
  <2>2. p \in Responses /\ p.type = "deployed" /\ p.id = d.id /\ p.ok = ok
    BY <1>1 DEF Responses
  <2> HIDE DEF p, KnownIds, StartedIds
  <2> QED BY <1>4, <2>1, <2>2 DEF Answerable
<1> HIDE DEF p
<1>6. up' \in [Hosts -> [Conns -> Seq(Answerable(KnownIds, StartedIds'))]]
  <2> DEFINE A == Answerable(KnownIds, StartedIds')
  <2>1. up \in [Hosts -> [Conns -> Seq(A)]] /\ (conn[d.host] = d.conn => p \in A)
    BY <1>3, <1>5
  <2> HIDE DEF A
  <2>2. CASE conn[d.host] = d.conn
    <3>1. Append(up[d.host][d.conn], p) \in Seq(A)
      BY <1>1, <2>1, <2>2, Sequences
    <3>2. up' \in [Hosts -> [Conns -> Seq(A)]]
      BY <1>1, <1>2, <2>1, <2>2, <3>1, OneQueue
    <3> QED BY <3>2 DEF A
  <2>3. CASE conn[d.host] # d.conn
    BY <1>2, <2>1, <2>3 DEF A
  <2> QED BY <2>2, <2>3
<1>7. Transit'
  BY <1>2, <1>3, <1>6 DEF IInv, Transit
<1>8. started' \subseteq [host : Hosts, id : Ids]
  BY <1>1, <1>2 DEF IInv, Streams
<1>9. Streams'
  <2> HIDE DEF KnownIds
  <2> QED BY <1>2, <1>3, <1>8 DEF IInv, Streams
<1> QED BY <1>3, <1>7, <1>9 DEF IInv

(* Any answer to a stop may be given.                                      *)
LEMMA AgentStopStep ==
  ASSUME IInv, NEW h \in Hosts, NEW ok \in BOOLEAN, AgentStop(h, ok)
  PROVE  IInv'
<1> DEFINE c == conn[h]
           p == [type |-> "stopped", id |-> Head(down[h]).id, ok |-> ok]
<1>1. /\ c # 0 /\ down[h] # <<>>
      /\ up' = [up EXCEPT ![h][c] = Append(up[h][c], p)]
      /\ down' = [down EXCEPT ![h] = Tail(down[h])]
      /\ UNCHANGED <<heap, mem, db, adrift, agentVars, registered, req>>
  BY DEF AgentStop, Answer
<1>2. Head(down[h]) \in Deployable(KnownIds) /\ Tail(down[h]) \in Seq(Deployable(KnownIds))
  BY <1>1, Sequences DEF IInv, Transit
<1>3. Head(down[h]).id \in Ids
  BY <1>2 DEF Deployable, Messages
<1>4. p \in Answerable(KnownIds, StartedIds')
  BY <1>3 DEF Answerable, Responses
<1> HIDE DEF p
<1>5. c \in Conns
  BY <1>1, ConstantsAssumption DEF IInv, Streams, Conns
<1>6. /\ RInv' /\ Requests' /\ KnownIds' = KnownIds
      /\ down' \in [Hosts -> Seq(Deployable(KnownIds))]
         /\ up' \in [Hosts -> [Conns -> Seq(Answerable(KnownIds, StartedIds'))]] => Transit'
      /\ up \in [Hosts -> [Conns -> Seq(Answerable(KnownIds, StartedIds'))]]
  BY <1>1, AgentFrame
<1> HIDE DEF c
<1>7. up' \in [Hosts -> [Conns -> Seq(Answerable(KnownIds, StartedIds'))]]
  <2> DEFINE A == Answerable(KnownIds, StartedIds')
  <2>1. up \in [Hosts -> [Conns -> Seq(A)]] /\ p \in A
    BY <1>4, <1>6
  <2> HIDE DEF A
  <2>2. Append(up[h][c], p) \in Seq(A)
    BY <1>5, <2>1, Sequences
  <2>3. up' \in [Hosts -> [Conns -> Seq(A)]]
    BY <1>1, <1>5, <2>1, <2>2, OneQueue
  <2> QED BY <2>3 DEF A
<1>8. down' \in [Hosts -> Seq(Deployable(KnownIds))]
  BY <1>1, <1>2 DEF IInv, Transit
<1>9. Streams'
  <2> HIDE DEF KnownIds
  <2> QED BY <1>1, <1>6 DEF IInv, Streams
<1> QED BY <1>6, <1>7, <1>8, <1>9 DEF IInv

(* A new stream is nobody's yet; a broken one takes what is on it along.   *)
LEMMA StreamStep ==
  ASSUME IInv, NEW h \in Hosts,
         Connect(h) \/ Register(h) \/ Unregister(h) \/ Disconnect(h) \/ AgentCrash(h)
  PROVE  IInv'
<1>1. /\ UNCHANGED <<heap, mem, db, adrift, req, started>>
      /\ UNCHANGED <<down, up>> \/ (conn[h] # 0 /\ Break(h))
  BY DEF Connect, Register, Unregister, Disconnect, AgentCrash
<1>2. /\ RInv' /\ Requests' /\ KnownIds' = KnownIds
      /\ down' \in [Hosts -> Seq(Deployable(KnownIds))]
         /\ up' \in [Hosts -> [Conns -> Seq(Answerable(KnownIds, StartedIds'))]] => Transit'
      /\ up \in [Hosts -> [Conns -> Seq(Answerable(KnownIds, StartedIds'))]]
  BY <1>1, AgentFrame
<1>3. Transit'
  <2>1. CASE UNCHANGED <<down, up>>
    BY <1>2, <2>1 DEF IInv, Transit
  <2>2. CASE conn[h] # 0 /\ Break(h)
    <3> DEFINE c == conn[h]
               A == Answerable(KnownIds, StartedIds')
    <3>1. down' = [down EXCEPT ![h] = <<>>]
      BY <2>2 DEF Break
    <3>2. PICK n \in 0..Len(up[h][c]) : up' = [up EXCEPT ![h][c] = SubSeq(up[h][c], 1, n)]
      BY <2>2 DEF Break
    <3>3. c \in Conns
      BY <2>2, ConstantsAssumption DEF IInv, Streams, Conns
    <3>4. up \in [Hosts -> [Conns -> Seq(A)]]
      BY <1>2
    <3>5. down' \in [Hosts -> Seq(Deployable(KnownIds))]
      BY <3>1, EmptySeq DEF IInv, Transit
    <3> HIDE DEF c, A
    <3>6. SubSeq(up[h][c], 1, n) \in Seq(A)
      BY <3>2, <3>3, <3>4, Sequences
    <3>7. up' \in [Hosts -> [Conns -> Seq(A)]]
      BY <3>2, <3>3, <3>4, <3>6, OneQueue
    <3> QED BY <1>2, <3>5, <3>7 DEF A
  <2> QED BY <1>1, <2>1, <2>2
<1>4. Streams'
  <2> HIDE DEF KnownIds
  <2>1. CASE Connect(h)
    <3>1. /\ conn' = [conn EXCEPT ![h] = opened[h] + 1]
          /\ opened' = [opened EXCEPT ![h] = opened[h] + 1]
          /\ opened[h] < MaxConn
          /\ UNCHANGED <<registered, deploying, started>>
      BY <2>1 DEF Connect
    <3>2. opened[h] \in 0..MaxConn /\ MaxConn \in Nat
      BY ConstantsAssumption DEF IInv, Streams
    <3>3. opened[h] + 1 \in 0..MaxConn
      BY <3>1, <3>2
    <3>4. conn' \in [Hosts -> 0..MaxConn] /\ opened' \in [Hosts -> 0..MaxConn]
      BY <3>1, <3>3 DEF IInv, Streams
    <3>5. \A g \in Hosts : conn'[g] <= opened'[g] /\ opened[g] <= opened'[g]
      BY <3>1, <3>2 DEF IInv, Streams
    <3>6. ASSUME NEW d \in deploying
          PROVE  /\ d.conn <= opened'[d.host]
                 /\ conn'[d.host] = d.conn => d.id \in KnownIds
      <4>1. d.host \in Hosts /\ d.conn \in Nat /\ opened[d.host] \in Nat
        BY DEF IInv, Streams, Deploys, Conns
      <4>2. d.conn <= opened[d.host] /\ (conn[d.host] = d.conn => d.id \in KnownIds)
        BY DEF IInv, Streams
      <4>3. CASE d.host = h
        BY <3>1, <3>2, <4>1, <4>2, <4>3 DEF IInv, Streams
      <4>4. CASE d.host # h
        BY <3>1, <4>1, <4>2, <4>4 DEF IInv, Streams
      <4> QED BY <4>3, <4>4
    <3> QED BY <1>2, <3>1, <3>4, <3>5, <3>6 DEF IInv, Streams
  <2>2. CASE Register(h)
    BY <1>2, <2>2 DEF IInv, Streams, Register
  <2>3. CASE Unregister(h)
    BY <1>2, <2>3, ConstantsAssumption DEF IInv, Streams, Unregister
  <2>4. CASE Disconnect(h) \/ AgentCrash(h)
    <3>1. /\ conn' = [conn EXCEPT ![h] = 0] /\ UNCHANGED <<opened, started, registered>>
          /\ deploying' \subseteq deploying
      BY <2>4 DEF Disconnect, AgentCrash, Break
    <3>2. conn' \in [Hosts -> 0..MaxConn] /\ \A g \in Hosts : conn'[g] <= opened'[g]
      BY <3>1, ConstantsAssumption DEF IInv, Streams
    <3>3. \A d \in deploying' : d.host \in Hosts /\ d.conn # 0
      BY <3>1 DEF IInv, Streams, Deploys, Conns
    <3>4. \A d \in deploying' : conn'[d.host] = d.conn => conn[d.host] = d.conn
      BY <3>1, <3>3 DEF IInv, Streams
    <3> QED BY <1>2, <3>1, <3>2, <3>4 DEF IInv, Streams
  <2> QED BY <2>1, <2>2, <2>3, <2>4
<1> QED BY <1>2, <1>3, <1>4 DEF IInv
-----------------------------------------------------------------------------
(* The stream handlers and the restart.                                    *)

(* A handler takes the first response off its queue. *)
LEMMA TakeResponse ==
  ASSUME IInv, NEW h \in Hosts, NEW c \in Conns, up[h][c] # <<>>,
         up' = [up EXCEPT ![h][c] = Tail(up[h][c])],
         UNCHANGED <<agentVars, registered, down>>, KnownIds' = KnownIds
  PROVE  /\ Head(up[h][c]) \in Answerable(KnownIds, StartedIds)
         /\ Transit' /\ Streams'
<1> DEFINE A == Answerable(KnownIds, StartedIds)
<1>1. up \in [Hosts -> [Conns -> Seq(A)]]
  BY DEF IInv, Transit
<1>2. StartedIds' = StartedIds
  BY DEF StartedIds, WasStarted
<1>3. Transit' <=> /\ down' \in [Hosts -> Seq(Deployable(KnownIds'))]
                   /\ up' \in [Hosts -> [Conns -> Seq(Answerable(KnownIds', StartedIds'))]]
  BY DEF Transit, Deployable, Answerable
<1>4. Streams'
  <2> HIDE DEF KnownIds
  <2> QED BY DEF IInv, Streams
<1> HIDE DEF A
<1>5. Head(up[h][c]) \in A /\ Tail(up[h][c]) \in Seq(A)
  BY <1>1, Sequences
<1>6. up' \in [Hosts -> [Conns -> Seq(A)]]
  BY <1>1, <1>5, OneQueue
<1> HIDE DEF KnownIds, StartedIds
<1>7. Transit'
  BY <1>2, <1>3, <1>6 DEF A, IInv, Transit
<1> QED BY <1>4, <1>5, <1>7 DEF A

(* The answer of a deployment finds its record.                            *)
LEMMA RecvDeployStep ==
  ASSUME IInv, NEW h \in Hosts, NEW c \in Conns, RecvDeployResponse(h, c)
  PROVE  IInv'
<1> DEFINE p   == Head(up[h][c])
           i   == p.id
           rec == [heap[mem[i]] EXCEPT !.status = DeployOutcome(p.ok)]
<1>1. /\ up[h][c] # <<>> /\ p.type = "deployed"
      /\ up' = [up EXCEPT ![h][c] = Tail(up[h][c])]
      /\ UNCHANGED <<agentVars, registered, down, req>>
  BY DEF RecvDeployResponse
<1>2. p \in Answerable(KnownIds, StartedIds)
  <2>1. up[h][c] \in Seq(Answerable(KnownIds, StartedIds))
    BY DEF IInv, Transit
  <2> QED BY <1>1, <2>1, Sequences
<1>3. p \in Responses /\ i \in KnownIds /\ (p.ok = TRUE => i \in StartedIds)
  BY <1>1, <1>2 DEF Answerable
<1>4. i \in Ids /\ mem[i] # Nil /\ p.ok \in BOOLEAN /\ (p.ok = TRUE => WasStarted(i))
  BY <1>3 DEF KnownIds, StartedIds, Responses
<1>5. /\ mem[i] \in Addrs /\ heap[mem[i]] \in Records /\ heap[mem[i]] # Nil
      /\ heap[mem[i]].spec \in Specs /\ heap[mem[i]].spec.id = i
      /\ mem \in [Ids -> Addrs \union {Nil}]
  BY <1>4, TheRecord DEF IInv, RInv, RecordTypes
<1>6. heap' = [heap EXCEPT ![mem[i]] = rec] /\ mem' = mem /\ Save(i, rec)
  <2>1. heap' = [heap EXCEPT ![mem[i]] = rec] /\ mem' = [mem EXCEPT ![i] = mem[i]] /\ Save(i, rec)
    BY <1>4 DEF RecvDeployResponse
  <2> QED BY <1>4, <1>5, <2>1
<1>7. /\ rec.spec = heap[mem[i]].spec /\ rec.host = heap[mem[i]].host
      /\ rec.status = DeployOutcome(p.ok) /\ rec \in Records
  BY <1>4, <1>5 DEF Records, Statuses, DeployOutcome
<1>8. rec.status = "Running" => WasStarted(i)
  BY <1>4, <1>7 DEF DeployOutcome
<1>9. \A d \in Reqs : Kept(d)
  BY <1>1, Kinds DEF Kept, Made, IInv, RInv, Store, RecordOK
<1> HIDE DEF rec, p
<1>10. /\ RInv' /\ KnownIds' = KnownIds
       /\ \A a \in Addrs : heap'[a] = Nil <=> heap[a] = Nil
  BY <1>1, <1>4, <1>5, <1>6, <1>7, <1>8, <1>9, ExistingRecord
<1>11. Requests'
  BY <1>1, <1>10, RequestsStay DEF IInv
<1>12. Transit' /\ Streams'
  BY <1>1, <1>10, TakeResponse
<1> QED BY <1>10, <1>11, <1>12 DEF IInv

(* The answer of a stop changes a status to one that is not saved.         *)
LEMMA RecvStopStep ==
  ASSUME IInv, NEW h \in Hosts, NEW c \in Conns, RecvStopResponse(h, c)
  PROVE  IInv'
<1> DEFINE p   == Head(up[h][c])
           i   == p.id
           rec == [heap[mem[i]] EXCEPT !.status = StopOutcome(p.ok)]
<1>1. /\ up[h][c] # <<>>
      /\ up' = [up EXCEPT ![h][c] = Tail(up[h][c])]
      /\ heap' = IF mem[i] = Nil THEN heap ELSE [heap EXCEPT ![mem[i]] = rec]
      /\ UNCHANGED <<mem, db, adrift, agentVars, registered, down, req>>
  BY DEF RecvStopResponse
<1>2. p \in Answerable(KnownIds, StartedIds)
  <2>1. up[h][c] \in Seq(Answerable(KnownIds, StartedIds))
    BY DEF IInv, Transit
  <2> QED BY <1>1, <2>1, Sequences
<1>3. i \in Ids /\ p.ok \in BOOLEAN
  BY <1>2 DEF Answerable, Responses
<1>4. \A d \in Reqs : Kept(d)
  BY <1>1, Kinds DEF Kept, Made, IInv, RInv, Store, RecordOK
<1> HIDE DEF p
<1>5. /\ RInv' /\ KnownIds' = KnownIds
      /\ \A a \in Addrs : heap'[a] = Nil <=> heap[a] = Nil
  <2>1. CASE mem[i] = Nil
    <3>1. RInv'
      BY <1>1, <1>4, <2>1, RecordsFrame DEF IInv
    <3> QED BY <1>1, <2>1, <3>1 DEF KnownIds
  <2>2. CASE mem[i] # Nil
    <3>1. /\ mem[i] \in Addrs /\ heap[mem[i]] \in Records /\ heap[mem[i]] # Nil
          /\ heap[mem[i]].spec \in Specs /\ heap[mem[i]].spec.id = i
      BY <1>3, <2>2, TheRecord
    <3>2. /\ rec.spec = heap[mem[i]].spec /\ rec.host = heap[mem[i]].host
          /\ rec.status \in {"Stopped", "Stop Failed"} /\ rec \in Records
      BY <1>3, <3>1 DEF Records, Statuses, StopOutcome
    <3>3. heap' = [heap EXCEPT ![mem[i]] = rec]
      BY <1>1, <2>2
    <3> HIDE DEF rec
    <3> QED BY <1>1, <1>3, <1>4, <2>2, <3>1, <3>2, <3>3, ExistingRecord
  <2> QED BY <2>1, <2>2
<1>6. Requests'
  BY <1>1, <1>5, RequestsStay DEF IInv
<1>7. Transit' /\ Streams'
  BY <1>1, <1>5, TakeResponse
<1> QED BY <1>5, <1>6, <1>7 DEF IInv

(* After a restart nobody is under way, and no answer can arrive.          *)
LEMMA RestartStep == ASSUME IInv, MasterRestart PROVE IInv'
<1>1. RInv'
  <2>1. PICK loaded \in SUBSET {i \in Ids : db[i] # Nil} :
          /\ mem' = [i \in Ids |-> IF i \in loaded THEN i ELSE Nil]
          /\ heap' = [a \in Addrs |-> IF a \in loaded THEN db[a] ELSE Nil]
          /\ adrift' = {i \in Ids : db[i] # Nil} \ loaded
    BY DEF MasterRestart
  <2>2. UNCHANGED <<db, started>>
    BY DEF MasterRestart
  <2> QED BY <2>1, <2>2, Reload DEF IInv
<1>2. Requests'
  <2>1. req \in [Reqs -> ReqStates]
        /\ req' = [r \in Reqs |-> IF req[r].pc \in {"found", "marked", "send"}
                                   THEN [req[r] EXCEPT !.pc = "aborted"] ELSE req[r]]
    BY DEF IInv, Requests, MasterRestart
  <2>2. ASSUME NEW r \in Reqs
        PROVE  req'[r] \in ReqStates /\ req'[r].pc \notin {"found", "marked", "send"}
    <3>1. CASE req[r].pc \in {"found", "marked", "send"}
      <4>1. req'[r] = [req[r] EXCEPT !.pc = "aborted"] /\ req[r] \in ReqStates
        BY <2>1, <3>1
      <4> QED BY <4>1 DEF ReqStates
    <3>2. CASE req[r].pc \notin {"found", "marked", "send"}
      BY <2>1, <3>2
    <3> QED BY <3>1, <3>2
  <2>3. req' \in [Reqs -> ReqStates]
    BY <2>1, <2>2
  <2> QED BY <2>2, <2>3 DEF Requests, ReqOK
<1>3. Transit'
  <2>1. /\ down' = [h \in Hosts |-> <<>>]
        /\ up' = [h \in Hosts |-> [c \in Conns |-> <<>>]]
    BY DEF MasterRestart
  <2>2. Transit' <=> /\ down' \in [Hosts -> Seq(Deployable(KnownIds'))]
                     /\ up' \in [Hosts -> [Conns -> Seq(Answerable(KnownIds', StartedIds'))]]
    BY DEF Transit, Deployable, Answerable
  <2> HIDE DEF KnownIds, StartedIds
  <2> QED BY <2>1, <2>2, EmptySeq
<1>4. Streams'
  <2>1. /\ conn' = [h \in Hosts |-> 0] /\ registered' = [h \in Hosts |-> 0]
        /\ UNCHANGED <<opened, deploying, started>>
    BY DEF MasterRestart
  <2>2. \A d \in deploying : d.host \in Hosts /\ d.conn # 0
    BY DEF IInv, Streams, Deploys, Conns
  <2>3. \A d \in deploying : conn'[d.host] # d.conn
    BY <2>1, <2>2
  <2> QED BY <2>1, <2>3, ConstantsAssumption DEF IInv, Streams
<1> QED BY <1>1, <1>2, <1>3, <1>4 DEF IInv

-----------------------------------------------------------------------------
(* Every step preserves the invariant.                                     *)
LEMMA NextIInv == IInv /\ [Next]_vars => IInv'
<1> SUFFICES ASSUME IInv, [Next]_vars PROVE IInv'
  OBVIOUS
<1>1. ASSUME NEW r \in Reqs, Request(r) PROVE IInv'
  <2>1. PICK i \in Ids, h \in Hosts :
          \/ \E b \in Bodies : DeployLookup(r, i, h, b) \/ Update(r, i, b)
          \/ StopLookup(r, i, h) \/ StartMark(r, i, h)
    BY <1>1 DEF Request
  <2>2. ASSUME NEW b \in Bodies, DeployLookup(r, i, h, b) \/ Update(r, i, b) PROVE IInv'
    BY <2>2, LookupStep, UpdateStep
  <2>3. ASSUME StopLookup(r, i, h) PROVE IInv'
    <3>1. ZeroBody \in Bodies
      BY ConstantsAssumption
    <3> QED BY <2>3, <3>1, LookupStep
  <2> QED BY <2>1, <2>2, <2>3, StartMarkStep
<1>2. ASSUME NEW r \in Reqs, Continue(r) PROVE IInv'
  BY <1>2, DeployRecordStep, StartLookupStep, SendStep DEF Continue
<1>3. ASSUME NEW h \in Hosts, Receive(h) PROVE IInv'
  BY <1>3, AgentDeployStep, AgentStopStep DEF Receive
<1>4. ASSUME NEW h \in Hosts, NEW c \in Conns, HandleResponse(h, c) PROVE IInv'
  BY <1>4, RecvDeployStep, RecvStopStep DEF HandleResponse
<1>5. ASSUME FinishDeploys PROVE IInv'
  BY <1>5, DeployDoneStep DEF FinishDeploys
<1>6. ASSUME NEW h \in Hosts,
             Connect(h) \/ Register(h) \/ Unregister(h) \/ Disconnect(h) \/ AgentCrash(h)
      PROVE  IInv'
  BY <1>6, StreamStep
<1>7. ASSUME MasterRestart PROVE IInv'
  BY <1>7, RestartStep
<1>8. ASSUME UNCHANGED vars PROVE IInv'
  <2>1. /\ UNCHANGED <<heap, mem, db, adrift, req, started>>
        /\ UNCHANGED <<conn, opened, registered, deploying, down, up>>
    BY <1>8 DEF vars
  <2>2. /\ RInv' /\ Requests' /\ KnownIds' = KnownIds
    BY <2>1, AgentFrame
  <2> QED BY <2>1, <2>2, NetFrame DEF IInv
<1> QED BY <1>1, <1>2, <1>3, <1>4, <1>5, <1>6, <1>7, <1>8 DEF Next

(* So it holds always.                                                     *)
LEMMA Invariant == Spec => []IInv
BY InitIInv, NextIInv, PTL DEF Spec

-----------------------------------------------------------------------------
(* Every variable has its type.                                            *)
THEOREM TypeCorrect == Spec => []TypeOK
BY Invariant, Types, PTL

(* Whatever fails to be saved, and whatever a restart fails to load, the   *)
(* map and the store agree on the host and the spec of every container but *)
(* those: a restart whose load succeeds loses none that was saved.         *)
THEOREM SpecDurableHolds == Spec => []SpecDurable
<1>1. IInv => SpecDurable
  BY DEF IInv, RInv
<1> QED BY <1>1, Invariant, PTL

(* The stored status lags behind only where start or a StopResponse has    *)
(* changed the one in memory.                                              *)
THEOREM StatusLagHolds == Spec => []StatusLag
<1>1. IInv => StatusLag
  BY DEF IInv, RInv
<1> QED BY <1>1, Invariant, PTL

(* No record says "Running" of a container that no agent ever started.     *)
THEOREM RunningHolds == Spec => []RunningWasStarted
<1>1. IInv => RunningWasStarted
  <2> SUFFICES ASSUME IInv, NEW i \in Ids
               PROVE  \/ Known(i) /\ Info(i).status = "Running"
                      \/ db[i] # Nil /\ db[i].status = "Running"
                      => WasStarted(i)
    BY DEF RunningWasStarted, WasStarted
  <2>1. ASSUME mem[i] # Nil, heap[mem[i]].status = "Running" PROVE WasStarted(i)
    BY <2>1, TheRecord
  <2>2. ASSUME db[i] # Nil, db[i].status = "Running" PROVE WasStarted(i)
    BY <2>2 DEF IInv, RInv, Store, RowOK
  <2> QED BY <2>1, <2>2 DEF Known, Info
<1> QED BY <1>1, Invariant, PTL

(* Every record the master has carries the spec of its own id, so that     *)
(* start has something to send.                                            *)
THEOREM SpecsHold == Spec => []EveryRecordHasItsSpec
<1>1. IInv => EveryRecordHasItsSpec
  BY TheRecord, Kinds DEF EveryRecordHasItsSpec, Known, Info
<1> QED BY <1>1, Invariant, PTL
=============================================================================
