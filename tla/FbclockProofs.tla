--------------------------- MODULE FbclockProofs ---------------------------
(***************************************************************************)
(* Proofs about Fbclock: for any number of readers, any number of tries    *)
(* and any history of stores, deaths and restarts of the daemon, the       *)
(* shared memory is an atomic register for a reader that checks the CRC,   *)
(* and published data does not disappear.                                  *)
(***************************************************************************)
EXTENDS Fbclock, TLAPS

LEMMA InitTypeOK == Init => TypeOK
  BY ConstantsAssumption DEF Init, TypeOK, Times, Fields, Covered, Zero, NewCall, Call, NoCrc, Record

\* The daemon's steps keep the types.
LEMMA DaemonTypeOK == TypeOK /\ (Clock \/ Daemon) => TypeOK'
<1> SUFFICES ASSUME TypeOK, Clock \/ Daemon PROVE TypeOK'
  OBVIOUS
<1> USE ConstantsAssumption
<1>1. CASE Clock
  BY <1>1 DEF Clock, TypeOK, process, shm, Times
<1>2. CASE Run
  BY <1>2 DEF Run, TypeOK, shm
<1>3. CASE Die
  BY <1>3 DEF Die, TypeOK, shm
<1>4. CASE atomic_store
  <2>1. crc' \in [Covered -> 0..Len(stores)]
    BY <1>4 DEF atomic_store, TypeOK, fbclock_clockdata_crc, Fields
  <2>2. daemon' \in [pc : {"down", "idle", "copy"}, todo : SUBSET Fields]
    BY <1>4 DEF atomic_store, TypeOK
  <2> QED BY <1>4, <2>1, <2>2 DEF atomic_store, TypeOK
<1>5. ASSUME NEW f \in Fields, StoreField(f) PROVE TypeOK'
  <2>1. data' \in [Fields -> 0..Len(stores)]
    BY <1>5 DEF StoreField, TypeOK
  <2>2. daemon' \in [pc : {"down", "idle", "copy"}, todo : SUBSET Fields]
    BY <1>5 DEF StoreField, TypeOK
  <2> QED BY <1>5, <2>1, <2>2 DEF StoreField, TypeOK
<1>6. ASSUME NEW ingress \in 0..now, NEW w \in Windows, doWork(ingress, w) PROVE TypeOK'
  <2>1. points' \in 0..RingSize /\ ms' \in 0..RingSize
    BY <1>6 DEF doWork, push, TypeOK
  <2>2. CASE UNCHANGED <<daemon, stores>>
    BY <1>6, <2>1, <2>2 DEF doWork, TypeOK, shm
  <2>3. CASE /\ Len(stores) < MaxStores
             /\ stores' = Append(stores, [ingress |-> ingress, window |-> w])
             /\ daemon' = [pc |-> "copy", todo |-> Fields]
    <3>1. [ingress |-> ingress, window |-> w] \in Record
      BY DEF Record, TypeOK, Times
    <3>2. stores' \in Seq(Record) /\ Len(stores') = Len(stores) + 1
      BY <2>3, <3>1 DEF TypeOK
    <3>3. Len(stores) \in Nat /\ 0..Len(stores) \subseteq 0..Len(stores')
      BY <3>2 DEF TypeOK
    <3>4. data \in [Fields -> 0..Len(stores')] /\ crc \in [Covered -> 0..Len(stores')] \cup {NoCrc}
      BY <3>3 DEF TypeOK
    <3>5. Call(Len(stores)) \subseteq Call(Len(stores'))
      BY <3>3 DEF Call
    <3>6. reader \in [Readers -> Call(Len(stores'))]
      BY <3>5 DEF TypeOK
    <3>7. now' = now /\ data' = data /\ crc' = crc /\ reader' = reader
      BY <1>6 DEF doWork, shm
    <3> QED BY <2>1, <2>3, <3>2, <3>3, <3>4, <3>6, <3>7 DEF TypeOK
  <2> QED BY <1>6, <2>2, <2>3 DEF doWork
<1> QED BY <1>1, <1>2, <1>3, <1>4, <1>5, <1>6 DEF Daemon

LEMMA NewCallType ==
    ASSUME NEW n \in Nat, NEW pc \in {"idle", "copy"}, NEW todo \in SUBSET Fields,
           NEW began \in {"empty", "published"},
           NEW status \in {"none", "NO_ERROR", "NO_DATA", "WOU_TOO_BIG", "PTP_READ_OFFSET",
                           "PHC_IN_THE_PAST"}
    PROVE  NewCall(pc, todo, began, status) \in Call(n)
  BY ConstantsAssumption DEF NewCall, Call, Zero

\* A step of a reader keeps the types, and the other readers as they are.
LEMMA ReaderTypeOK ==
    ASSUME TypeOK, NEW r \in Readers, Reader(r)
    PROVE  /\ TypeOK' /\ UNCHANGED <<now, points, ms, daemon, stores, data, crc>>
           /\ \A s \in Readers \ {r} : reader'[s] = reader[s]
<1> USE ConstantsAssumption
<1> DEFINE k == Len(stores)
<1>1. UNCHANGED <<now, points, ms, daemon, stores, data, crc>>
  BY DEF Reader, fbclock_gettime_tz, LoadField, atomic_load, Finish, process, shm
<1>2. reader[r] \in Call(k) /\ reader \in [Readers -> Call(k)] /\ k \in Nat
  BY DEF TypeOK
<1>3. SUFFICES \E c \in Call(k) : reader' = [reader EXCEPT ![r] = c]
  BY <1>1, <1>2 DEF TypeOK
<1>4. CASE fbclock_gettime_tz(r)
  <2>1. ASSUME NEW began \in {"empty", "published"}
        PROVE  NewCall("copy", Fields, began, "none") \in Call(k)
    BY <1>2, NewCallType
  <2> QED BY <1>4, <2>1 DEF fbclock_gettime_tz
<1>5. ASSUME NEW f \in Fields, LoadField(r, f)
      PROVE  \E c \in Call(k) : reader' = [reader EXCEPT ![r] = c]
  <2> DEFINE c == [reader[r] EXCEPT !.buf[f] = data[f], !.todo = @ \ {f}]
  <2>1. c \in Call(k)
    BY <1>2 DEF Call, TypeOK
  <2>2. reader' = [reader EXCEPT ![r] = c]
    BY <1>2, <1>5 DEF LoadField
  <2> QED BY <2>1, <2>2
<1>6. CASE atomic_load(r)
  <2> DEFINE c == reader[r]
  <2>1. ASSUME NEW pc \in {"checked", "unchecked"} PROVE [c EXCEPT !.pc = pc] \in Call(k)
    BY <1>2 DEF Call
  <2>2. ASSUME c.tries + 1 < MaxTries
        PROVE  [c EXCEPT !.tries = c.tries + 1, !.todo = Fields] \in Call(k)
    <3>1. c.tries + 1 \in 0..MaxTries
      BY <1>2, <2>2 DEF Call
    <3> QED BY <1>2, <3>1 DEF Call
  <2> QED BY <1>2, <1>6, <2>1, <2>2 DEF atomic_load
<1>7. CASE Finish(r)
  <2>1. ASSUME NEW status \in {"NO_DATA", "WOU_TOO_BIG", "PTP_READ_OFFSET", "PHC_IN_THE_PAST", "NO_ERROR"}
        PROVE  NewCall("idle", {}, reader[r].began, status) \in Call(k)
    <3>1. reader[r].began \in {"empty", "published"}
      BY <1>2 DEF Call
    <3> HIDE DEF k
    <3> QED BY <1>2, <3>1, NewCallType
  <2>2. \E status \in {"NO_DATA", "WOU_TOO_BIG", "PTP_READ_OFFSET", "PHC_IN_THE_PAST", "NO_ERROR"} :
            Return(r, status)
    BY <1>7 DEF Finish, fbclock_calculate_time
  <2> QED BY <2>1, <2>2 DEF Return
<1> QED BY <1>4, <1>5, <1>6, <1>7 DEF Reader

\* Type correctness of the daemon, the shared memory and the readers.
THEOREM TypeCorrect == Spec => []TypeOK
<1>1. TypeOK /\ [Next]_vars => TypeOK'
  <2>1. TypeOK /\ UNCHANGED vars => TypeOK'
    BY DEF TypeOK, vars, process, shm
  <2> QED BY <2>1, DaemonTypeOK, ReaderTypeOK DEF Next
<1> QED BY <1>1, InitTypeOK, PTL DEF Spec

-----------------------------------------------------------------------------
(***************************************************************************)
(* The invariant behind the other theorems. Every record in stores has an  *)
(* ingress time the PHC has passed and a window that is not 0; once the    *)
(* CRC is there no field of the memory is 0 again, since a store only      *)
(* overwrites one record with another; so a call that began after that has *)
(* read no 0, whichever stores its copy mixes.                             *)
(***************************************************************************)
StoresInv == \A n \in 1..Len(stores) :
    stores[n].ingress \in 1..now /\ stores[n].window.bound # "zero"

MemoryInv ==
    /\ daemon.pc = "copy" =>
           Len(stores) >= 1 /\ \A f \in Fields \ daemon.todo : data[f] # 0
    /\ crc # NoCrc => \A f \in Fields : data[f] # 0

ReaderInv(r) ==
    /\ reader[r].pc \in {"checked", "unchecked"} => reader[r].todo = {}
    /\ reader[r].pc # "idle" /\ reader[r].began = "published" =>
           crc # NoCrc /\ \A f \in Fields \ reader[r].todo : reader[r].buf[f] # 0
    /\ reader[r].began = "published" => reader[r].status # "NO_DATA"
    /\ reader[r].status # "PHC_IN_THE_PAST"

DataInv == TypeOK /\ StoresInv /\ MemoryInv /\ \A r \in Readers : ReaderInv(r)

LEMMA InitDataInv == Init => DataInv
  BY InitTypeOK DEF Init, DataInv, StoresInv, MemoryInv, ReaderInv, NewCall

\* No field is 0 once the CRC is there, whatever the daemon does.
LEMMA DaemonDataInv == DataInv /\ (Clock \/ Daemon) => DataInv'
<1> SUFFICES ASSUME DataInv, Clock \/ Daemon PROVE DataInv'
  OBVIOUS
<1> USE ConstantsAssumption
<1>1. TypeOK /\ TypeOK' /\ StoresInv /\ MemoryInv /\ \A r \in Readers : ReaderInv(r)
  BY DaemonTypeOK DEF DataInv
<1>2. SUFFICES StoresInv' /\ MemoryInv' /\ (\A r \in Readers : ReaderInv(r)')
  BY <1>1 DEF DataInv
<1>3. ASSUME UNCHANGED reader, crc # NoCrc => crc' # NoCrc
      PROVE  \A r \in Readers : ReaderInv(r)'
  BY <1>1, <1>3 DEF ReaderInv
<1>4. CASE Clock
  BY <1>1, <1>3, <1>4 DEF Clock, process, shm, StoresInv, MemoryInv, TypeOK, Times
<1>5. CASE Run \/ Die
  BY <1>1, <1>3, <1>5 DEF Run, Die, shm, StoresInv, MemoryInv
<1>6. CASE atomic_store
  <2>1. \A f \in Fields : data[f] # 0
    BY <1>1, <1>6 DEF atomic_store, MemoryInv
  <2>2. crc' # NoCrc
    <3>1. DOMAIN crc' = Covered
      BY <1>6 DEF atomic_store, fbclock_clockdata_crc
    <3>2. DOMAIN NoCrc = {"none"} /\ "ingress_time" \in Covered
      BY DEF NoCrc, Covered
    <3> QED BY <3>1, <3>2
  <2>3. daemon'.pc # "copy"
    BY <1>1, <1>6 DEF atomic_store, TypeOK
  <2> QED BY <1>1, <1>3, <1>6, <2>1, <2>2, <2>3 DEF atomic_store, StoresInv, MemoryInv
<1>7. ASSUME NEW f \in Fields, StoreField(f) PROVE StoresInv' /\ MemoryInv' /\ (\A r \in Readers : ReaderInv(r)')
  <2>1. Len(stores) # 0 /\ data' = [data EXCEPT ![f] = Len(stores)]
    BY <1>1, <1>7 DEF StoreField, MemoryInv
  <2>2. \A g \in Fields : (g = f => data'[g] # 0) /\ (g # f => data'[g] = data[g])
    BY <1>1, <2>1 DEF TypeOK
  <2>3. daemon'.todo = daemon.todo \ {f} /\ daemon.pc = "copy"
    BY <1>1, <1>7 DEF StoreField, TypeOK
  <2> QED BY <1>1, <1>3, <1>7, <2>2, <2>3 DEF StoreField, StoresInv, MemoryInv
<1>8. ASSUME NEW ingress \in 0..now, NEW w \in Windows, doWork(ingress, w)
      PROVE  StoresInv' /\ MemoryInv' /\ (\A r \in Readers : ReaderInv(r)')
  <2>1. UNCHANGED <<now, data, crc, reader>>
    BY <1>8 DEF doWork, shm
  <2>2. CASE UNCHANGED <<daemon, stores>>
    BY <1>1, <1>3, <2>1, <2>2 DEF StoresInv, MemoryInv
  <2>3. CASE /\ calculateSHMData(w)
             /\ stores' = Append(stores, [ingress |-> ingress, window |-> w])
             /\ daemon' = [pc |-> "copy", todo |-> Fields]
    <3>1. ingress \in 1..now /\ w.bound # "zero"
      BY <1>1, <1>8, <2>3 DEF doWork, SanityCheck, calculateSHMData, TypeOK, Times
    <3>2. Len(stores') = Len(stores) + 1 /\ Len(stores) \in Nat
      BY <1>1, <2>3 DEF TypeOK
    <3>3. \A n \in 1..Len(stores') :
              IF n = Len(stores) + 1 THEN stores'[n] = [ingress |-> ingress, window |-> w]
              ELSE n \in 1..Len(stores) /\ stores'[n] = stores[n]
      BY <1>1, <2>3, <3>2 DEF TypeOK
    <3>4. StoresInv'
      BY <1>1, <2>1, <3>1, <3>2, <3>3 DEF StoresInv
    <3>5. MemoryInv'
      BY <1>1, <2>1, <2>3, <3>2 DEF MemoryInv
    <3> QED BY <1>3, <2>1, <3>4, <3>5
  <2> QED BY <1>8, <2>2, <2>3 DEF doWork
<1> QED BY <1>4, <1>5, <1>6, <1>7, <1>8 DEF Daemon

\* What a reader copies is not 0 if the CRC was there when it began.
LEMMA ReaderDataInv ==
    ASSUME DataInv, NEW r \in Readers, Reader(r)
    PROVE  DataInv'
<1>1. /\ TypeOK /\ StoresInv /\ MemoryInv /\ ReaderInv(r)
      /\ \A s \in Readers : ReaderInv(s)
  BY DEF DataInv
<1>2. /\ TypeOK' /\ UNCHANGED <<now, points, ms, daemon, stores, data, crc>>
      /\ \A s \in Readers \ {r} : reader'[s] = reader[s]
  BY <1>1, ReaderTypeOK
<1>3. SUFFICES ReaderInv(r)'
  <2>1. StoresInv' /\ MemoryInv'
    BY <1>1, <1>2 DEF StoresInv, MemoryInv
  <2>2. \A s \in Readers \ {r} : ReaderInv(s)'
    BY <1>1, <1>2 DEF ReaderInv
  <2> QED BY <1>2, <1>3, <2>1, <2>2 DEF DataInv
<1>4. reader \in [Readers -> Call(Len(stores))] /\ reader[r] \in Call(Len(stores))
  BY <1>1 DEF TypeOK
<1>5. CASE fbclock_gettime_tz(r)
  BY <1>2, <1>4, <1>5 DEF fbclock_gettime_tz, ReaderInv, NewCall
<1>6. ASSUME NEW f \in Fields, LoadField(r, f) PROVE ReaderInv(r)'
  <2>1. /\ reader'[r].pc = "copy" /\ reader'[r].began = reader[r].began
        /\ reader'[r].status = reader[r].status /\ reader'[r].todo = reader[r].todo \ {f}
        /\ reader'[r].buf = [reader[r].buf EXCEPT ![f] = data[f]] /\ reader[r].pc = "copy"
    BY <1>4, <1>6 DEF LoadField, Call
  <2>2. \A g \in Fields : reader'[r].buf[g] = IF g = f THEN data[f] ELSE reader[r].buf[g]
    BY <1>4, <2>1 DEF Call
  <2> QED BY <1>1, <1>2, <2>1, <2>2 DEF ReaderInv, MemoryInv
<1>7. CASE atomic_load(r)
  <2>1. /\ reader'[r].began = reader[r].began /\ reader'[r].status = reader[r].status
        /\ reader'[r].buf = reader[r].buf /\ reader'[r].pc \in {"copy", "checked", "unchecked"}
        /\ reader[r].todo = {} /\ reader'[r].todo \in {{}, Fields} /\ reader[r].pc = "copy"
        /\ reader'[r].pc # "copy" => reader'[r].todo = {}
    <3>1. reader[r].pc = "copy" /\ reader[r].todo = {}
      BY <1>7 DEF atomic_load
    <3>2. CASE \E pc \in {"checked", "unchecked"} : reader' = [reader EXCEPT ![r].pc = pc]
      BY <1>4, <3>1, <3>2 DEF Call
    <3>3. CASE reader' = [reader EXCEPT ![r].tries = @ + 1, ![r].todo = Fields]
      BY <1>4, <3>1, <3>3 DEF Call
    <3> QED BY <1>7, <3>2, <3>3 DEF atomic_load
  <2> QED BY <1>1, <1>2, <2>1 DEF ReaderInv
<1>8. CASE Finish(r)
  <2> DEFINE b == reader[r].buf
  <2>1. /\ reader[r].todo = {} /\ b \in [Fields -> 0..Len(stores)]
        /\ reader[r].began = "published" => \A f \in Fields : b[f] # 0
    BY <1>1, <1>4, <1>8 DEF Finish, ReaderInv, Call
  <2>2. \A n \in 0..Len(stores) : IngressTime(n) <= now
    BY <1>1 DEF StoresInv, IngressTime, TypeOK, Times
  <2>3. \A n \in 1..Len(stores) : IngressTime(n) # 0 /\ ErrorBound(n) # "zero"
    BY <1>1 DEF StoresInv, IngressTime, ErrorBound, TypeOK
  <2>4. b["ingress_time"] \in 0..Len(stores) /\ b["error_bound"] \in 0..Len(stores)
    BY <2>1 DEF Fields, Covered
  <2>5. fbclock_calculate_time(IngressTime(b["ingress_time"])) = "NO_ERROR"
    <3>1. IngressTime(b["ingress_time"]) \in Int /\ now \in Int
      BY <1>1, <2>4 DEF StoresInv, IngressTime, TypeOK, Times
    <3> QED BY <2>2, <2>4, <3>1 DEF fbclock_calculate_time
  <2>6. reader[r].began = "published" =>
            IngressTime(b["ingress_time"]) # 0 /\ ErrorBound(b["error_bound"]) # "zero"
    <3>1. "ingress_time" \in Fields /\ "error_bound" \in Fields
      BY DEF Fields, Covered
    <3> QED BY <1>1, <2>1, <2>3, <2>4, <3>1 DEF TypeOK
  <2>7. \E status \in {"NO_DATA", "WOU_TOO_BIG", "PTP_READ_OFFSET", "NO_ERROR"} :
            Return(r, status) /\ (reader[r].began = "published" => status # "NO_DATA")
    BY <1>8, <2>5, <2>6 DEF Finish
  <2> QED BY <1>4, <2>7 DEF Return, NewCall, ReaderInv
<1> QED BY <1>5, <1>6, <1>7, <1>8 DEF Reader

LEMMA DataInvariant == Spec => []DataInv
<1>1. DataInv /\ [Next]_vars => DataInv'
  <2>1. DataInv /\ UNCHANGED vars => DataInv'
    BY DEF DataInv, TypeOK, StoresInv, MemoryInv, ReaderInv, vars, process, shm
  <2> QED BY <2>1, DaemonDataInv, ReaderDataInv DEF Next
<1> QED BY <1>1, InitDataInv, PTL DEF Spec

\* Once a record was published no later call of fbclock_gettime says NO_DATA,
\* however often the daemon dies in the middle of a store.
THEOREM DataStaysCorrect == Spec => []DataStays
<1>1. DataInv => DataStays
  BY DEF DataInv, ReaderInv, DataStays
<1> QED BY <1>1, DataInvariant, PTL

\* fbclock_calculate_time never meets an ingress time that the PHC has not passed,
\* even in data that failed the CRC check.
THEOREM NotInThePastCorrect == Spec => []NotInThePast
<1>1. DataInv => NotInThePast
  BY DEF DataInv, ReaderInv, NotInThePast
<1> QED BY <1>1, DataInvariant, PTL

-----------------------------------------------------------------------------
(* The refinement *)

\* The CRC of a record is never the 0 of a new file.
LEMMA CrcIsSome == ASSUME NEW d PROVE fbclock_clockdata_crc(d) # NoCrc
<1>1. DOMAIN fbclock_clockdata_crc(d) = Covered /\ "ingress_time" \in Covered
  BY DEF fbclock_clockdata_crc, Covered
<1>2. DOMAIN NoCrc = {"none"}
  BY DEF NoCrc
<1> QED BY <1>1, <1>2

\* Each step of the daemon publishes or is not visible.
LEMMA DaemonImplements ==
    DataInv /\ (Clock \/ Daemon) => Register!Publish \/ UNCHANGED Register!vars
<1> SUFFICES ASSUME DataInv, Clock \/ Daemon PROVE Register!Publish \/ UNCHANGED Register!vars
  OBVIOUS
<1> DEFINE loaded == [r \in Readers |-> Loaded(r)]
<1>1. reader' = reader
  BY DEF Clock, Daemon, Run, Die, atomic_store, StoreField, doWork
<1>2. loaded' = loaded
  BY <1>1 DEF Loaded
<1>3. CASE atomic_store
  <2>1. Len(stores) \in 1..MaxStores
    BY <1>3, ConstantsAssumption DEF atomic_store, DataInv, MemoryInv, TypeOK
  <2>2. crc' = [f \in Covered |-> Len(stores)]
    BY <1>3 DEF atomic_store, fbclock_clockdata_crc, Fields
  <2> QED BY <1>2, <2>1, <2>2 DEF Register!Publish
<1>4. CASE ~ atomic_store
  <2>1. crc' = crc
    BY <1>4 DEF Clock, Daemon, Run, Die, StoreField, doWork, shm
  <2> QED BY <1>2, <2>1 DEF Register!vars
<1> QED BY <1>3, <1>4

\* Each step of a reader loads, gives up, returns or is not visible.
LEMMA ReaderImplements ==
    ASSUME DataInv, NEW r \in Readers, Reader(r)
    PROVE  Register!Load(r) \/ Register!GiveUp(r) \/ Register!Return(r) \/ UNCHANGED Register!vars
<1> DEFINE loaded == [s \in Readers |-> Loaded(s)]
<1>1. TypeOK
  BY DEF DataInv
<1>2. crc' = crc /\ \A s \in Readers \ {r} : reader'[s] = reader[s]
  BY <1>1, ReaderTypeOK
<1>3. \A s \in Readers \ {r} : Loaded(s)' = Loaded(s)
  BY <1>2 DEF Loaded
<1>4. loaded' = [loaded EXCEPT ![r] = Loaded(r)']
  BY <1>3
<1>5. reader \in [Readers -> Call(Len(stores))] /\ reader[r] \in Call(Len(stores))
  BY <1>1 DEF TypeOK
<1>6. ASSUME Loaded(r)' = Loaded(r) PROVE UNCHANGED Register!vars
  <2>1. loaded' = loaded
    BY <1>3, <1>6
  <2> QED BY <1>2, <2>1 DEF Register!vars
<1>7. CASE fbclock_gettime_tz(r)
  <2>1. reader[r].pc = "idle" /\ reader'[r].pc = "copy"
    BY <1>5, <1>7 DEF fbclock_gettime_tz, NewCall
  <2> QED BY <1>6, <2>1 DEF Loaded
<1>8. ASSUME NEW f \in Fields, LoadField(r, f) PROVE UNCHANGED Register!vars
  <2>1. reader[r].pc = "copy" /\ reader'[r].pc = "copy"
    BY <1>5, <1>8 DEF LoadField, Call
  <2> QED BY <1>6, <2>1 DEF Loaded
<1>9. CASE atomic_load(r)
  <2>1. reader[r].pc = "copy"
    BY <1>9 DEF atomic_load
  <2>2. loaded[r] = NoCrc
    BY <2>1 DEF Loaded
  <2>3. CASE /\ fbclock_clockdata_crc(reader[r].buf) = crc
             /\ reader' = [reader EXCEPT ![r].pc = "checked"]
    <3>1. reader'[r].pc = "checked" /\ reader'[r].buf = reader[r].buf
      BY <1>5, <2>3 DEF Call
    <3>2. Loaded(r)' = crc /\ crc # NoCrc
      BY <2>3, <3>1, CrcIsSome DEF Loaded, fbclock_clockdata_crc
    <3> QED BY <1>2, <1>4, <2>2, <3>2 DEF Register!Load
  <2>4. CASE reader' = [reader EXCEPT ![r].pc = "unchecked"]
    <3>1. reader'[r].pc = "unchecked"
      BY <1>5, <2>4 DEF Call
    <3>2. Loaded(r)' = NotChecked
      BY <3>1 DEF Loaded, NotChecked
    <3> QED BY <1>2, <1>4, <2>2, <3>2 DEF Register!GiveUp
  <2>5. CASE reader' = [reader EXCEPT ![r].tries = @ + 1, ![r].todo = Fields]
    <3>1. reader'[r].pc = "copy"
      BY <1>5, <2>1, <2>5 DEF Call
    <3> QED BY <1>6, <2>1, <3>1 DEF Loaded
  <2> QED BY <1>9, <2>3, <2>4, <2>5 DEF atomic_load
<1>10. CASE Finish(r)
  <2>1. reader'[r].pc = "idle"
    BY <1>5, <1>10 DEF Finish, Return, NewCall
  <2>2. Loaded(r)' = NoCrc
    BY <2>1 DEF Loaded, NoCrc
  <2> QED BY <1>2, <1>4, <2>2 DEF Register!Return
<1> QED BY <1>7, <1>8, <1>9, <1>10 DEF Reader

\* The memory that fbclock_clockdata_store_data and fbclock_clockdata_load_data
\* share without a lock implements an atomic register, for any number of readers
\* and of tries.
THEOREM RegisterCorrect == Spec => RegisterSpec
<1>1. Init => Register!Init
  BY DEF Init, Register!Init, NewCall, Loaded
<1>2. DataInv /\ [Next]_vars => [Register!Next]_(Register!vars)
  <2>1. ASSUME UNCHANGED vars PROVE UNCHANGED Register!vars
    BY <2>1 DEF vars, shm, Register!vars, Loaded
  <2> QED BY <2>1, DaemonImplements, ReaderImplements DEF Next, Register!Next
<1> QED BY <1>1, <1>2, DataInvariant, PTL DEF Spec, RegisterSpec, Register!Spec
=============================================================================
