------------------------------- MODULE Fbclock -------------------------------
(***************************************************************************)
(* fbclock: the daemon (fbclock/daemon) that publishes a record in shared  *)
(* memory, and the library (fbclock/fbclock.c) that other processes read   *)
(* it with. Nothing locks the memory: the record is copied field by field  *)
(* in whatever order memcpy has, and a CRC is stored after it. The daemon  *)
(* may die at any step and be started again; the memory stays.             *)
(*                                                                         *)
(* A field in memory is the number of the store it comes from, 0 if it was *)
(* never written. The CRC is what it is computed from: two records with    *)
(* the same CRC have the same fields below it.                             *)
(***************************************************************************)
EXTENDS Integers, Sequences

CONSTANTS Readers,     \* calls of fbclock_gettime, one at a time for each
          MaxTries,    \* FBCLOCK_MAX_READ_TRIES, 1000 in the code
          RingSize,    \* cfg.RingSize
          Uncovered,   \* the fields about leap seconds, which the CRC leaves out
          Windows,     \* the results of calcW and calcDriftPPB
          MaxTime,     \* bound on the PHC time
          MaxStores    \* bound on the records published

ASSUME ConstantsAssumption ==
    /\ MaxTries \in Nat \ {0} /\ RingSize \in Nat \ {0}
    /\ MaxTime \in Nat \ {0} /\ MaxStores \in Nat
    /\ Windows \subseteq [bound : {"zero", "some", "max"}, multiplier : {"zero", "some", "max"}]

VARIABLES
    now,          \* the time of the PHC
    points, ms,   \* how many of the last RingSize DataPoints and Ms the rings hold
    daemon,       \* the daemon: pc, and the fields memcpy has still to copy
    stores,       \* the records given to fbclock_clockdata_store_data
    data, crc,    \* the shared memory
    reader        \* the calls of fbclock_gettime

process == <<points, ms, daemon, stores>>
shm == <<data, crc>>
vars == <<now, process, shm, reader>>

Covered == {"ingress_time", "error_bound", "holdover_multiplier"}
Fields == Covered \cup Uncovered
Times == 0..MaxTime
Record == [ingress : Times, window : Windows]   \* "max" is UINT32_MAX, where values are capped
NoCrc == [none |-> TRUE]   \* 0, as in a new file; no record has it as its CRC

\* Mutant of fbclock_clockdata_crc: it stops after the ingress time.
fbclock_clockdata_crcIngress(d) == [f \in Covered |-> d["ingress_time"]]

fbclock_clockdata_crc(d) == [f \in Covered |-> d[f]]

Zero == [f \in Fields |-> 0]

\* A call of fbclock_gettime: where it is, its variables, whether the memory was
\* empty when it began, and the code it returns.
Call(n) == [pc : {"idle", "copy", "checked", "unchecked"}, todo : SUBSET Fields,
            buf : [Fields -> 0..n], tries : 0..MaxTries, began : {"empty", "published"},
            status : {"none", "NO_ERROR", "NO_DATA", "WOU_TOO_BIG", "PTP_READ_OFFSET",
                      "PHC_IN_THE_PAST"}]

NewCall(pc, todo, began, status) ==
    [pc |-> pc, todo |-> todo, buf |-> Zero, tries |-> 0, began |-> began, status |-> status]

TypeOK ==
    /\ now \in Times /\ points \in 0..RingSize /\ ms \in 0..RingSize
    /\ daemon \in [pc : {"down", "idle", "copy"}, todo : SUBSET Fields]
    /\ stores \in Seq(Record) /\ Len(stores) <= MaxStores
    /\ data \in [Fields -> 0..Len(stores)]
    /\ crc \in [Covered -> 0..Len(stores)] \cup {NoCrc}
    /\ reader \in [Readers -> Call(Len(stores))]

Init ==
    /\ now = 1 /\ points = 0 /\ ms = 0 /\ daemon = [pc |-> "down", todo |-> {}]
    /\ stores = <<>> /\ data = Zero /\ crc = NoCrc
    /\ reader = [r \in Readers |-> NewCall("idle", {}, "empty", "none")]

Clock == now < MaxTime /\ now' = now + 1 /\ UNCHANGED <<process, shm, reader>>

-----------------------------------------------------------------------------
(* The daemon *)

\* New and OpenFBClockSHM: the file is cut to the size it has, so it keeps its content.
Run ==
    /\ daemon.pc = "down"
    /\ daemon' = [pc |-> "idle", todo |-> {}] /\ points' = 0 /\ ms' = 0
    /\ UNCHANGED <<now, stores, shm, reader>>

\* A crash, or Run returns because the PHC cannot be read.
Die ==
    /\ daemon.pc # "down"
    /\ daemon' = [pc |-> "down", todo |-> {}] /\ points' = 0 /\ ms' = 0
    /\ UNCHANGED <<now, stores, shm, reader>>

\* pushDataPoint and pushM: a ring of RingSize places, the oldest one overwritten.
push(n) == IF n = RingSize THEN n ELSE n + 1

\* Mutant of calculateSHMData: the test of W against 0 is missing.
calculateSHMDataZero(w) == ms' = RingSize /\ points' = RingSize

\* Whether calculateSHMData has a record to publish.
calculateSHMData(w) == ms' = RingSize /\ points' = RingSize /\ w.bound # "zero"

\* SanityCheck: the other reasons to reject a data point are not told apart.
SanityCheck(ingress) == ingress # 0

\* One round of the loop in Run with a data point that passes SanityCheck (the
\* others change nothing): w is what it leads to. One of the expressions or the
\* mmap of the shared memory may fail.
doWork(ingress, w) ==
    /\ daemon.pc = "idle" /\ SanityCheck(ingress)
    /\ points' = push(points)
    /\ \/ ms' = ms /\ UNCHANGED <<daemon, stores>>
       \/ ms' = push(ms) /\ UNCHANGED <<daemon, stores>>
       \/ /\ ms' = push(ms) /\ calculateSHMData(w) /\ Len(stores) < MaxStores
          /\ stores' = Append(stores, [ingress |-> ingress, window |-> w])
          /\ daemon' = [pc |-> "copy", todo |-> Fields]
    /\ UNCHANGED <<now, shm, reader>>

\* The memcpy of fbclock_clockdata_store_data.
StoreField(f) ==
    /\ daemon.pc = "copy" /\ f \in daemon.todo
    /\ data' = [data EXCEPT ![f] = Len(stores)]
    /\ daemon' = [daemon EXCEPT !.todo = @ \ {f}]
    /\ UNCHANGED <<now, points, ms, stores, crc, reader>>

atomic_store ==
    /\ daemon.pc = "copy" /\ daemon.todo = {}
    /\ crc' = fbclock_clockdata_crc([f \in Fields |-> Len(stores)])
    /\ daemon' = [daemon EXCEPT !.pc = "idle"]
    /\ UNCHANGED <<now, points, ms, stores, data, reader>>

-----------------------------------------------------------------------------
(* The library *)

\* fbclock_gettime_tz up to the first try of fbclock_clockdata_load_data.
fbclock_gettime_tz(r) ==
    /\ reader[r].pc = "idle"
    /\ reader' = [reader EXCEPT ![r] =
           NewCall("copy", Fields, IF crc = NoCrc THEN "empty" ELSE "published", "none")]
    /\ UNCHANGED <<now, process, shm>>

LoadField(r, f) ==
    /\ reader[r].pc = "copy" /\ f \in reader[r].todo
    /\ reader' = [reader EXCEPT ![r].buf[f] = data[f], ![r].todo = @ \ {f}]
    /\ UNCHANGED <<now, process, shm>>

\* Mutant of atomic_load: the reader tries until the CRC matches.
atomic_loadForever(r) ==
    /\ reader[r].pc = "copy" /\ reader[r].todo = {}
    /\ reader' = IF fbclock_clockdata_crc(reader[r].buf) = crc
                 THEN [reader EXCEPT ![r].pc = "checked"]
                 ELSE [reader EXCEPT ![r].todo = Fields]
    /\ UNCHANGED <<now, process, shm>>

\* The CRC is loaded and compared: the data is good, or another try, or the last
\* try's data as it is.
atomic_load(r) ==
    /\ reader[r].pc = "copy" /\ reader[r].todo = {}
    /\ \/ /\ fbclock_clockdata_crc(reader[r].buf) = crc
          /\ reader' = [reader EXCEPT ![r].pc = "checked"]
       \/ /\ fbclock_clockdata_crc(reader[r].buf) # crc /\ reader[r].tries + 1 < MaxTries
          /\ reader' = [reader EXCEPT ![r].tries = @ + 1, ![r].todo = Fields]
       \/ /\ fbclock_clockdata_crc(reader[r].buf) # crc /\ reader[r].tries + 1 = MaxTries
          /\ reader' = [reader EXCEPT ![r].pc = "unchecked"]
    /\ UNCHANGED <<now, process, shm>>

\* The value of each field that was read, by the number of its store.
IngressTime(n) == IF n = 0 THEN 0 ELSE stores[n].ingress
ErrorBound(n) == IF n = 0 THEN "zero" ELSE stores[n].window.bound
Multiplier(n) == IF n = 0 THEN "zero" ELSE stores[n].window.multiplier

\* Mutant of fbclock_calculate_time: >= for >.
fbclock_calculate_timeEqual(ingress) ==
    IF ingress >= now THEN "PHC_IN_THE_PAST" ELSE "NO_ERROR"

fbclock_calculate_time(ingress) ==
    IF ingress > now THEN "PHC_IN_THE_PAST" ELSE "NO_ERROR"

Return(r, status) ==
    reader' = [reader EXCEPT ![r] = NewCall("idle", {}, reader[r].began, status)]

\* The rest of fbclock_gettime_tz. The PHC is read after the data.
Finish(r) ==
    LET b == reader[r].buf
        ingress == IngressTime(b["ingress_time"])
        bound == ErrorBound(b["error_bound"])
    IN  /\ reader[r].pc \in {"checked", "unchecked"}
        /\ IF bound = "zero" \/ ingress = 0 THEN Return(r, "NO_DATA")
           ELSE IF bound = "max" \/ Multiplier(b["holdover_multiplier"]) = "max"
           THEN Return(r, "WOU_TOO_BIG")
           ELSE \/ Return(r, "PTP_READ_OFFSET")
                \/ Return(r, fbclock_calculate_time(ingress))
        /\ UNCHANGED <<now, process, shm>>

-----------------------------------------------------------------------------
\* The ingress time comes from the PTP client, which read it from the same PHC.
Daemon ==
    \/ Run \/ Die \/ atomic_store
    \/ \E f \in Fields : StoreField(f)
    \/ \E ingress \in 0..now, w \in Windows : doWork(ingress, w)

Reader(r) ==
    fbclock_gettime_tz(r) \/ (\E f \in Fields : LoadField(r, f)) \/ atomic_load(r) \/ Finish(r)

Next == Clock \/ Daemon \/ \E r \in Readers : Reader(r)

Spec == Init /\ [][Next]_vars

\* The process that called fbclock_gettime runs; nothing is assumed of the daemon.
Fairness == \A r \in Readers : WF_vars(reader[r].pc # "idle" /\ Reader(r))

FairSpec == Spec /\ Fairness

-----------------------------------------------------------------------------
(* Properties *)

NotChecked == [checked |-> FALSE]

\* What a reader has loaded, for the register: nothing yet, or the fields it checked.
Loaded(r) ==
    CASE reader[r].pc = "checked" -> [f \in Covered |-> reader[r].buf[f]]
      [] reader[r].pc = "unchecked" -> NotChecked
      [] OTHER -> NoCrc

Register == INSTANCE FbclockRegister WITH
    Values <- {[f \in Covered |-> n] : n \in 1..MaxStores},
    Nothing <- NoCrc, Unchecked <- NotChecked,
    reg <- crc, loaded <- [r \in Readers |-> Loaded(r)]

\* fbclock_clockdata_load_data implements an atomic register, although it copies
\* while the daemon writes: data that matched the CRC is ingress time, error bound
\* and multiplier of one record, the one whose store had finished last when the
\* CRC was loaded, whenever the daemon dies and whatever it does after a restart.
RegisterSpec == Register!Spec

\* A call that begins after the first record was published never says NO_DATA:
\* no daemon that dies halfway or starts again takes the time away from the
\* clients, and neither does a copy that was never checked.
DataStays == \A r \in Readers : reader[r].began = "published" => reader[r].status # "NO_DATA"

\* A PHC that does not go back is never reported to: the ingress time of any data
\* a reader can get hold of, checked or not, is older than the PHC time it reads
\* after it.
NotInThePast == \A r \in Readers : reader[r].status # "PHC_IN_THE_PAST"

\* fbclock_gettime returns, even if the daemon died between memcpy and the CRC.
GettimeReturns == \A r \in Readers : (reader[r].pc # "idle") ~> (reader[r].pc = "idle")
=============================================================================
