------------------------------ MODULE ScanMerge ------------------------------
(***************************************************************************)
(* Transaction::TxnImpl::Scan and ProcessScanState (txn_impl.cc lines     *)
(* 322-492): a resumable range scan that streams the server's snapshot    *)
(* region by region, page by page, and merges the transaction's buffered  *)
(* mutations into it.  The caller scans the ranges of Ranges by repeated  *)
(* calls with the limit Limit (a uint64_t; Scan accepts 0).  A scan's    *)
(* state is kept between calls in scan_states_, under the key            *)
(* start_key + end_key, and                                               *)
(* erased when next_key reaches end_key.                                  *)
(*                                                                         *)
(* Keys are std::strings: sequences of bytes (naturals >= 1), compared    *)
(* byte by byte; the empty sequence is the empty string.  A value is      *)
(* abstracted to where it came from: <<"S", k>> is the server's value of  *)
(* k, <<"B", k>> the value buffered for k.  The region scanner and the    *)
(* meta cache are not part of this repository; NextBatch, HasMore and     *)
(* LookupRegionBetweenRange are modelled from spec.md sections 4.2 and 6. *)
(***************************************************************************)
EXTENDS Naturals, SequencesExt, TxnBuffer

CONSTANTS
    Keys,           \* user keys: non-empty byte strings
    Ranges,         \* the ranges the caller scans: [start, end] records
    Limit,          \* the limit of every call
    Regions,        \* the regions: a partition of the key space into [lo, hi)
    PageSize,       \* the number of kvs NextBatch returns at most
    MaxFaults,      \* bound on failed NextBatch calls
    ServerChoices,  \* the snapshots the server may hold: sets of keys
    BufferChoices   \* the buffers the transaction may hold

(* std::string's operator<: byte by byte, a proper prefix first. *)
RECURSIVE KeyLt(_, _)
KeyLt(a, b) ==
    CASE b = <<>> -> FALSE
      [] a = <<>> -> TRUE
      [] Head(a) = Head(b) -> KeyLt(Tail(a), Tail(b))
      [] OTHER -> Head(a) < Head(b)

KeyLe(a, b) == a = b \/ KeyLt(a, b)

InRange(k, lo, hi) == KeyLe(lo, k) /\ KeyLt(k, hi)

ASSUME Limit \in Nat /\ PageSize \in Nat \ {0}
ASSUME \A r \in Ranges : r.start # <<>> /\ KeyLt(r.start, r.end)
ASSUME \A r \in Regions : KeyLt(r.lo, r.hi)
ASSUME \A r1, r2 \in Regions : r1 # r2 => KeyLe(r1.hi, r2.lo) \/ KeyLe(r2.hi, r1.lo)

VARIABLES
    server,     \* the keys with a value in the snapshot at start_ts
    buffer,     \* buffer_ (see TxnBuffer), fixed during the scans
    scanStates, \* scan_states_: state key -> [nextKey, muts, pend, po, scanner]
    callPc,     \* "Idle" between calls, "Loop" inside Scan's while loop
    callRange,  \* the range of the running call
    out,        \* out_kvs of the running call
    got,        \* got[r]: the entries of the calls on r that returned OK
    faults,     \* failed NextBatch calls and region lookups so far
    finished,   \* finished[r]: a call on r returned after erasing its state
    fatal       \* a CHECK failed

vars == <<server, buffer, scanStates, callPc, callRange, out, got, faults,
          finished, fatal>>

NoScanner == [lo |-> <<>>, hi |-> <<>>, end |-> <<>>, from |-> <<>>, more |-> FALSE]
MovedKey == <<>>    \* a std::string after std::move: empty, below every key

ServerVal(k) == <<"S", k>>
BufVal(k) == <<"B", k>>
KV == [key : Keys, val : {ServerVal(k) : k \in Keys} \cup {BufVal(k) : k \in Keys}]
Mutation == [key : Keys, type : BufTypes \ {"None"}]

\* The key of range r in scan_states_: start_key + end_key.
StateKey(r) == r.start \o r.end

\* The state of the running call's range.
St == scanStates[StateKey(callRange)]

TypeOK ==
    /\ server \subseteq Keys
    /\ buffer \in [Keys -> BufTypes]
    /\ DOMAIN scanStates \subseteq {StateKey(r) : r \in Ranges}
    /\ \A sk \in DOMAIN scanStates :
          /\ scanStates[sk].muts \in Seq(Mutation)
          /\ scanStates[sk].pend \in Seq(KV)
          /\ scanStates[sk].po \in 0..PageSize
    /\ callPc \in {"Idle", "Loop"} /\ callRange \in Ranges
    /\ out \in Seq(KV) /\ got \in [Ranges -> Seq(KV)]
    /\ faults \in 0..MaxFaults
    /\ finished \in [Ranges -> BOOLEAN] /\ fatal \in BOOLEAN

-----------------------------------------------------------------------------
(* The buffer's Range(start, end): its mutations in [lo, hi), key order. *)
BufRange(b, lo, hi) ==
    LET ks == SetToSortSeq({k \in BufKeys(b) : InRange(k, lo, hi)}, KeyLt)
    IN  [i \in DOMAIN ks |-> [key |-> ks[i], type |-> b[ks[i]]]]

(* The routing cache (spec.md 4.2).  Regions are disjoint but need not  *)
(* cover the key space: a key outside every region has no region yet.    *)
(* LookupRegionBetweenRange(lo, hi) answers the first region in key      *)
(* order overlapping [lo, hi), or NotFound when none does.               *)
Overlapping(lo, hi) == {reg \in Regions : KeyLt(reg.lo, hi) /\ KeyLt(lo, reg.hi)}

LookupRegionBetweenRange(lo, hi) ==
    CHOOSE reg \in Overlapping(lo, hi) : \A o \in Overlapping(lo, hi) : KeyLe(reg.lo, o.lo)

\* A lookup or a NextBatch fails with an error (at most MaxFaults of them).
Fault == faults < MaxFaults /\ faults' = faults + 1

(* ProcessScanState: the pending kvs pk from pending_offset p on, merged with  *)
(* local_mutations from mutations_offset = 0, appended to out_kvs until   *)
(* Limit.  Three loops of the code are three recursive operators: Merge  *)
(* is the while loop over pending kvs, SkipMutations the do-while loop   *)
(* over mutations below the server key, LimitOrGo the check at the end of *)
(* an iteration.  The result is [po, out, fatal].                         *)
RECURSIVE Merge(_, _, _, _, _), LimitOrGo(_, _, _, _, _), SkipMutations(_, _, _, _, _, _, _)

\* Mutant of LimitOrGo: the limit is tested with > instead of ==.
LimitOrGoPastLimit(pk, p, ms, m, o) ==
    IF Len(o) > Limit THEN [po |-> p, out |-> o, fatal |-> FALSE]
    ELSE Merge(pk, p, ms, m, o)

LimitOrGo(pk, p, ms, m, o) ==
    IF Len(o) = Limit THEN [po |-> p, out |-> o, fatal |-> FALSE]
    ELSE Merge(pk, p, ms, m, o)

(* Mutant of SkipMutations: the key is moved out of kv before the entry *)
(* is built from it.                                                     *)
SkipMutationsMovedFirst(pk, p, ms, m, o, kvKey, mu) ==
    LET pushed == mu.type = "PutIfAbsent"
        o1 == IF pushed THEN Append(o, [key |-> MovedKey, val |-> BufVal(mu.key)]) ELSE o
        key1 == IF pushed THEN MovedKey ELSE kvKey
    IN  CASE Len(o1) = Limit -> [po |-> p, out |-> o1, fatal |-> FALSE]
          [] m + 1 < Len(ms) /\ KeyLt(ms[m + 2].key, key1) -> SkipMutations(pk, p, ms, m + 1, o1, key1, mu)
          [] OTHER -> LimitOrGo(pk, p, ms, m + 1, o1)

(* The do-while loop, with mutation bound once to local_mutations at the *)
(* offset the loop started from; pushing {std::move(kv.key), value} moves *)
(* the key out of kv, so the loop condition then compares an empty key.  *)
SkipMutations(pk, p, ms, m, o, kvKey, mu) ==
    LET pushed == mu.type = "PutIfAbsent"
        o1 == IF pushed THEN Append(o, [key |-> kvKey, val |-> BufVal(mu.key)]) ELSE o
        key1 == IF pushed THEN MovedKey ELSE kvKey
    IN  CASE Len(o1) = Limit -> [po |-> p, out |-> o1, fatal |-> FALSE]
          [] m + 1 < Len(ms) /\ KeyLt(ms[m + 2].key, key1) -> SkipMutations(pk, p, ms, m + 1, o1, key1, mu)
          [] OTHER -> LimitOrGo(pk, p, ms, m + 1, o1)

Merge(pk, p, ms, m, o) ==
    IF p >= Len(pk) THEN [po |-> p, out |-> o, fatal |-> FALSE]
    ELSE LET kv == pk[p + 1]
         IN  IF m >= Len(ms)
             THEN LimitOrGo(pk, p + 1, ms, m, Append(o, kv))
             ELSE LET mu == ms[m + 1]
                  IN  CASE kv.key = mu.key /\ mu.type = "Delete" -> Merge(pk, p + 1, ms, m, o)
                        [] kv.key = mu.key /\ mu.type = "Put" ->
                              LimitOrGo(pk, p + 1, ms, m + 1, Append(o, [key |-> kv.key, val |-> BufVal(mu.key)]))
                        [] kv.key = mu.key -> [po |-> p + 1, out |-> o, fatal |-> TRUE]
                        [] KeyLt(kv.key, mu.key) -> LimitOrGo(pk, p + 1, ms, m, Append(o, kv))
                        [] OTHER -> SkipMutations(pk, p + 1, ms, m, o, kv.key, mu)

ProcessScanState(pk, p, ms) == Merge(pk, p, ms, 0, <<>>)

\* After ProcessScanState: next_key = out_kvs.back().key when out_kvs is non-empty.
NextKeyAfter(nk, o) == IF o = <<>> THEN nk ELSE o[Len(o)].key

(* A call on r returns: OK with its entries, or an error with none (the  *)
(* caller uses out_kvs only when the status is OK).                      *)
Return(r, o) ==
    /\ callPc' = "Idle"
    /\ out' = <<>>
    /\ got' = [got EXCEPT ![r] = @ \o o]

\* The running call's scan state becomes st.
SetSt(st) == scanStates' = [scanStates EXCEPT ![StateKey(callRange)] = st]

-----------------------------------------------------------------------------
\* Scan(r) after a successful lookup: the scan state and its pending kvs.
ScanCallFound(r) ==
    /\ callRange' = r
    /\ LET sk == StateKey(r)
           st == IF sk \in DOMAIN scanStates THEN scanStates[sk]
                 ELSE [nextKey |-> r.start, muts |-> BufRange(buffer, r.start, r.end),
                       pend |-> <<>>, po |-> 0, scanner |-> NoScanner]
       IN  IF st.po < Len(st.pend)
           THEN LET res == ProcessScanState(st.pend, st.po, st.muts)
                IN  /\ scanStates' = (sk :> [st EXCEPT !.po = res.po,
                                                       !.nextKey = NextKeyAfter(st.nextKey, res.out)])
                                     @@ scanStates
                    /\ fatal' = res.fatal
                    /\ IF Len(res.out) = Limit /\ ~res.fatal
                       THEN Return(r, res.out)
                       ELSE callPc' = "Loop" /\ out' = res.out /\ UNCHANGED got
           ELSE /\ scanStates' = (sk :> st) @@ scanStates
                /\ callPc' = "Loop" /\ out' = <<>>
                /\ UNCHANGED <<fatal, got>>

(* Scan(r), up to its while loop.  The region lookup between start and  *)
(* end returns its error, or NotFound where no region overlaps, before   *)
(* anything changes.  Otherwise the state is looked up under the key     *)
(* start_key + end_key and created when absent (next_key = start, the    *)
(* buffer's range); pending kvs left by a call that stopped at the limit *)
(* are processed first.                                                   *)
ScanCall(r) ==
    /\ callPc = "Idle" /\ ~finished[r] /\ ~fatal
    /\ \/ /\ faults < MaxFaults \/ Overlapping(r.start, r.end) = {}
          /\ faults' = IF Overlapping(r.start, r.end) = {} THEN faults ELSE faults + 1
          /\ UNCHANGED <<scanStates, callPc, callRange, out, got, fatal>>
       \/ /\ Overlapping(r.start, r.end) # {}
          /\ ScanCallFound(r)
          /\ UNCHANGED faults
    /\ UNCHANGED <<server, buffer, finished>>

\* Mutant of OpenScanner: the scanner starts at the region's start, not max(next_key, region start).
OpenScannerRegionStart(st, reg) ==
    LET to == IF KeyLe(callRange.end, reg.hi) THEN callRange.end ELSE reg.hi
    IN  [st EXCEPT !.scanner = [lo |-> reg.lo, hi |-> reg.hi, end |-> to, from |-> reg.lo, more |-> TRUE]]

(* A scanner on region reg for the call's range: [max(next_key, region *)
(* start), min(end, region end)).                                          *)
OpenScanner(st, reg) ==
    LET from == IF KeyLe(st.nextKey, reg.lo) THEN reg.lo ELSE st.nextKey
        to == IF KeyLe(callRange.end, reg.hi) THEN callRange.end ELSE reg.hi
    IN  [st EXCEPT !.scanner = [lo |-> reg.lo, hi |-> reg.hi, end |-> to, from |-> from, more |-> TRUE]]

(* No scanner: look up a region between next_key and end.  An error     *)
(* ends the call with it; NotFound moves next_key to end_key, skipping   *)
(* the rest of the range; a region gets a scanner.                        *)
ScanOpen ==
    /\ callPc = "Loop" /\ ~fatal
    /\ LET st == St
           regs == Overlapping(st.nextKey, callRange.end)
       IN  /\ KeyLt(st.nextKey, callRange.end)
           /\ st.scanner = NoScanner
           /\ \/ /\ Fault
                 /\ Return(callRange, <<>>)
                 /\ UNCHANGED scanStates
              \/ /\ regs = {}
                 /\ SetSt([st EXCEPT !.nextKey = callRange.end])
                 /\ UNCHANGED <<callPc, out, got, faults>>
              \/ /\ regs # {}
                 /\ SetSt(OpenScanner(st, LookupRegionBetweenRange(st.nextKey, callRange.end)))
                 /\ UNCHANGED <<callPc, out, got, faults>>
    /\ UNCHANGED <<server, buffer, callRange, finished, fatal>>

(* The server keys NextBatch returns next: those from the scanner's from  *)
(* on, below its end, at most PageSize of them.                           *)
Batch(sc) == LET rest == SetToSortSeq({k \in server : KeyLe(sc.from, k) /\ KeyLt(k, sc.end)}, KeyLt)
                IN  SubSeq(rest, 1, IF Len(rest) < PageSize THEN Len(rest) ELSE PageSize)

\* The smallest key above k: the scanner resumes after the last key it returned.
KeyAfter(k) == k \o <<0>>

\* Mutant of ScanNextBatch: an empty page does not break out of the page loop.
ScanNextBatchNoBreak ==
    /\ callPc = "Loop" /\ ~fatal
    /\ LET st == St
           b == Batch(st.scanner)
       IN  /\ KeyLt(st.nextKey, callRange.end)
           /\ st.scanner # NoScanner /\ st.scanner.more
           /\ \/ /\ Fault
                 /\ Return(callRange, <<>>)
                 /\ UNCHANGED <<scanStates, fatal>>
              \/ /\ b = <<>>
                 /\ UNCHANGED <<scanStates, callPc, out, got, faults, fatal>>
              \/ /\ b # <<>>
                 /\ LET page == [i \in DOMAIN b |-> [key |-> b[i], val |-> ServerVal(b[i])]]
                        last == b[Len(b)]
                        res == Merge(page, 0, st.muts, 0, out)
                    IN  /\ \E more \in {TRUE, \E k \in server : KeyLt(last, k) /\ KeyLt(k, st.scanner.end)} :
                              SetSt([st EXCEPT !.pend = page, !.po = res.po,
                                               !.nextKey = NextKeyAfter(st.nextKey, res.out),
                                               !.scanner = [st.scanner EXCEPT !.from = KeyAfter(last), !.more = more]])
                        /\ fatal' = res.fatal
                        /\ IF Len(res.out) = Limit /\ ~res.fatal
                           THEN Return(callRange, res.out)
                           ELSE out' = res.out /\ UNCHANGED <<callPc, got>>
                 /\ UNCHANGED faults
    /\ UNCHANGED <<server, buffer, callRange, finished>>

(* One NextBatch of the inner while loop, and the ProcessScanState of    *)
(* the page it returns; an empty page ends the region.  A failed         *)
(* NextBatch returns the error and leaves the state as it is.            *)
ScanNextBatch ==
    /\ callPc = "Loop" /\ ~fatal
    /\ LET st == St
           b == Batch(st.scanner)
       IN  /\ KeyLt(st.nextKey, callRange.end)
           /\ st.scanner # NoScanner /\ st.scanner.more
           /\ \/ /\ Fault
                 /\ Return(callRange, <<>>)
                 /\ UNCHANGED <<scanStates, fatal>>
              \/ /\ b = <<>>
                 /\ SetSt([st EXCEPT !.scanner.more = FALSE])
                 /\ UNCHANGED <<callPc, out, got, faults, fatal>>
              \/ /\ b # <<>>
                 /\ LET page == [i \in DOMAIN b |-> [key |-> b[i], val |-> ServerVal(b[i])]]
                        last == b[Len(b)]
                        res == Merge(page, 0, st.muts, 0, out)
                    IN  /\ \E more \in {TRUE, \E k \in server : KeyLt(last, k) /\ KeyLt(k, st.scanner.end)} :
                              SetSt([st EXCEPT !.pend = page, !.po = res.po,
                                               !.nextKey = NextKeyAfter(st.nextKey, res.out),
                                               !.scanner = [st.scanner EXCEPT !.from = KeyAfter(last), !.more = more]])
                        /\ fatal' = res.fatal
                        /\ IF Len(res.out) = Limit /\ ~res.fatal
                           THEN Return(callRange, res.out)
                           ELSE out' = res.out /\ UNCHANGED <<callPc, got>>
                 /\ UNCHANGED faults
    /\ UNCHANGED <<server, buffer, callRange, finished>>

\* The region is exhausted: next_key moves to the region's end and the scanner closes.
ScanClose ==
    /\ callPc = "Loop" /\ ~fatal
    /\ LET st == St
       IN  /\ KeyLt(st.nextKey, callRange.end)
           /\ st.scanner # NoScanner /\ ~st.scanner.more
           /\ SetSt([st EXCEPT !.nextKey = st.scanner.hi, !.scanner = NoScanner])
    /\ UNCHANGED <<server, buffer, callPc, callRange, out, got, faults, finished, fatal>>

(* next_key reached end_key: the state under start_key + end_key is      *)
(* erased and the call returns OK.                                        *)
ScanFinish ==
    /\ callPc = "Loop" /\ ~fatal
    /\ KeyLe(callRange.end, St.nextKey)
    /\ scanStates' = [sk \in DOMAIN scanStates \ {StateKey(callRange)} |-> scanStates[sk]]
    /\ finished' = [finished EXCEPT ![callRange] = TRUE]
    /\ Return(callRange, out)
    /\ UNCHANGED <<server, buffer, callRange, faults, fatal>>

\* The caller stops once every range is scanned, or the process aborted.
Stopped == ((\A r \in Ranges : finished[r]) \/ fatal) /\ UNCHANGED vars

Init ==
    /\ server \in ServerChoices
    /\ buffer \in BufferChoices
    /\ scanStates = [sk \in {} |-> NoScanner]
    /\ callPc = "Idle"
    /\ callRange = CHOOSE r \in Ranges : TRUE
    /\ out = <<>> /\ got = [r \in Ranges |-> <<>>]
    /\ faults = 0
    /\ finished = [r \in Ranges |-> FALSE] /\ fatal = FALSE

Next == (\E r \in Ranges : ScanCall(r)) \/ ScanOpen \/ ScanNextBatch \/ ScanClose
        \/ ScanFinish \/ Stopped

Spec == Init /\ [][Next]_vars

(* The caller keeps calling Scan until every range is exhausted, and     *)
(* each call runs its loop to a return: no step of Scan blocks for ever. *)
FairSpec ==
    /\ Spec
    /\ WF_vars(\E r \in Ranges : ScanCall(r))
    /\ WF_vars(ScanOpen \/ ScanNextBatch \/ ScanClose \/ ScanFinish)

-----------------------------------------------------------------------------
(* The merge rule of spec.md section 4.6, as a reference: server entries *)
(* s and buffered mutations b in key order; a buffered Put or            *)
(* PutIfAbsent is read with its buffered value, a buffered Delete hides  *)
(* the key, and buffered keys the server does not have are returned too. *)
RECURSIVE RefMerge(_, _)
RefMerge(s, b) ==
    LET Emit(mu) == IF mu.type = "Delete" THEN <<>>
                    ELSE <<[key |-> mu.key, val |-> BufVal(mu.key)]>>
        Srv(k) == <<[key |-> k, val |-> ServerVal(k)]>>
    IN  CASE s = <<>> /\ b = <<>> -> <<>>
          [] s = <<>> -> Emit(Head(b)) \o RefMerge(s, Tail(b))
          [] b = <<>> -> Srv(Head(s)) \o RefMerge(Tail(s), b)
          [] KeyLt(Head(b).key, Head(s)) -> Emit(Head(b)) \o RefMerge(s, Tail(b))
          [] Head(b).key = Head(s) -> Emit(Head(b)) \o RefMerge(Tail(s), Tail(b))
          [] OTHER -> Srv(Head(s)) \o RefMerge(Tail(s), b)

ScanKeys(sq) == [i \in DOMAIN sq |-> sq[i].key]

-----------------------------------------------------------------------------
(* Properties.                                                             *)

(* Spec.md section 8.2 for the region, paging and resume logic of Scan:  *)
(* over all the calls on a range [a, b), the keys returned (and those    *)
(* pushed by a running call on it) are strictly increasing and lie in    *)
(* [a, b), across region boundaries, page boundaries, limit stops,       *)
(* failed NextBatch calls and the scans of other ranges.                  *)
ScanOrderedInRange ==
    \A r \in Ranges :
        LET ks == ScanKeys(got[r] \o (IF callPc = "Loop" /\ callRange = r THEN out ELSE <<>>))
        IN  \A i \in DOMAIN ks : /\ InRange(ks[i], r.start, r.end)
                                 /\ i > 1 => KeyLt(ks[i - 1], ks[i])

(* Spec.md section 8.2, for every limit L: no call of Scan returns more  *)
(* than L entries, whether it stops in the pending kvs of the last call, *)
(* in a new page, or at the end; the == limit checks of ProcessScanState *)
(* and Scan must stop every call in time.                                 *)
ScanWithinLimit == [][\A r \in Ranges : Len(got'[r]) - Len(got[r]) <= Limit]_vars

(* A caller that keeps calling Scan eventually exhausts every range (or  *)
(* the process aborts): the region loop and the page loop terminate.     *)
ScanCompletes == <>((\A r \in Ranges : finished[r]) \/ fatal)

(* Spec.md section 4.6 and scenario S4: the entries of a finished scan   *)
(* are the reference merge of the snapshot and the buffered mutations.   *)
ScanMatchesReference ==
    \A r \in Ranges :
        finished[r] => got[r] = RefMerge(SetToSortSeq({k \in server : InRange(k, r.start, r.end)}, KeyLt),
                                         BufRange(buffer, r.start, r.end))

=============================================================================
