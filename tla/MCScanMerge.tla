----------------------------- MODULE MCScanMerge -----------------------------
(* Instances of ScanMerge for TLC.  A key is a byte string; the one-byte  *)
(* keys <<1>> .. <<5>> stand for "1" .. "5", two regions split at "3".     *)
EXTENDS ScanMerge

MCKeys == {<<i>> : i \in 1..5}
MCRegions == {[lo |-> <<1>>, hi |-> <<3>>], [lo |-> <<3>>, hi |-> <<6>>]}

\* The range ["2", "5"), starting inside one region and ending inside the other.
MCRanges == {[start |-> <<2>>, end |-> <<5>>]}

(* Every snapshot, and every buffer over the keys of the range; the keys *)
(* "1" and "5" just outside it are always buffered as Put, so a scan that *)
(* took a buffered key outside [start, end) would return it.              *)
MCServerChoices == SUBSET MCKeys
MCBufferChoices == {b \in [MCKeys -> BufTypes] : b[<<1>>] = "Put" /\ b[<<5>>] = "Put"}

(* Regions with gaps: ["1","4") and ["5","7"); "4" and "7" have no      *)
(* region.  The range ["2","8") starts inside the first region, meets the *)
(* second only after a gap (the scanner starts at the region's start, not *)
(* at next_key) and ends in a gap (the lookup answers NotFound).  The     *)
(* server holds keys of regions only.  The keys "2" and "3" of the first *)
(* region take every mutation type; "1" before the range and "7" in the  *)
(* final gap are buffered Puts, "4", "5", "6" are not buffered.          *)
GapKeys == {<<i>> : i \in 1..7}
GapRegions == {[lo |-> <<1>>, hi |-> <<4>>], [lo |-> <<5>>, hi |-> <<7>>]}
GapRanges == {[start |-> <<2>>, end |-> <<8>>]}
GapServerChoices == SUBSET {k \in GapKeys : \E reg \in GapRegions : InRange(k, reg.lo, reg.hi)}
GapBufferChoices == {b \in [GapKeys -> BufTypes] : /\ b[<<1>>] = "Put" /\ b[<<7>>] = "Put"
                                                  /\ \A k \in {<<4>>, <<5>>, <<6>>} : b[k] = "None"}

\* Scenario S4 of spec.md (a = "1", b = "2", c = "3", d = "4"; scan [a, d)).
S4Ranges == {[start |-> <<1>>, end |-> <<4>>]}
S4Server == {{<<1>>, <<3>>, <<4>>}}
S4Buffer == {[k \in MCKeys |-> CASE k = <<2>> -> "Put" [] k = <<3>> -> "Delete" [] OTHER -> "None"]}

\* Only the server's data; the buffer is empty.
EmptyBufferChoices == {EmptyBuffer(MCKeys)}

(* Two ranges whose keys in scan_states_ are equal: ["a", "bb") and        *)
(* ["ab", "b") both give "abb" (a = 1, b = 2).  Keys "a", "aa", "ab", "b". *)
CollideKeys == {<<1>>, <<1, 1>>, <<1, 2>>, <<2>>}
CollideRanges == {[start |-> <<1>>, end |-> <<2, 2>>], [start |-> <<1, 2>>, end |-> <<2>>]}
CollideRegions == {[lo |-> <<1>>, hi |-> <<3>>]}
CollideServerChoices == SUBSET CollideKeys
CollideBufferChoices == {EmptyBuffer(CollideKeys)}
=============================================================================
