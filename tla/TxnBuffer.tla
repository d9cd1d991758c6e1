------------------------------ MODULE TxnBuffer ------------------------------
(***************************************************************************)
(* The write buffer of a transaction (sdk/transaction/txn_buffer), which   *)
(* txn_impl.cc delegates Put, PutIfAbsent and Delete to.  Its code is not  *)
(* part of this repository; it is modelled from spec.md section 4.1.  A    *)
(* buffer is a function from keys to the buffered mutation type, "None"    *)
(* for a key with no entry; the value written is abstracted away (a       *)
(* transaction's value is the transaction itself).  The primary key is     *)
(* the first key ever inserted and stays fixed afterwards.                 *)
(***************************************************************************)

BufTypes == {"None", "Put", "PutIfAbsent", "Delete"}

EmptyBuffer(K) == [k \in K |-> "None"]

\* The keys with an entry (Mutations()).
BufKeys(b) == {k \in DOMAIN b : b[k] # "None"}

BufIsEmpty(b) == BufKeys(b) = {}

BufPut(b, k) == [b EXCEPT ![k] = "Put"]

\* PutIfAbsent is a no-op on a key buffered as Put or PutIfAbsent, and
\* turns a buffered Delete into a Put.
BufPutIfAbsent(b, k) ==
    CASE b[k] = "None" -> [b EXCEPT ![k] = "PutIfAbsent"]
      [] b[k] = "Delete" -> [b EXCEPT ![k] = "Put"]
      [] OTHER -> b

BufDelete(b, k) == [b EXCEPT ![k] = "Delete"]

\* The primary key after inserting k into b whose primary was pk.
BufPrimaryAfter(b, pk, k) == IF BufIsEmpty(b) THEN k ELSE pk

=============================================================================
