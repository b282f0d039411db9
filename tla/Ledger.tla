------------------------------- MODULE Ledger -------------------------------
(***************************************************************************)
(* The transparency ledger the server keeps (attest/tlog.py): entries      *)
(* chained by hash, appended by the attestation endpoint of any job on any *)
(* thread of the endpoint pool, with no lock, and rewritten whole to one   *)
(* file after each append.  A hash is modelled by what it is the hash of,  *)
(* so that two hashes are equal exactly when their contents are.           *)
(***************************************************************************)
EXTENDS Naturals, Sequences, SequencesExt

CONSTANTS Workers,      \* the threads of the pool that serve the endpoint
          Zero,         \* the hash before the first entry
          MaxAppends    \* bound: submissions explored

VARIABLES
  entries,     \* LocalLedger.entries, shared by the threads
  file,        \* the file: the entries in it; Unreadable when it does not parse
  thread,      \* where each thread is in submit(), and its locals
  submitted    \* submissions made so far (the bound)

lvars == <<entries, file, thread, submitted>>

Unreadable == << >>     \* json.load raises: __init__ keeps an empty chain
Idle == [at |-> "idle"]

(* entry_hash: the canonical core of the entry, of which prev_hash is part. *)
EntryHash(e) == [index |-> e.index, verdict |-> e.verdict, prev |-> e.prev]

LastHash == IF entries = << >> THEN Zero ELSE EntryHash(Last(entries))

LInit == /\ entries = << >>
         /\ file = << >>
         /\ thread = [w \in Workers |-> Idle]
         /\ submitted = 0

(* A request reaches append: the hash of the last entry is read ...        *)
ReadPrev(w) ==
  /\ thread[w] = Idle
  /\ submitted < MaxAppends
  /\ submitted' = submitted + 1
  /\ thread' = [thread EXCEPT ![w] = [at |-> "index", verdict |-> submitted,
                                      prev |-> LastHash]]
  /\ UNCHANGED <<entries, file>>

(* ... then the length of the list, ...                                    *)
ReadIndex(w) ==
  /\ thread[w].at = "index"
  /\ thread' = [thread EXCEPT ![w] =
                  [at |-> "append", verdict |-> @.verdict, prev |-> @.prev,
                   index |-> Len(entries)]]
  /\ UNCHANGED <<entries, file, submitted>>

(* ... and the entry made of the two is appended.                          *)
AppendEntry(w) ==
  /\ thread[w].at = "append"
  /\ entries' = Append(entries, EntryHash(thread[w]))
  /\ thread' = [thread EXCEPT ![w] = [at |-> "open"]]
  /\ UNCHANGED <<file, submitted>>

(* _save: open(path, "w") empties the file, ...                            *)
OpenFile(w) ==
  /\ thread[w].at = "open"
  /\ file' = Unreadable
  /\ thread' = [thread EXCEPT ![w] = [at |-> "dump"]]
  /\ UNCHANGED <<entries, submitted>>

(* ... json.dump renders the list of the moment into the buffer, ...       *)
DumpEntries(w) ==
  /\ thread[w].at = "dump"
  /\ thread' = [thread EXCEPT ![w] = [at |-> "close", buffer |-> entries]]
  /\ UNCHANGED <<entries, file, submitted>>

(* ... and leaving the block writes it at the start of the file: over a    *)
(* longer text, whose tail remains.                                        *)
CloseFile(w) ==
  /\ thread[w].at = "close"
  /\ file' = IF Len(file) > Len(thread[w].buffer) THEN Unreadable
                                                  ELSE thread[w].buffer
  /\ thread' = [thread EXCEPT ![w] = Idle]
  /\ UNCHANGED <<entries, submitted>>

(* The process is replaced: __init__ loads what the file holds.            *)
Restart ==
  /\ entries' = file
  /\ thread' = [w \in Workers |-> Idle]
  /\ UNCHANGED <<file, submitted>>

LNext == \/ \E w \in Workers : \/ ReadPrev(w)
                               \/ ReadIndex(w)
                               \/ AppendEntry(w)
                               \/ OpenFile(w)
                               \/ DumpEntries(w)
                               \/ CloseFile(w)
         \/ Restart

LSpec == LInit /\ [][LNext]_lvars

-----------------------------------------------------------------------------
(* verify_chain: each entry names the hash of the one before it.           *)
ChainIntact(es) ==
  \A i \in 1..Len(es) :
    es[i].prev = IF i = 1 THEN Zero ELSE EntryHash(es[i - 1])

(* Nothing here edits an entry, so "prev_hash links to the previous entry" *)
(* (tlog.py:38) and the inclusion-proof endpoint always finds the chain    *)
(* intact.                                                                 *)
UntamperedChainIntact == ChainIntact(entries)
=============================================================================
