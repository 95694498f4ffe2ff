------------------------------ MODULE RdrTable ------------------------------
(***************************************************************************)
(* What the daemon expects of every firewall backend (commonrdr.h): a      *)
(* table with at most one mapping for an external port and protocol.  A    *)
(* request touches the row of its own key only; one that answers 0 did     *)
(* what it was asked; one that fails leaves the row as it was, or gone, or *)
(* as asked (the pass rule was refused).  A quiet backend does not report  *)
(* a deletion that failed, alone or as a part of an update, and keeps the  *)
(* old description when a mapping is renewed.  A mapping that is there is  *)
(* renewed by the same host for the same remote host only; a literal       *)
(* backend writes "every remote host" as an address and does not know a    *)
(* mapping open to all of them again.  A restart of the daemon             *)
(* keeps the mappings and loses what the kernel does not hold of them.     *)
(***************************************************************************)
EXTENDS Integers

CONSTANTS Keys, NoRow

VARIABLES table,    \* the row of each key
          reply,    \* the last request and its answer: [op, key, want, r]
          quiet,    \* the backend is a quiet one
          literal   \* the backend is a literal one

vars == <<table, reply, quiet, literal>>

Init ==
  /\ table = [k \in Keys |-> NoRow]
  /\ reply.op = "none"
  /\ quiet \in BOOLEAN /\ literal \in BOOLEAN

(* the request renews the mapping that is there *)
Same(row, want) ==
  /\ row.iaddr = want.iaddr /\ row.rhost = want.rhost
  /\ literal => want.rhost # 0

(* other rows are not touched *)
Leaves(k, rows) ==
  \E row \in rows : table' = [table EXCEPT ![k] = row]

(* the old rule of a quiet backend, with the new expiry *)
Stayed(k) == IF quiet THEN {[table[k] EXCEPT !.ts = reply'.want.ts]} ELSE {}

Redirect(k) ==
  LET want == reply'.want IN
  /\ reply'.op = "redirect" /\ reply'.key = k
  /\ \/ /\ reply'.r = 0
        /\ table[k] = NoRow \/ Same(table[k], want)
        /\ Leaves(k, {want} \cup Stayed(k))
     \/ /\ reply'.r = -1
        /\ Leaves(k, {table[k], NoRow, want} \cup Stayed(k))
     \/ /\ reply'.r = -2
        /\ table[k] # NoRow /\ ~Same(table[k], want)
        /\ Leaves(k, {table[k]})

Delete(k) ==
  /\ reply'.op = "delete" /\ reply'.key = k
  /\ Leaves(k, IF reply'.r # 0 THEN {table[k], NoRow}
               ELSE IF quiet THEN {table[k], NoRow} ELSE {NoRow})

Restart ==
  /\ reply'.op = "none"
  /\ DOMAIN table' = Keys
  /\ \A k \in Keys : \/ table[k] = NoRow /\ table'[k] = NoRow
                     \/ /\ table[k] # NoRow
                        /\ table'[k].rhost = table[k].rhost
                        /\ table'[k].iaddr = table[k].iaddr
                        /\ table'[k].iport = table[k].iport
                        /\ table'[k].desc \in {table[k].desc, "none"}
                        /\ table'[k].ts = 0

Next ==
  /\ UNCHANGED <<quiet, literal>>
  /\ Restart \/ \E k \in Keys : Redirect(k) \/ Delete(k)

Spec == Init /\ [][Next]_vars
=============================================================================
