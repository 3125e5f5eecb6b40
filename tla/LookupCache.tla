----------------------------- MODULE LookupCache -----------------------------
(***************************************************************************)
(* Labels for hop addresses: services/hostname_lookup.py (reverse DNS) and *)
(* services/asn_lookup.py (Team Cymru), which are one program twice.  Each *)
(* keeps answers, also negative ones, in a dictionary and in a table, and  *)
(* asks DNS for what neither has younger than a TTL.  Both are called by   *)
(* TreeService._recompute only, one call at a time.                        *)
(*                                                                         *)
(* Time.  An entry holds its age in ticks instead of looked_up_at, and a   *)
(* call the ticks since it took its "now".  Ages stop counting where no    *)
(* comparison tells them apart (Cap).                                      *)
(*                                                                         *)
(* The table.  Its rows are searched by CAST(ip AS VARCHAR) IN (...), and  *)
(* PostgreSQL writes an INET with its mask ("192.0.2.1/32"), so that no    *)
(* row is found by the text of its address.                                *)
(***************************************************************************)
EXTENDS Integers

CONSTANTS
  Ip,        \* hop addresses the lookup is made for
  Name,      \* host names, or autonomous systems
  NoName,    \* the answer None: nothing found, or a lookup that failed
  TTL,       \* the cache's TTL, in ticks
  CallTime   \* bound: ticks a call may take (lookups time out in seconds)

(* CAST(ip AS VARCHAR) of a stored INET: the address with its mask. *)
CastText(ip) == <<ip, "/32">>

ASSUME LookupAssumption ==
  /\ NoName \notin Name
  /\ \A ip \in Ip : CastText(ip) \notin Ip
  /\ TTL \in Nat \ {0} /\ CallTime \in Nat

VARIABLES
  dns,      \* what DNS has for each address
  cache,    \* _cache: address to [name, age]
  table,    \* ip_hostname_info or ip_asn_info
  pc,       \* where the call stands: "idle", "reading", "asking", "storing"
  callAge,  \* ticks since the call took "now"
  misses,   \* addresses of the call without an answer yet
  answers,  \* what gather has collected so far
  result,   \* what the call returns, when it is back at "idle"
  asked     \* history: age of this process's last lookup of an address

progress == <<callAge, misses, answers, result>>
vars == <<dns, cache, table, pc, callAge, misses, answers, result, asked>>

Cap == TTL + CallTime
Answer == Name \cup {NoName}

(* g with what f says put over it: dict.update, and ON CONFLICT DO UPDATE.  *)
Overlay(f, g) == [x \in DOMAIN f \cup DOMAIN g |-> IF x \in DOMAIN f THEN f[x] ELSE g[x]]

(* Mutant of Fresh: having found nothing holds for ever. *)
FreshOrNone(entry, elapsed) == entry.name = NoName \/ entry.age - elapsed < TTL

(* Fresh at the call's "now". *)
Fresh(entry, elapsed) == entry.age - elapsed < TTL

Init ==
  /\ dns \in [Ip -> Answer]
  /\ cache = <<>> /\ table = <<>>
  /\ pc = "idle"
  /\ callAge = 0 /\ misses = {} /\ answers = <<>> /\ result = <<>>
  /\ asked = [ip \in Ip |-> Cap]

-----------------------------------------------------------------------------
(* A call, up to the first await: answers that memory has are taken, and a  *)
(* call that misses none returns.                                           *)
Begin(ips) ==
  LET hits == {ip \in ips \cap DOMAIN cache : Fresh(cache[ip], 0)}
  IN  /\ pc = "idle"
      /\ result' = [ip \in hits |-> cache[ip].name]
      /\ misses' = ips \ hits
      /\ pc' = IF misses' = {} THEN "idle" ELSE "reading"
      /\ callAge' = 0
      /\ UNCHANGED <<dns, cache, table, answers, asked>>

(* The rows whose text is that of a missed address, and that are fresh. *)
FoundRows == {ip \in DOMAIN table : CastText(ip) \in misses /\ Fresh(table[ip], callAge)}

(* The query of the table: fresh rows are answers, and go into memory with  *)
(* the time they were looked up.                                            *)
ReadTable ==
  /\ pc = "reading"
  /\ result' = Overlay([ip \in FoundRows |-> table[ip].name], result)
  /\ cache' = Overlay([ip \in FoundRows |-> table[ip]], cache)
  /\ misses' = misses \ FoundRows
  /\ pc' = IF misses' = {} THEN "idle" ELSE "asking"
  /\ UNCHANGED <<dns, table, callAge, answers, asked>>

(* One of the lookups ends: DNS answers ... *)
LookUp(ip) ==
  /\ pc = "asking"
  /\ ip \in misses \ DOMAIN answers
  /\ answers' = Overlay([i \in {ip} |-> dns[ip]], answers)
  /\ UNCHANGED <<dns, cache, table, pc, callAge, misses, result, asked>>

(* ... or it fails or times out, which is an answer like having found none. *)
LookUpFails(ip) ==
  /\ pc = "asking"
  /\ ip \in misses \ DOMAIN answers
  /\ answers' = Overlay([i \in {ip} |-> NoName], answers)
  /\ UNCHANGED <<dns, cache, table, pc, callAge, misses, result, asked>>

NewEntries == [ip \in DOMAIN answers |-> [name |-> answers[ip], age |-> callAge]]

(* Mutant of Remember: failed lookups are not kept. *)
RememberFound ==
  /\ pc = "asking" /\ DOMAIN answers = misses
  /\ result' = Overlay(answers, result)
  /\ cache' = Overlay([ip \in {i \in misses : answers[i] # NoName} |-> NewEntries[ip]], cache)
  /\ asked' = Overlay([ip \in misses |-> callAge], asked)
  /\ pc' = "storing"
  /\ UNCHANGED <<dns, table, callAge, misses, answers>>

(* All of them have ended: memory first, without an await ... *)
Remember ==
  /\ pc = "asking" /\ DOMAIN answers = misses
  /\ result' = Overlay(answers, result)
  /\ cache' = Overlay(NewEntries, cache)
  /\ asked' = Overlay([ip \in misses |-> callAge], asked)
  /\ pc' = "storing"
  /\ UNCHANGED <<dns, table, callAge, misses, answers>>

(* ... then the table: INSERT ... ON CONFLICT DO UPDATE, and the commit. *)
Store ==
  /\ pc = "storing"
  /\ table' = Overlay(NewEntries, table)
  /\ pc' = "idle" /\ misses' = {} /\ answers' = <<>>
  /\ UNCHANGED <<dns, cache, callAge, result, asked>>

(* The database raises, in the query or in the upsert: so does the call,    *)
(* and with it the recompute.  Memory keeps what it has.                    *)
Raise ==
  /\ pc \in {"reading", "storing"}
  /\ pc' = "idle" /\ misses' = {} /\ answers' = <<>> /\ result' = <<>>
  /\ UNCHANGED <<dns, cache, table, callAge, asked>>

(* The backend is restarted: memory is empty.  What it had asked DNS for    *)
(* nobody can tell any more, the rows of the table included.                *)
Restart ==
  /\ cache' = <<>>
  /\ pc' = "idle" /\ callAge' = 0
  /\ misses' = {} /\ answers' = <<>> /\ result' = <<>>
  /\ asked' = [ip \in Ip |-> Cap]
  /\ UNCHANGED <<dns, table>>

Older(age) == IF age < Cap THEN age + 1 ELSE age
AllOlder(entries) == [ip \in DOMAIN entries |-> [entries[ip] EXCEPT !.age = Older(@)]]

Tick ==
  /\ pc # "idle" => callAge < CallTime
  /\ callAge' = IF pc = "idle" THEN 0 ELSE callAge + 1
  /\ cache' = AllOlder(cache) /\ table' = AllOlder(table)
  /\ asked' = [ip \in Ip |-> Older(asked[ip])]
  /\ UNCHANGED <<dns, pc, misses, answers, result>>

(* Somebody changes a record. *)
ChangeDns(ip) ==
  /\ \E n \in Answer : dns' = [dns EXCEPT ![ip] = n]
  /\ UNCHANGED <<cache, table, pc, progress, asked>>

Next ==
  \/ \E ips \in SUBSET Ip \ {{}} : Begin(ips)
  \/ ReadTable
  \/ \E ip \in Ip : LookUp(ip) \/ LookUpFails(ip)
  \/ Remember
  \/ Store
  \/ Raise
  \/ Restart
  \/ Tick
  \/ \E ip \in Ip : ChangeDns(ip)

(* Recomputes go on for as long as results come in, each address is part of *)
(* some of them, time passes, queries end, each lookup ends (it has a       *)
(* timeout), and those for one address do not fail every time.              *)
Fairness ==
  /\ \A ip \in Ip :
       /\ SF_vars(\E ips \in SUBSET Ip : ip \in ips /\ Begin(ips))
       /\ SF_vars(LookUp(ip))
       /\ WF_vars(LookUp(ip) \/ LookUpFails(ip))
  /\ WF_vars(ReadTable \/ Store \/ Raise)
  /\ WF_vars(Remember) /\ WF_vars(Tick)

Spec == Init /\ [][Next]_vars /\ Fairness

-----------------------------------------------------------------------------
(* One process does not ask DNS for an address again within the TTL,        *)
(* whatever DNS had said and however long it took: not when the lookup had  *)
(* failed, nor when the table could not be read or written and the          *)
(* recompute was lost with it.  (hostname_lookup.py:3-6 and                 *)
(* asn_lookup.py:7-9 promise it of the table too, across restarts, which    *)
(* the mask in its text defeats.)                                           *)
AskedRarely ==
  pc = "asking" => \A ip \in misses : asked[ip] - callAge >= TTL

(* A name that DNS comes to have is, once backend and database stay up,     *)
(* again and again what a recompute gets: no negative answer is kept for    *)
(* ever, whatever has failed before.                                        *)
NamesArrive ==
  \A ip \in Ip, n \in Name :
    <>[][~Restart /\ ~Raise]_vars /\ <>[](dns[ip] = n)
      => []<>(pc = "idle" /\ ip \in DOMAIN result /\ result[ip] = n)
=============================================================================
