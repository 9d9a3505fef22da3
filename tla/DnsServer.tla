------------------------------- MODULE DnsServer ------------------------------
(***************************************************************************)
(* The DNS server: its zones, its cache and its loop (dns_server.c,        *)
(* zone_manager.c, dns_cache.c, network_utils.c).                          *)
(*                                                                         *)
(* Names are model values.  Key[n] is the path of n in the cache's tree:   *)
(* names that differ in case have the same, and a name with a character    *)
(* outside the alphabet has none.  An answer is described by what it is    *)
(* an answer to and by when it was made.                                   *)
(***************************************************************************)
EXTENDS Naturals, Sequences, FiniteSets

CONSTANTS Names, Types,
          NoName,       \* no name, or no path
          Key,          \* Key[n]: path of the name, or NoName
          Cut,          \* Cut[n]: the first 7 characters of n
          Origin,       \* the name of the zone
          Lines,        \* the lines of the zone file
          TTL,          \* seconds that an entry lives (60)
          MaxClock      \* bound on the time

ASSUME DnsAssumption ==
    /\ NoName \notin Names /\ Origin \in Names
    /\ Key \in [Names -> Names \union {NoName}] /\ Cut \in [Names -> Names \union {NoName}]
    /\ TTL \in Nat /\ MaxClock \in Nat

VARIABLES place,        \* "recv", "forward" while the upstream server is asked, or "stopped"
          query,        \* the query at hand
          answers,      \* what was sent to its sender
          cache,        \* cache[k]: the entry with path k
          clock

dnsVars == <<place, query, answers, cache, clock>>

-----------------------------------------------------------------------------
(* The zone file.  A line has a name (or begins with a space, is empty, a comment or
   $TTL), and the type of a record (or is something else: nothing, or part of an SOA). *)

(* A name is kept for the lines without one, but not more than 7 characters of it:
   last_domain is cut at the size of a pointer. *)
parse_zone_line(at, line) ==
    LET name == CASE line.name = "" -> at.last_domain
                  [] line.name = "@" -> Origin
                  [] OTHER -> line.name
    IN
    [last_domain |-> IF line.name = "" THEN at.last_domain ELSE Cut[name],
     records |-> IF line.type = "other" THEN at.records
                 ELSE at.records \union {<<name, line.type>>}]

(* What the first n lines have made. *)
load_zone_from_file ==
    LET after[n \in 0 .. Len(Lines)] ==
            IF n = 0 THEN [last_domain |-> Origin, records |-> {}]
            ELSE parse_zone_line(after[n - 1], Lines[n])
    IN  after[Len(Lines)].records

Records == load_zone_from_file

-----------------------------------------------------------------------------
(* The cache: an entry has the answer and the time at which it expires. *)

NoEntry == [answer |-> NoName, expires_at |-> 0]

cache_insert(name, answer) ==
    IF Key[name] = NoName THEN cache
    ELSE [cache EXCEPT ![Key[name]] = [answer |-> answer, expires_at |-> clock + TTL]]

(* A mutation of Expired: the entry lives one second longer. *)
ExpiredLate(k) == cache[k] # NoEntry /\ clock > cache[k].expires_at

Expired(k) == cache[k] # NoEntry /\ clock >= cache[k].expires_at

cache_lookup(name) ==
    IF Key[name] = NoName THEN NoEntry
    ELSE IF Expired(Key[name]) THEN NoEntry ELSE cache[Key[name]]

(* An expired entry that was looked up is no longer one. *)
Forgotten(name) ==
    IF Key[name] = NoName THEN cache
    ELSE [cache EXCEPT ![Key[name]] = IF Expired(Key[name]) THEN NoEntry ELSE @]

-----------------------------------------------------------------------------
(* The loop *)

Queries == [name : Names, type : Types]
Made(from, q) == [from |-> from, name |-> q.name, type |-> q.type, at |-> clock, sent |-> clock]
Again(a) == [from |-> "cache", name |-> a.name, type |-> a.type, at |-> a.at, sent |-> clock]

DnsInit ==
    /\ place = "recv" /\ query = [name |-> NoName, type |-> NoName] /\ answers = {}
    /\ cache = [k \in Names |-> NoEntry]
    /\ clock = 0

(* A record with the type, or any with the name if the type is 255. *)
handle_local_zone_query(q) == 
    {r \in Records : r[1] = q.name /\ (q.type = r[2] \/ q.type = "any")}

(* A query that is answered from the cache is looked up in the zones and forwarded all
   the same. *)
Query(q) ==
    LET entry == cache_lookup(q.name)
        cached == IF entry = NoEntry THEN {} ELSE {Again(entry.answer)}
        local == {Made("local", [name |-> r[1], type |-> r[2]]) : r \in handle_local_zone_query(q)}
    IN
    /\ place = "recv"
    /\ query' = q
    /\ cache' = Forgotten(q.name)
    /\ IF local # {}
       THEN (\E a \in local : answers' = cached \union {a}) /\ UNCHANGED place
       ELSE answers' = cached /\ place' = "forward"
    /\ UNCHANGED clock

(* forward_to_upstream: an answer within two seconds, or none. *)
Forwarded ==
    /\ place = "forward"
    /\ cache' = cache_insert(query.name, Made("upstream", query))
    /\ answers' = answers \union {Made("upstream", query)}
    /\ place' = "recv"
    /\ UNCHANGED <<query, clock>>

NotForwarded ==
    /\ place = "forward"
    /\ place' = "recv"
    /\ UNCHANGED <<query, answers, cache, clock>>

Tick ==
    /\ place # "stopped" /\ clock < MaxClock /\ clock' = clock + 1
    /\ UNCHANGED <<place, query, answers, cache>>

(* SIGINT or SIGTERM ends the process; the cache is gone with it. *)
DnsStops ==
    /\ place # "stopped"
    /\ place' = "stopped" /\ cache' = [k \in Names |-> NoEntry] /\ answers' = {}
    /\ UNCHANGED <<query, clock>>

DnsNext == (\E q \in Queries : Query(q)) \/ Forwarded \/ NotForwarded \/ Tick \/ DnsStops

-----------------------------------------------------------------------------
(* Properties *)

(* An answer from the cache is an answer that the upstream server gave to a query for
   the same name, up to case, less than TTL seconds before it is used. *)
CachedIsFresh ==
    \A a \in answers :
        a.from = "cache" => Key[a.name] = Key[query.name] /\ a.sent < a.at + TTL
=============================================================================
