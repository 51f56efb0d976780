------------------------------ MODULE HostCache ------------------------------
(***************************************************************************)
(* hcache.c: the table of addresses and host names behind -Hcache, and the *)
(* file it is read from and written to, over several runs of qstat.        *)
(*                                                                         *)
(* add_qserver looks up names (hcache_lookup_hostname) and, with -H,       *)
(* addresses (hcache_lookup_ipaddr); the file is written while servers are *)
(* added, and before the output.  A run may be killed at any time.         *)
(***************************************************************************)
EXTENDS Naturals, SequencesExt

CONSTANTS
  Hosts, Addresses,  \* names and addresses, with 0 for none
  Resolvers,         \* what gethostbyname and gethostbyaddr may know
  Files,             \* the cache files a first run may find
  MaxHostNames,      \* names of an entry, 5 in the code
  FirstEntries,      \* entries the table has room for at first, 100 in the code
  MaxEntries,        \* bound on the entries of a run
  MaxRuns            \* bound on the runs

Ips == Addresses \cup {0}
Lines == [ip : Addresses, names : Seq(Hosts)]

\* address: of a host, 0 if it is not known; names: all the names of an address,
\* the official one first; unlisted: the addresses gethostbyaddr fails for.
ResolverSets ==
  [address : [Hosts -> Ips], names : [Addresses -> Seq(Hosts)], unlisted : SUBSET Addresses]

ASSUME HostCacheAssumption ==
  /\ 0 \notin Addresses /\ Hosts # {}
  /\ MaxHostNames \in Nat \ {0} /\ FirstEntries \in Nat \ {0}
  /\ MaxEntries \in Nat /\ MaxRuns \in Nat \ {0}
  /\ Resolvers \subseteq ResolverSets
  /\ Files \subseteq Seq(Lines)

VARIABLES
  resolver,  \* the element of Resolvers this behaviour is about
  file,      \* the lines of the cache file
  toRead,    \* hcache_open: the lines not yet read
  hcache,    \* the table
  room,      \* max_entry
  changes,   \* n_changes
  runs,      \* runs started
  answer,    \* the last answer of a lookup
  answered,  \* history: <<host, address>> this run was told
  kept       \* history: those that the file should have

vars == <<resolver, file, toRead, hcache, room, changes, runs, answer, answered, kept>>

NoAnswer == [host |-> "none", ip |-> 0]

InitHostCache ==
  /\ resolver \in Resolvers /\ file \in Files
  /\ toRead = file /\ hcache = <<>> /\ room = 0 /\ changes = 0 /\ runs = 1
  /\ answer = NoAnswer /\ answered = {} /\ kept = {}

-----------------------------------------------------------------------------
\* The table.

\* The first entry that will do; 0 if there is none.
FindEntry(table, a) == SelectInSeq(table, LAMBDA e : e.ip = a)
FindHostEntry(table, host) ==
  SelectInSeq(table, LAMBDA e : \E k \in DOMAIN e.names : e.names[k] = host)

\* init_entry grows a full table whether or not it will add to it.
Grown(table) == IF Len(table) < room THEN room ELSE IF room = 0 THEN FirstEntries ELSE 2 * room

\* The slot init_entry fills: any name, known before or not.
WithName(e, host) == [e EXCEPT !.names = IF Len(@) < MaxHostNames THEN Append(@, host) ELSE @]

\* add_hostname
AddHostname(e, host) ==
  IF \E k \in DOMAIN e.names : e.names[k] = host THEN e ELSE WithName(e, host)
AddHostnames(e, hosts) == FoldLeft(AddHostname, e, hosts)
LineNames(e, hosts) == FoldLeft(WithName, e, hosts)

\* hcache_open, a line: the entry of the address, old or new, then the names,
\* through the pointer to it.  The table may grow in between (stale): what is
\* written then is lost if the table has moved.
LineEntry(table, a) == IF FindEntry(table, a) # 0 THEN table
                       ELSE Append(table, [ip |-> a, names |-> <<>>])
ReadLine ==
  /\ toRead # <<>>
  /\ LET line == toRead[1]
         table == LineEntry(hcache, line.ip)
         before == Grown(hcache)
         stale == line.names # <<>> /\ Len(table) = before
     IN /\ \E lost \in IF stale THEN BOOLEAN ELSE {FALSE} :
             hcache' = IF lost THEN table
                       ELSE [table EXCEPT ![FindEntry(table, line.ip)] = LineNames(@, line.names)]
        /\ room' = IF stale THEN 2 * before ELSE before
  /\ toRead' = Tail(toRead)
  /\ UNCHANGED <<resolver, file, changes, runs, answer, answered, kept>>

Answers(host, a) ==
  /\ answer' = [host |-> host, ip |-> a]
  /\ answered' = IF a = 0 \/ host = "none" THEN answered ELSE answered \cup {<<host, a>>}

\* hcache_lookup_hostname: a name that is in the table.  Of one that could not be
\* found the address is 0.
KnownHostname(host) ==
  /\ FindHostEntry(hcache, host) # 0
  /\ Answers(host, hcache[FindHostEntry(hcache, host)].ip)
  /\ UNCHANGED <<hcache, room, changes>>

\* Mutant: the names go to the entry that was freed.
ValidateFreed(table, host) ==
  LET new == Len(table)
      a == resolver.address[host]
      old == FindEntry(table, a)
  IN IF a = 0 THEN table
     ELSE IF old # 0
     THEN [table EXCEPT ![new] = AddHostnames([ip |-> 0, names |-> <<>>], resolver.names[a]),
                        ![old] = AddHostname(@, host)]
     ELSE [table EXCEPT ![new] = AddHostnames([@ EXCEPT !.ip = a], resolver.names[a])]

\* validate_entry for the last entry, which has a name and no address: it gets
\* one, or an entry that has the address gets the name and this one is freed.
ValidateHostname(table, host) ==
  LET new == Len(table)
      a == resolver.address[host]
      old == FindEntry(table, a)
  IN IF a = 0 THEN table
     ELSE IF old # 0
     THEN [table EXCEPT ![new] = [ip |-> 0, names |-> <<>>],
                        ![old] = AddHostnames(AddHostname(@, host), resolver.names[a])]
     ELSE [table EXCEPT ![new] = AddHostnames([@ EXCEPT !.ip = a], resolver.names[a])]

\* Mutant: not counted as a change.
NewHostnameUncounted(host) ==
  /\ FindHostEntry(hcache, host) = 0
  /\ Len(hcache) < MaxEntries
  /\ room' = Grown(hcache)
  /\ hcache' = ValidateHostname(Append(hcache, [ip |-> 0, names |-> <<host>>]), host)
  /\ Answers(host, resolver.address[host])
  /\ UNCHANGED changes

NewHostname(host) ==
  /\ FindHostEntry(hcache, host) = 0
  /\ Len(hcache) < MaxEntries
  /\ room' = Grown(hcache)
  /\ hcache' = ValidateHostname(Append(hcache, [ip |-> 0, names |-> <<host>>]), host)
  /\ changes' = changes + 1
  /\ Answers(host, resolver.address[host])

LookupHostname ==
  /\ toRead = <<>>
  /\ \E host \in Hosts : KnownHostname(host) \/ NewHostname(host)
  /\ UNCHANGED <<resolver, file, toRead, runs, kept>>

\* hcache_lookup_ipaddr answers with the first of the names; an address without
\* one stays in the table, and is not asked for again.
FirstName(e) == IF e.names = <<>> THEN "none" ELSE e.names[1]
ValidateAddress(table, a) ==
  IF a \in resolver.unlisted THEN table
  ELSE [table EXCEPT ![Len(table)] = AddHostnames(@, resolver.names[a])]

KnownAddress(a) ==
  /\ FindEntry(hcache, a) # 0
  /\ Answers(FirstName(hcache[FindEntry(hcache, a)]), a)
  /\ UNCHANGED <<hcache, room, changes>>

NewAddress(a) ==
  /\ FindEntry(hcache, a) = 0
  /\ Len(hcache) < MaxEntries
  /\ room' = Grown(hcache)
  /\ hcache' = ValidateAddress(Append(hcache, [ip |-> a, names |-> <<>>]), a)
  /\ changes' = changes + 1
  /\ Answers(FirstName(hcache'[Len(hcache')]), a)

LookupIpaddr ==
  /\ toRead = <<>>
  /\ \E a \in Addresses : KnownAddress(a) \/ NewAddress(a)
  /\ UNCHANGED <<resolver, file, toRead, runs, kept>>

-----------------------------------------------------------------------------
\* The file.

\* write_file: entries without an address are left out.
WriteLine(lines, e) == IF e.ip = 0 THEN lines ELSE Append(lines, e)
Written(table) == FoldLeft(WriteLine, <<>>, table)

\* hcache_update_file.  n_changes is never reset: once something has changed, the
\* file is written each time.
UpdateFile ==
  /\ toRead = <<>> /\ changes # 0
  /\ file' = Written(hcache)
  /\ kept' = kept \cup answered
  /\ UNCHANGED <<resolver, toRead, hcache, room, changes, runs, answer, answered>>

\* Another run starts.
Restarts ==
  /\ runs < MaxRuns
  /\ runs' = runs + 1
  /\ toRead' = file' /\ hcache' = <<>> /\ room' = 0 /\ changes' = 0
  /\ answer' = NoAnswer /\ answered' = {}
  /\ UNCHANGED resolver

\* The run comes to its end: hcache_update_file in finish_output.
Ends ==
  /\ toRead = <<>>
  /\ file' = IF changes = 0 THEN file ELSE Written(hcache)
  /\ kept' = kept \cup answered
  /\ Restarts

\* The run is killed.
Killed == UNCHANGED <<file, kept>> /\ Restarts

\* The run is killed while it writes: the file, opened with "w", has any number of
\* lines.  The last may be cut, and is then too short to be read ("line too long").
KilledWriting ==
  /\ toRead = <<>> /\ changes # 0
  /\ \E k \in 0 .. Len(Written(hcache)) : file' = SubSeq(Written(hcache), 1, k)
  /\ kept' = {}
  /\ Restarts

Next ==
  ReadLine \/ LookupHostname \/ LookupIpaddr \/ UpdateFile \/ Ends \/ Killed \/ KilledWriting

HostCacheSpec == InitHostCache /\ [][Next]_vars

-----------------------------------------------------------------------------
\* Properties.

\* The table: an address has one entry, whose names differ; there is room
\* (hcache.c:139).
HostCacheTypeOK ==
  /\ hcache \in Seq([ip : Ips, names : Seq(Hosts)])
  /\ Len(hcache) <= room /\ changes \in Nat /\ runs \in 1 .. MaxRuns
  /\ \A i \in DOMAIN hcache :
       /\ Len(hcache[i].names) <= MaxHostNames
       /\ IsInjective(hcache[i].names)
       /\ hcache[i].ip # 0 => FindEntry(hcache, hcache[i].ip) = i

\* A lookup answers what the resolver would, however often hosts and addresses
\* were looked up before, under whatever other names, and whatever run put them
\* into the file (hcache_lookup_hostname, hcache_lookup_ipaddr).
AnswersAsResolved ==
  answer.host # "none" => answer.ip = resolver.address[answer.host]

\* What a run was told is in the file after a run that ended, or that wrote it
\* before it was killed, and stays there in later runs ("Cache host name and IP
\* address resolutions", qstatdoc.html:914), as long as the entry has room for it.
FileKeeps ==
  \A pair \in kept :
    \E k \in DOMAIN file :
      /\ file[k].ip = pair[2]
      /\ \/ \E j \in DOMAIN file[k].names : file[k].names[j] = pair[1]
         \/ Len(file[k].names) = MaxHostNames
=============================================================================
