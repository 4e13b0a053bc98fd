------------------------------ MODULE HostTrust ------------------------------
(***************************************************************************)
(* Trust in SSH host keys and the onboarding of a server: the known_hosts  *)
(* functions of internal/servers/helpers.go, internal/servers/onboarding.go*)
(* and server_onboarding.go.                                               *)
(*                                                                         *)
(* The application writes one known_hosts file and reads others.  A line   *)
(* names hosts as they are spelled; an IP address has several spellings,   *)
(* the library compares the text and the application adds what it knows of *)
(* equal addresses.  Onboarding shows the operator a fingerprint, checks   *)
(* the host over SSH with it, and trusts the key and adds the server only  *)
(* at the end; meanwhile others trust and clear keys, hosts change theirs, *)
(* and the shared key is replaced.  Ports are part of a host here, hashed  *)
(* and patterned lines are left out, and every write of the file is one    *)
(* step because it holds knownHostsMu and ends in a rename.                *)
(***************************************************************************)
EXTENDS Naturals, FiniteSets

CONSTANTS
    Requests,
    Hosts,       \* hosts as they are spelled
    Canonical,   \* the spelling the application writes, by host
    Addresses,   \* the hosts that are IP addresses
    Keys,
    Stores,      \* the known_hosts files a run may start with: written and others
    MaxOps       \* bound: requests, rotations and replacements of the shared key

VARIABLES
    file,     \* the lines of the known_hosts file that is written
    others,   \* those of the files that are only read
    hostKey,  \* the key each host presents, by canonical spelling
    shared,   \* the present shared key
    servers,  \* the endpoints of the inventory
    req,
    ops

vars == <<file, others, hostKey, shared, servers, req, ops>>

NoRequest == [pc |-> "idle", host |-> CHOOSE h \in Hosts : TRUE, print |-> 0, lines |-> {},
              create |-> FALSE, global |-> FALSE, cred |-> 0, key |-> 0]

Init ==
    /\ \E s \in Stores : file = s.file /\ others = s.others
    /\ hostKey = [h \in {Canonical[x] : x \in Hosts} |-> 1]
    /\ shared = 1
    /\ servers = {}
    /\ req = [r \in Requests |-> NoRequest]
    /\ ops = 0

-----------------------------------------------------------------------------
(* Reading known_hosts.                                                    *)

Lines == file \cup others

RevokedAll(ls) == {l.key : l \in {x \in ls : x.revoked}}

\* The library: a revoked key is refused for every host, otherwise a line with
\* the host's very spelling decides.
Textual(ls, h) == {l.key : l \in {x \in ls : ~x.revoked /\ h \in x.hosts}}

\* loadKnownHostsCanonicalIPKeys: lines that name addresses only, under every
\* spelling of them.
CanonicalKeys(ls, h) ==
    {l.key : l \in {x \in ls : /\ ~x.revoked
                               /\ x.hosts \subseteq Addresses
                               /\ \E y \in x.hosts : Canonical[y] = Canonical[h]}}
      \ RevokedAll(ls)

\* HostKeyCallback: what it says of a key.
HostKeyCallback(ls, h, key) ==
    IF key \in RevokedAll(ls) THEN "revoked"
    ELSE IF Textual(ls, h) # {} THEN IF key \in Textual(ls, h) THEN "ok" ELSE "changed"
    ELSE IF h \in Addresses /\ key \in CanonicalKeys(ls, h) THEN "ok" ELSE "unknown"

\* OnboardingHostKeyCallback: the confirmed key, of a host that is trusted with
\* it or not known under any spelling.
OnboardingHostKeyCallback(ls, h, print, key) ==
    /\ key = print
    /\ \/ HostKeyCallback(ls, h, key) = "ok"
       \/ /\ HostKeyCallback(ls, h, key) = "unknown"
          /\ ~(h \in Addresses /\ CanonicalKeys(ls, h) # {})

\* The keys with which a connection to the host would be made.
Trusted(ls, h) == {k \in Keys : HostKeyCallback(ls, h, k) = "ok"}

Spellings(h) == {x \in Hosts : Canonical[x] = Canonical[h]}

-----------------------------------------------------------------------------
(* Writing known_hosts.                                                    *)

Line(h, key) == [hosts |-> {Canonical[h]}, key |-> key, revoked |-> FALSE]

\* Every spelling of the host leaves every line, a line without hosts goes; the
\* mark of a revocation stands where the hosts are looked for and keeps it.
WithoutHost(ls, h) ==
    LET kept(l) == {x \in l.hosts : Canonical[x] # Canonical[h]}
    IN {l \in ls : l.revoked}
         \cup {[l EXCEPT !.hosts = kept(l)] : l \in {x \in ls : ~x.revoked /\ kept(x) # {}}}

ReplaceKnownHostLine(h, key) ==
    IF Line(h, key) \in file THEN file ELSE WithoutHost(file, h) \cup {Line(h, key)}

-----------------------------------------------------------------------------
(* The requests.                                                           *)

Spend == ops < MaxOps /\ ops' = ops + 1

At(r, pc) == req[r].pc = pc

Becomes(r, q) == req' = [req EXCEPT ![r] = q]

Present(r) == hostKey[Canonical[req[r].host]]

\* TrustHostKey: the host is scanned, its key compared with the fingerprint the
\* operator was shown, the line replaced.
TrustHostKey(r, h, print) ==
    /\ At(r, "idle")
    /\ Spend
    /\ IF hostKey[Canonical[h]] = print
       THEN Becomes(r, [NoRequest EXCEPT !.pc = "trust", !.host = h, !.key = print])
       ELSE UNCHANGED req
    /\ UNCHANGED <<file, others, hostKey, shared, servers>>

Trust(r) ==
    /\ At(r, "trust")
    /\ file' \in {ReplaceKnownHostLine(req[r].host, req[r].key), file}  \* the write may fail
    /\ Becomes(r, NoRequest)
    /\ UNCHANGED <<others, hostKey, shared, servers, ops>>

ClearKnownHost(h) ==
    /\ Spend
    /\ file' = WithoutHost(file, h)
    /\ UNCHANGED <<others, hostKey, shared, servers, req>>

\* verify: one of two slots, and prepare, which refuses an endpoint that is in
\* the inventory and resolves the shared key if the draft asks for it.
Begin(r, h, print, create, global) ==
    /\ At(r, "idle")
    /\ Spend
    /\ Cardinality({x \in Requests : req[x].pc \notin {"idle", "trust"}}) < 2
    /\ Canonical[h] \notin servers
    /\ Becomes(r, [NoRequest EXCEPT !.pc = "open", !.host = h, !.print = print,
                       !.lines = Lines, !.create = create, !.global = global,
                       !.cred = IF global THEN shared ELSE 0])
    /\ UNCHANGED <<file, others, hostKey, shared, servers>>

\* The connection, with the trust that was read when it was prepared.
Open(r) ==
    /\ At(r, "open")
    /\ IF OnboardingHostKeyCallback(req[r].lines, req[r].host, req[r].print, Present(r))
       THEN Becomes(r, [req[r] EXCEPT !.pc = "check", !.lines = {}])
       ELSE Becomes(r, NoRequest)
    /\ UNCHANGED <<file, others, hostKey, shared, servers, ops>>

\* The five checks: one that fails, or runs out of time, ends the request, and
\* so does a shared key that is no longer the one that was used.
Check(r, ready) ==
    /\ At(r, "check")
    /\ IF ready /\ req[r].create /\ (req[r].global => shared = req[r].cred)
       THEN Becomes(r, [req[r] EXCEPT !.pc = "scan", !.cred = 0])
       ELSE Becomes(r, NoRequest)
    /\ UNCHANGED <<file, others, hostKey, shared, servers, ops>>

Scan(r) ==
    /\ At(r, "scan")
    /\ Becomes(r, [req[r] EXCEPT !.pc = "pin", !.key = Present(r)])
    /\ UNCHANGED <<file, others, hostKey, shared, servers, ops>>

\* Mutant: the checked connection is taken for proof that the host is new.
PinUnread(r) ==
    /\ At(r, "pin")
    /\ IF req[r].key = req[r].print
       THEN /\ file' = file \cup {Line(req[r].host, req[r].key)}
            /\ Becomes(r, [req[r] EXCEPT !.pc = "create"])
       ELSE Becomes(r, NoRequest) /\ UNCHANGED file
    /\ UNCHANGED <<others, hostKey, shared, servers, ops>>

\* pinOnboardingHostKey under the lock: trust is read again, the line appended
\* unless it is there; the write may fail.
Pin(r) ==
    /\ At(r, "pin")
    /\ \/ /\ OnboardingHostKeyCallback(Lines, req[r].host, req[r].print, req[r].key)
          /\ file' = file \cup {Line(req[r].host, req[r].key)}
          /\ Becomes(r, [req[r] EXCEPT !.pc = "create"])
       \/ Becomes(r, NoRequest) /\ UNCHANGED file
    /\ UNCHANGED <<others, hostKey, shared, servers, ops>>

\* CreateServer, which looks for the endpoint again under the inventory's lock.
Create(r) ==
    /\ At(r, "create")
    /\ servers' = servers \cup {Canonical[req[r].host]}
    /\ Becomes(r, NoRequest)
    /\ UNCHANGED <<file, others, hostKey, shared, ops>>

-----------------------------------------------------------------------------
(* What happens meanwhile.                                                 *)

Rotate(h, key) ==
    /\ Spend
    /\ hostKey' = [hostKey EXCEPT ![Canonical[h]] = key]
    /\ UNCHANGED <<file, others, shared, servers, req>>

ReplaceShared ==
    /\ Spend
    /\ shared' = shared + 1
    /\ UNCHANGED <<file, others, hostKey, servers, req>>

Delete(e) ==
    /\ Spend
    /\ e \in servers
    /\ servers' = servers \ {e}
    /\ UNCHANGED <<file, others, hostKey, shared, req>>

Onboard(r) ==
    \/ \E h \in Hosts, print \in Keys, create, global \in BOOLEAN :
         Begin(r, h, print, create, global)
    \/ Open(r) \/ Scan(r) \/ Pin(r) \/ Create(r)
    \/ \E ready \in BOOLEAN : Check(r, ready)

Next ==
    \/ \E r \in Requests : Onboard(r) \/ Trust(r)
    \/ \E r \in Requests, h \in Hosts, print \in Keys : TrustHostKey(r, h, print)
    \/ \E h \in Hosts : ClearKnownHost(h)
    \/ \E h \in Hosts, key \in Keys : Rotate(h, key)
    \/ \E e \in servers : Delete(e)
    \/ ReplaceShared

Spec == Init /\ [][Next]_vars

-----------------------------------------------------------------------------

PinsWhatIsNew ==
    (\E r \in Requests : req[r].pc = "pin" /\ req'[r] # req[r]) =>
      \A h \in Hosts : Trusted(Lines, h) # {} =>
        /\ Trusted(Lines, h) \subseteq Trusted(Lines', h)
        /\ Trusted(Lines', h) \subseteq UNION {Trusted(Lines, x) : x \in Spellings(h)}

\* Adding a server never replaces trust: whatever was trusted, cleared or
\* presented while it was being checked, a step of an onboarding leaves a known
\* host every key it is trusted with, and gives it none it was not trusted with
\* under one of its spellings (OnboardingHostKeyCallback, pinOnboardingHostKey).
OnboardingKeepsTrust == [][PinsWhatIsNew]_vars
====
