-------------------------------- MODULE Ddns --------------------------------
(***************************************************************************)
(* DdnsUpdaterService and PublicIpService: the daemon asks for its public   *)
(* address every five minutes and pushes it to a dynamic DNS provider when  *)
(* it changed, when an hour has passed and when the operator edits the      *)
(* configuration.  A push waits for its answer for seconds, so that those   *)
(* the timer, a rotation and an edit start may be under way together and    *)
(* overtake each other.  Time is counted in periods of the timer.           *)
(***************************************************************************)
EXTENDS Daemon

CONSTANTS
    Addresses,   \* addresses the provider of the line hands out
    Names,       \* values of ddns_hostname
    Pushes,      \* pushes that may be under way at a time
    Heartbeat    \* HEARTBEAT_MS, in periods

ASSUME DdnsAssumption ==
    /\ Null \notin Addresses
    /\ Null \notin Names
    /\ Heartbeat \in Nat \ {0}

VARIABLES
    address,     \* the address of the line
    ipSnapshot,  \* the public-ip snapshot
    hostname,    \* ddns_hostname; Null for no or an incomplete configuration
    lastPush,    \* last_pushed_ip and the age of last_pushed_at
    outbox,      \* the pushes under way
    dns,         \* the provider: what each name resolves to
    wrongFor     \* history: periods in a row a name was wrong for no reason

ddnsVars == <<address, ipSnapshot, hostname, lastPush, outbox, dns, wrongFor, crashes>>

NoPush == [at |-> "idle"]
Never == [ip |-> Null, age |-> Heartbeat]

DdnsInit ==
    /\ address \in Addresses
    /\ ipSnapshot = Null
    /\ hostname = Null
    /\ lastPush = Never
    /\ outbox = [p \in Pushes |-> NoPush]
    /\ dns = [n \in Names |-> Null]
    /\ wrongFor = 0
    /\ crashes = 0

-----------------------------------------------------------------------------

\* Mutation of Skips: no heartbeat.
SkipsForever(ip, last) == last.ip = ip

\* The same address, pushed less than an hour ago.
Skips(ip, last) == last.ip = ip /\ last.age < Heartbeat

\* tick() up to its call; nothing goes out without a name and an address.
Tick(name, ip, last) ==
    IF name = Null \/ ip = Null \/ Skips(ip, last)
    THEN UNCHANGED outbox
    ELSE \E p \in Pushes :
            /\ outbox[p].at = "idle"
            /\ outbox' = [outbox EXCEPT ![p] = [at |-> "out", name |-> name, ip |-> ip]]

Rotate ==
    /\ address' \in Addresses \ {address}
    /\ wrongFor' = 0
    /\ UNCHANGED <<ipSnapshot, hostname, lastPush, outbox, dns, crashes>>

\* refresh(): a rotation kicks a push, the first address does not.
RefreshIp ==
    /\ ipSnapshot' = address
    /\ IF ipSnapshot \notin {Null, address} THEN Tick(hostname, address, lastPush)
       ELSE UNCHANGED outbox
    /\ UNCHANGED <<address, hostname, lastPush, dns, wrongFor, crashes>>

\* An edit of the configuration kicks a push.
EditDdns ==
    /\ hostname' \in (Names \cup {Null}) \ {hostname}
    /\ Tick(hostname', ipSnapshot, lastPush)
    /\ wrongFor' = 0
    /\ UNCHANGED <<address, ipSnapshot, lastPush, dns, crashes>>

\* The button that tests a configuration, saved or not, reports its success.
RecordExternalPush(name) ==
    /\ ipSnapshot # Null
    /\ dns' = [dns EXCEPT ![name] = ipSnapshot]
    /\ lastPush' = [ip |-> ipSnapshot, age |-> 0]
    /\ wrongFor' = 0
    /\ UNCHANGED <<address, ipSnapshot, hostname, outbox, crashes>>

\* The timer; by then every push of the period before is over.
Wrong == hostname # Null /\ ipSnapshot = address /\ dns[hostname] # address

DdnsTimer ==
    /\ \A p \in Pushes : outbox[p].at = "idle"
    /\ lastPush' = [lastPush EXCEPT !.age = Older(@, Heartbeat)]
    /\ Tick(hostname, ipSnapshot, lastPush')
    /\ wrongFor' = IF Wrong THEN Older(wrongFor, Heartbeat + 2) ELSE 0
    /\ UNCHANGED <<address, ipSnapshot, hostname, dns, crashes>>

\* The provider takes the push, ...
Accept(p) ==
    /\ outbox[p].at = "out"
    /\ dns' = [dns EXCEPT ![outbox[p].name] = outbox[p].ip]
    /\ outbox' = [outbox EXCEPT ![p].at = "accepted"]
    /\ UNCHANGED <<address, ipSnapshot, hostname, lastPush, wrongFor, crashes>>

\* What a push leaves behind: only a happy one is remembered.
Recorded(push) ==
    IF push.at = "accepted" THEN [ip |-> push.ip, age |-> 0] ELSE lastPush

\* ... and its answer arrives.
PushAnswered(p) ==
    /\ outbox[p].at = "accepted"
    /\ lastPush' = Recorded(outbox[p])
    /\ outbox' = [outbox EXCEPT ![p] = NoPush]
    /\ UNCHANGED <<address, ipSnapshot, hostname, dns, wrongFor, crashes>>

\* The provider refuses, or push or answer are lost: nothing is remembered.
PushFails(p) ==
    /\ outbox[p].at # "idle"
    /\ lastPush' = Recorded([outbox[p] EXCEPT !.at = "failed"])
    /\ outbox' = [outbox EXCEPT ![p] = NoPush]
    /\ wrongFor' = 0
    /\ UNCHANGED <<address, ipSnapshot, hostname, dns, crashes>>

\* The configuration stays; what was pushed is forgotten.
CrashDdns ==
    /\ Dies
    /\ ipSnapshot' = Null
    /\ lastPush' = Never
    /\ outbox' = [p \in Pushes |-> NoPush]
    /\ wrongFor' = 0
    /\ UNCHANGED <<address, hostname, dns>>

DdnsNext ==
    \/ Rotate \/ RefreshIp \/ EditDdns \/ DdnsTimer
    \/ \E n \in Names : RecordExternalPush(n)
    \/ \E p \in Pushes : Accept(p) \/ PushAnswered(p) \/ PushFails(p)
    \/ CrashDdns

DdnsSpec == DdnsInit /\ [][DdnsNext]_ddnsVars

-----------------------------------------------------------------------------
(* Properties *)

DdnsType ==
    /\ ipSnapshot \in Addresses \cup {Null}
    /\ hostname \in Names \cup {Null}
    /\ lastPush \in [ip : Addresses \cup {Null}, age : 0..Heartbeat]
    /\ \A p \in Pushes : outbox[p].at \in {"idle", "out", "accepted"}
    /\ \A n \in Names : dns[n] \in Addresses \cup {Null}

\* Whatever overtakes what, and whatever name the operator tests or saves, a
\* name is wrong for at most the hour of the heartbeat once the address is
\* known, pushes that fail apart (ddns-updater.ts:10-13).
WrongForAnHour == wrongFor <= Heartbeat
=============================================================================
