------------------------------- MODULE Naming -------------------------------
(***************************************************************************)
(* The life of the connector process as the naming service sees it: the    *)
(* start-up steps that may fail, the vote on the internet address, the     *)
(* ticker that publishes the process in the redis hash go-servers every    *)
(* second, and the deferred UnregisterNamingService, which runs when       *)
(* newService returns, that is at start-up and never at the end.           *)
(*                                                                         *)
(* The hash survives the process, which may be restarted.  What the        *)
(* resolvers answer, whether redis takes a command and whether the memory  *)
(* statistics can be read is left open.                                    *)
(***************************************************************************)
EXTENDS Naturals, FiniteSets, SequencesExt

CONSTANTS Resolvers,   \* Config.IpResolver
          Addresses,   \* internet addresses
          Empty,       \* the empty string
          Failed,      \* http.Get returned an error
          MaxRestarts  \* bound: restarts of the process

ASSUME NamingAssumption ==
    /\ IsFiniteSet(Resolvers)
    /\ IsFiniteSet(Addresses)
    /\ Empty # Failed
    /\ {Empty, Failed} \cap Addresses = {}
    /\ MaxRestarts \in Nat

VARIABLES
    main,     \* place of main (and of the package initialisers before it)
    answers,  \* what the resolvers said in the last vote
    cached,   \* cachedInternetAddress
    ticker,   \* the publishing goroutine: "off", "idle" or "sampled"
    hash,     \* keys of the redis hash go-servers
    restarts  \* bound

vars == <<main, answers, cached, ticker, hash, restarts>>

Ended == {"failed", "panicked", "crashed", "exited"}

TypeOK ==
    /\ main \in Ended \cup {"init", "listen", "resolve", "discover",
                            "unregister", "serving", "closing"}
    /\ answers \in [Resolvers -> Addresses \cup {Empty, Failed}]
    /\ cached \in Addresses \cup {Empty}
    /\ ticker \in {"off", "idle", "sampled"}
    /\ hash \in SUBSET Addresses
    /\ restarts \in 0..MaxRestarts

Init ==
    /\ main = "init"
    /\ answers = [r \in Resolvers |-> Failed]
    /\ cached = Empty
    /\ ticker = "off"
    /\ hash = {}
    /\ restarts = 0

-----------------------------------------------------------------------------
\* ParseConfig and the public key, in the package initialiser of token.go.
ConfigAccepted ==
    /\ main = "init"
    /\ main' = "listen"
    /\ UNCHANGED <<answers, cached, ticker, hash, restarts>>

\* An unreadable or incomplete configuration exits, a bad key panics.
ConfigRejected ==
    /\ main = "init"
    /\ main' = "failed"
    /\ UNCHANGED <<answers, cached, ticker, hash, restarts>>

Listens ==
    /\ main = "listen"
    /\ main' = "resolve"
    /\ UNCHANGED <<answers, cached, ticker, hash, restarts>>

\* net.ListenTCP fails: Start returns ErrAddress and main returns.
ListenFails ==
    /\ main = "listen"
    /\ main' = "failed"
    /\ UNCHANGED <<answers, cached, ticker, hash, restarts>>

\* extractIp: the first address in the body, the empty string when there is
\* none, or an error.
Sayings == Addresses \cup {Empty, Failed}

\* The votes: a resolver that answers votes, with an address or without; one
\* that cannot be reached does not.
IpVotes(said) ==
    [ip \in {said[r] : r \in Resolvers} \ {Failed} |->
        Cardinality({r \in Resolvers : said[r] = ip})]

\* A loop that keeps the last address it meets.
Mutant_TopIpKeepsLast(said, order) ==
    IF order = <<>> THEN Empty ELSE order[Len(order)]

\* The loop of resolveIp over the map of votes, in the order it is met.
TopIp(said, order) ==
    LET votes == IpVotes(said)
        top == FoldLeft(LAMBDA t, ip : IF t.vote < votes[ip]
                                       THEN [vote |-> votes[ip], ip |-> ip]
                                       ELSE t,
                        [vote |-> 0, ip |-> Empty], order)
    IN  top.ip

\* RegisterNamingService asks for the address, the first call of
\* getInternetAddress, and starts the ticker.
Resolves(said, order) ==
    /\ main = "resolve"
    /\ answers' = said
    /\ TopIp(said, order) # Empty
    /\ cached' = TopIp(said, order)
    /\ ticker' = "idle"
    /\ main' = "discover"
    /\ UNCHANGED <<hash, restarts>>

\* panic("no available dns").
ResolvePanics(said, order) ==
    /\ main = "resolve"
    /\ answers' = said
    /\ TopIp(said, order) = Empty
    /\ main' = "panicked"
    /\ UNCHANGED <<cached, ticker, hash, restarts>>

\* initHeartBeat, initMessageConsumer and the first round of the discovery,
\* which waits for redis.
Discovers ==
    /\ main = "discover"
    /\ main' = "unregister"
    /\ UNCHANGED <<answers, cached, ticker, hash, restarts>>

\* newService returns: the deferred UnregisterNamingService deletes the key,
\* or the command fails unnoticed; then the server starts.
Unregisters(withdrawn) ==
    /\ main = "unregister"
    /\ hash' = hash \ withdrawn
    /\ main' = "serving"
    /\ UNCHANGED <<answers, cached, ticker, restarts>>

-----------------------------------------------------------------------------
Alive == main \notin Ended /\ ticker # "off"

\* The ticker fires: the statistics are collected.
Samples ==
    /\ Alive
    /\ ticker = "idle"
    /\ ticker' = "sampled"
    /\ UNCHANGED <<main, answers, cached, hash, restarts>>

\* mem.VirtualMemory fails: the error is logged and the nil result used, and
\* nothing recovers the panic of this goroutine.
SampleCrashes ==
    /\ Alive
    /\ ticker = "idle"
    /\ ticker' = "off"
    /\ main' = "crashed"
    /\ UNCHANGED <<answers, cached, hash, restarts>>

\* getInternetAddress once the address is cached.
InternetAddress == {cached}

\* A timer where the ticker should be: f runs once.
Mutant_PublishesOnce(key) ==
    /\ Alive
    /\ ticker = "sampled"
    /\ hash' = hash \cup {key}
    /\ ticker' = "off"
    /\ UNCHANGED <<main, answers, cached, restarts>>

\* HSet.
Publishes(key) ==
    /\ Alive
    /\ ticker = "sampled"
    /\ hash' = hash \cup {key}
    /\ ticker' = "idle"
    /\ UNCHANGED <<main, answers, cached, restarts>>

\* HSet fails; its error is not looked at.
PublishFails ==
    /\ Alive
    /\ ticker = "sampled"
    /\ ticker' = "idle"
    /\ UNCHANGED <<main, answers, cached, hash, restarts>>

-----------------------------------------------------------------------------
\* A signal, or the server stopped by itself.  The ticker runs on.
ServerStops ==
    /\ main = "serving"
    /\ main' = "closing"
    /\ UNCHANGED <<answers, cached, ticker, hash, restarts>>

\* WaitClients has returned and the last second has been slept.
Exits ==
    /\ main = "closing"
    /\ main' = "exited"
    /\ ticker' = "off"
    /\ UNCHANGED <<answers, cached, hash, restarts>>

\* The process is started again, from outside.
Restarts ==
    /\ main \in Ended
    /\ restarts < MaxRestarts
    /\ restarts' = restarts + 1
    /\ main' = "init"
    /\ cached' = Empty
    /\ ticker' = "off"
    /\ UNCHANGED <<answers, hash>>

StartUp ==
    \/ ConfigAccepted
    \/ ConfigRejected
    \/ Listens
    \/ ListenFails
    \/ \E said \in [Resolvers -> Sayings] :
        \E order \in SetToSeqs(DOMAIN IpVotes(said)) :
            Resolves(said, order) \/ ResolvePanics(said, order)
    \/ Discovers
    \/ \E withdrawn \in {{}} \cup {{k} : k \in InternetAddress} : Unregisters(withdrawn)

Publish == (\E key \in InternetAddress : Publishes(key))

Next ==
    \/ StartUp
    \/ Samples
    \/ SampleCrashes
    \/ Publish
    \/ PublishFails
    \/ ServerStops
    \/ Exits
    \/ Restarts

\* The ticker's goroutine runs, and of infinitely many commands redis takes
\* infinitely many.  Start-up owes nothing: http.Get has no timeout.
Spec == Init /\ [][Next]_vars /\ WF_vars(Samples) /\ SF_vars(Publish)

-----------------------------------------------------------------------------
\* The answer resolveIp settles on has as many votes as any other, in whatever
\* order the map of votes is met: the address a process goes by, and the
\* empty answer when it gives up with "no available dns".  (So it may give up
\* although some resolver knew an address, but only when at least as many
\* answered without one.)
PluralityWins ==
    LET votes == IpVotes(answers)
        won == IF main = "panicked" THEN Empty ELSE cached
    IN  main = "panicked" \/ cached # Empty =>
            \A ip \in DOMAIN votes : won \in DOMAIN votes /\ votes[ip] <= votes[won]

\* The withdrawal at start-up may come after the first publications and
\* undo them; a process that goes on serving is nevertheless in the hash
\* from some moment on, because the ticker publishes again.
ServingIsAdvertised == <>[](main = "serving" => cached \in hash)
=============================================================================
