----------------------------- MODULE Listeners ------------------------------
(***************************************************************************)
(* The two listeners of the server and REHASH (src/server.go, src/main.go).*)
(* A reload, by the goroutine of a client or by the one that waits for     *)
(* SIGHUP, reads the configuration and puts a token in a channel of each   *)
(* listener.  A listener looks into its channel between two connections    *)
(* only: it waits in Accept meanwhile, and the reload waits when there is  *)
(* a token in the channel already.  Of the configuration the model has the *)
(* certificate, which is what a listener reads of it.                      *)
(***************************************************************************)
EXTENDS Naturals

CONSTANTS
    Callers,   \* goroutines that reload: those of clients, and SIGHUP's
    Certs,     \* values of SSLCert and SSLKey
    Valid,     \* those LoadX509KeyPair accepts
    None,      \* the empty name of a certificate: SSL is disabled
    Absent,    \* the file has no such key
    Capacity   \* of the channels restartplain and restartssl

ASSUME ListenersAssumption ==
    /\ Valid \subseteq Certs /\ None \notin Certs
    /\ Absent \notin Certs \cup {None}
    /\ Capacity \in Nat \ {0}

VARIABLES
    file,          \* the configuration file: what it says, and whether it has the type
    config,        \* s.config.SSLCert
    at,            \* where a reload is
    restartplain,  \* tokens in the channels
    restartssl,
    plain,         \* where listenPlain is
    ssl,           \* where listenSSL is
    loaded,        \* the certificate listenSSL has read
    unfinished     \* history: config was last changed by a reload that failed

vars == <<file, config, at, restartplain, restartssl, plain, ssl, loaded, unfinished>>

Files == [cert : Certs \cup {None, Absent}, wellformed : BOOLEAN]

\* what a configuration that says c becomes by a file; a key not in it keeps its value
Decoded(c) == IF file.cert = Absent THEN c ELSE file.cert

\* a server that starts has read a well-formed file
Init ==
    /\ file \in {f \in Files : f.wellformed}
    /\ config = Decoded(None)
    /\ at = [g \in Callers |-> "idle"]
    /\ restartplain = 0 /\ restartssl = 0
    /\ plain = "start" /\ ssl = "start" /\ loaded = None
    /\ unfinished = FALSE

Edit(f) ==
    /\ file' = f
    /\ UNCHANGED <<config, at, restartplain, restartssl, plain, ssl, loaded, unfinished>>

(***************************************************************************)
(* loadConfig decodes the file into the configuration in use.  When the    *)
(* value of some key has the wrong type, or the database is not named, the *)
(* others may have been stored before: the configuration to fall back on   *)
(* is the same one.                                                        *)
(***************************************************************************)
Reload(g) ==
    /\ at[g] = "idle" /\ file.wellformed
    /\ config' = Decoded(config) /\ unfinished' = FALSE
    /\ at' = [at EXCEPT ![g] = "plain"]
    /\ UNCHANGED <<file, restartplain, restartssl, plain, ssl, loaded>>

ReloadFails(g) ==
    /\ at[g] = "idle" /\ ~file.wellformed
    /\ config' \in {config, Decoded(config)}
    /\ unfinished' = (unfinished \/ config' # config)
    /\ UNCHANGED <<file, at, restartplain, restartssl, plain, ssl, loaded>>

\* a send waits for room in the channel
\* Mutants: the SSL listener is forgotten, or the channel has no bound
SendPlainOnly(g) ==
    /\ at[g] = "plain" /\ restartplain < Capacity
    /\ restartplain' = restartplain + 1
    /\ at' = [at EXCEPT ![g] = "idle"]
    /\ UNCHANGED <<file, config, restartssl, plain, ssl, loaded, unfinished>>

SendPlainUnbounded(g) ==
    /\ at[g] = "plain"
    /\ restartplain' = restartplain + 1
    /\ at' = [at EXCEPT ![g] = "ssl"]
    /\ UNCHANGED <<file, config, restartssl, plain, ssl, loaded, unfinished>>

SendPlain(g) ==
    /\ at[g] = "plain" /\ restartplain < Capacity
    /\ restartplain' = restartplain + 1
    /\ at' = [at EXCEPT ![g] = "ssl"]
    /\ UNCHANGED <<file, config, restartssl, plain, ssl, loaded, unfinished>>

SendSSL(g) ==
    /\ at[g] = "ssl" /\ restartssl < Capacity
    /\ restartssl' = restartssl + 1
    /\ at' = [at EXCEPT ![g] = "idle"]
    /\ UNCHANGED <<file, config, restartplain, plain, ssl, loaded, unfinished>>

(***************************************************************************)
(* listenPlain: opens its port, retrying for as long as it has to, then    *)
(* looks for a token before every connection.                              *)
(***************************************************************************)
PlainListen ==
    /\ plain = "start" /\ plain' = "select"
    /\ UNCHANGED <<file, config, at, restartplain, restartssl, ssl, loaded, unfinished>>

\* Mutant: the listener looks into the channel of the other one
PlainSelectOther ==
    /\ plain = "select"
    /\ IF restartssl > 0
       THEN plain' = "start" /\ restartssl' = restartssl - 1
       ELSE plain' = "accept" /\ UNCHANGED restartssl
    /\ UNCHANGED <<file, config, at, restartplain, ssl, loaded, unfinished>>

PlainSelect ==
    /\ plain = "select"
    /\ IF restartplain > 0
       THEN plain' = "start" /\ restartplain' = restartplain - 1
       ELSE plain' = "accept" /\ UNCHANGED restartplain
    /\ UNCHANGED <<file, config, at, restartssl, ssl, loaded, unfinished>>

\* a connection is accepted, or fails to be
PlainAccept ==
    /\ plain = "accept" /\ plain' = "select"
    /\ UNCHANGED <<file, config, at, restartplain, restartssl, ssl, loaded, unfinished>>

(***************************************************************************)
(* listenSSL: without a certificate it returns after a minute, for good;   *)
(* with one that cannot be loaded it tries again every minute.             *)
(***************************************************************************)
SSLDisabled ==
    /\ ssl = "start" /\ config = None
    /\ ssl' = "disabled"
    /\ UNCHANGED <<file, config, at, restartplain, restartssl, plain, loaded, unfinished>>

SSLEnds ==
    /\ ssl = "disabled" /\ ssl' = "ended"
    /\ UNCHANGED <<file, config, at, restartplain, restartssl, plain, loaded, unfinished>>

SSLLoad ==
    /\ ssl = "start" /\ config \in Valid
    /\ ssl' = "listen" /\ loaded' = config
    /\ UNCHANGED <<file, config, at, restartplain, restartssl, plain, unfinished>>

SSLListen ==
    /\ ssl = "listen" /\ ssl' = "select"
    /\ UNCHANGED <<file, config, at, restartplain, restartssl, plain, loaded, unfinished>>

\* the port cannot be opened: after a minute everything is read again
SSLListenFails ==
    /\ ssl = "listen" /\ ssl' = "start"
    /\ UNCHANGED <<file, config, at, restartplain, restartssl, plain, loaded, unfinished>>

\* Mutant: the listener goes on with the certificate it has
SSLSelectReopens ==
    /\ ssl = "select"
    /\ IF restartssl > 0
       THEN ssl' = "listen" /\ restartssl' = restartssl - 1
       ELSE ssl' = "accept" /\ UNCHANGED restartssl
    /\ UNCHANGED <<file, config, at, restartplain, plain, loaded, unfinished>>

SSLSelect ==
    /\ ssl = "select"
    /\ IF restartssl > 0
       THEN ssl' = "start" /\ restartssl' = restartssl - 1
       ELSE ssl' = "accept" /\ UNCHANGED restartssl
    /\ UNCHANGED <<file, config, at, restartplain, plain, loaded, unfinished>>

SSLAccept ==
    /\ ssl = "accept" /\ ssl' = "select"
    /\ UNCHANGED <<file, config, at, restartplain, restartssl, plain, loaded, unfinished>>

Listen ==
    \/ PlainListen \/ PlainSelect
    \/ SSLDisabled \/ SSLEnds \/ SSLLoad \/ SSLListen \/ SSLListenFails \/ SSLSelect

Next ==
    \/ \E f \in Files : Edit(f)
    \/ \E g \in Callers : Reload(g) \/ ReloadFails(g) \/ SendPlain(g) \/ SendSSL(g)
    \/ Listen \/ PlainAccept \/ SSLAccept

(***************************************************************************)
(* The listeners go on when they can, and the plain one can open its port  *)
(* in the end.  Nothing makes the SSL one do so: it goes on, but may fail  *)
(* to open its port for ever.                                              *)
(* Goroutines that wait to send on one channel are served in their order,  *)
(* so that none is passed over for ever.  Nobody is made to connect.       *)
(***************************************************************************)
Fairness ==
    /\ WF_vars(PlainListen) /\ WF_vars(PlainSelect)
    /\ WF_vars(SSLDisabled \/ SSLEnds \/ SSLLoad \/ SSLListen \/ SSLListenFails \/ SSLSelect)
    /\ \A g \in Callers : SF_vars(SendPlain(g)) /\ SF_vars(SendSSL(g))

Spec == Init /\ [][Next]_vars /\ Fairness

(***************************************************************************)
(* Properties.                                                             *)
(***************************************************************************)

(***************************************************************************)
(* Everything is of its type; the channels never hold more tokens than     *)
(* they have room for (server.go:173-174).                                 *)
(***************************************************************************)
TypeOK ==
    /\ file \in Files
    /\ config \in Certs \cup {None}
    /\ at \in [Callers -> {"idle", "plain", "ssl"}]
    /\ restartplain \in 0..Capacity /\ restartssl \in 0..Capacity
    /\ plain \in {"start", "select", "accept"}
    /\ ssl \in {"start", "disabled", "ended", "listen", "select", "accept"}
    /\ loaded \in Valid \cup {None}
    /\ unfinished \in BOOLEAN

(***************************************************************************)
(* No reload is lost on the SSL listener: while it uses a certificate that *)
(* is not the configured one, a token waits for it, or a reload is still   *)
(* to send it one.  Only a reload that failed can leave it behind          *)
(* (server.go:1479-1516, 1556-1563, 1593-1594).                            *)
(***************************************************************************)
RestartPending == restartssl > 0 \/ \E g \in Callers : at[g] # "idle"

NoReloadLost ==
    ssl \in {"listen", "select", "accept"} /\ loaded # config =>
        RestartPending \/ unfinished

(***************************************************************************)
(* For as long as each listener keeps accepting connections, or is one     *)
(* that has returned for want of a certificate, every reload returns, and  *)
(* with it the goroutine that called it; but when nobody reads restartssl  *)
(* any more and it is full, a reload stays at its second send, and at no   *)
(* other place (server.go:1481-1485, 1593-1594).                           *)
(***************************************************************************)
Accepting == []<><<PlainAccept>>_vars /\ []<><<SSLAccept>>_vars

Served == []<><<PlainAccept>>_vars /\ (<>(ssl = "ended") \/ []<><<SSLAccept>>_vars)

Unread(g) == at[g] = "ssl" /\ ssl = "ended" /\ restartssl = Capacity

ReloadReturns ==
    Served => \A g \in Callers : at[g] # "idle" ~> at[g] = "idle" \/ Unread(g)

(***************************************************************************)
(* For as long as both listeners keep accepting connections, a certificate *)
(* that is configured is served in the end, unless the configuration       *)
(* changes again, or was left behind by a reload that failed.              *)
(***************************************************************************)
ConfiguredIsServed ==
    Accepting => \A c \in Valid :
        config = c /\ ~unfinished ~>
            (loaded = c /\ ssl = "accept") \/ config # c \/ unfinished

=============================================================================
