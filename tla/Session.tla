------------------------------ MODULE Session -------------------------------
(***************************************************************************)
(* The wallet session of a tab: the Freighter extension, in which the user *)
(* may switch account and network at any time; the connect and disconnect  *)
(* of useWallet, with an await between any two questions to the extension; *)
(* the contract client cached by the module lib/contracts; the writes made *)
(* with it; and the notifications of WalletButton.                         *)
(***************************************************************************)
EXTENDS FiniteSets, SequencesExt, Lists

CONSTANTS
    Accounts,     \* accounts of the extension
    Networks,     \* its networks, as Freighter names them
    AppNetwork,   \* the one the app is configured for, by its passphrase
    MaxAttempts,  \* bound on the attempts to connect
    MaxWrites     \* bound on the writes

ASSUME SessionAssumption ==
    /\ AppNetwork \in Networks
    /\ {MaxAttempts, MaxWrites} \subseteq Nat

VARIABLES
    account, network, \* what is selected in the extension
    info,             \* WalletInfo, or NoInfo: useWallet
    isConnecting,
    attempts,         \* the calls of connect
    cached,           \* the signer of the client cached last, NoInfo for none
    writes,
    toasts,           \* ids of the notifications shown, oldest first
    timers,           \* ids that have a timer to dismiss them
    nextToast         \* nextId of NotificationProvider

wallet == <<account, network>>
session == <<info, isConnecting, attempts, cached>>
notes == <<toasts, timers, nextToast>>
sessionVars == <<wallet, session, writes, notes>>

Attempts == 1..MaxAttempts
Writes == 1..MaxWrites

\* WalletInfo: our name of the network, and its passphrase, for which Freighter's
\* name stands here.
NoAccount == "none"
NoInfo == [publicKey |-> NoAccount, network |-> "none", networkPassphrase |-> "none"]
Infos == [publicKey : Accounts, network : {"mainnet", "testnet", "local"},
          networkPassphrase : Networks]

networkFromFreighter(name) ==
    CASE name = "PUBLIC" -> "mainnet" [] name = "STANDALONE" -> "local" [] OTHER -> "testnet"

NoAttempt == [step |-> "none", publicKey |-> NoAccount, from |-> "none"]
Ended == [NoAttempt EXCEPT !.step = "done"]
NoWrite == [step |-> "none", caller |-> NoAccount, signer |-> NoInfo, shown |-> NoInfo]

\* Where a connect comes from: WalletButton, or the button a form has in place
\* of its fields while nobody is connected.
Origins == {"button", "form"}

SessionInit ==
    /\ account \in Accounts /\ network \in Networks
    /\ info = NoInfo /\ isConnecting = FALSE
    /\ attempts = [i \in Attempts |-> NoAttempt]
    /\ cached = NoInfo
    /\ writes = [w \in Writes |-> NoWrite]
    /\ toasts = <<>> /\ timers = {} /\ nextToast = 1

-----------------------------------------------------------------------------
(* Notifications. *)

MAX_TOASTS == 5

Newest(s, n) == IF Len(s) <= n THEN s ELSE SubSeq(s, Len(s) - n + 1, Len(s))

\* Injected fault: the list is cut before the new one is counted in.
notifyLate(n) ==
    LET added == [k \in 1..n |-> nextToast + k - 1] IN
    /\ toasts' = Newest(toasts \o added, MAX_TOASTS + 1)
    /\ timers' = timers \cup ToSet(added)
    /\ nextToast' = nextToast + n

\* Injected fault: one timer serves all notifications.
notifyOneTimer(n) ==
    /\ toasts' = Newest(toasts \o [k \in 1..n |-> nextToast + k - 1], MAX_TOASTS)
    /\ timers' = {nextToast + n - 1}
    /\ nextToast' = nextToast + n

\* notify, n times: the newest five stay, each with a timer of its own.
notify(n) ==
    LET added == [k \in 1..n |-> nextToast + k - 1] IN
    /\ toasts' = Newest(toasts \o added, MAX_TOASTS)
    /\ timers' = timers \cup ToSet(added)
    /\ nextToast' = nextToast + n

\* dismiss, by a click or by the timer; a timer that comes too late does nothing.
Dismiss(id) ==
    /\ toasts' = Without(toasts, {id})
    /\ timers' = timers \ {id}
    /\ UNCHANGED <<wallet, session, writes, nextToast>>

Click(id) == id \in ToSet(toasts) /\ Dismiss(id)
Timer(id) == id \in timers /\ Dismiss(id)

-----------------------------------------------------------------------------
(* Connecting. *)

\* The user selects another account or network; Freighter tells nobody.
Switch ==
    /\ \/ account' \in Accounts /\ UNCHANGED network
       \/ network' \in Networks /\ UNCHANGED account
    /\ UNCHANGED <<session, writes, notes>>

\* Injected fault: the button is not disabled while a connect is under way.
ConnectAgain(i, from) ==
    /\ info = NoInfo
    /\ attempts[i] = NoAttempt /\ \A j \in 1..(i - 1) : attempts[j] # NoAttempt
    /\ attempts' = [attempts EXCEPT ![i] = [NoAttempt EXCEPT !.step = "access", !.from = from]]
    /\ isConnecting' = TRUE
    /\ UNCHANGED <<wallet, info, cached, writes, notes>>

\* connect, from WalletButton or from a form, whose buttons are only there
\* while nobody is connected, and are disabled while loading.
Connect(i, from) ==
    /\ info = NoInfo /\ ~isConnecting
    /\ attempts[i] = NoAttempt /\ \A j \in 1..(i - 1) : attempts[j] # NoAttempt
    /\ attempts' = [attempts EXCEPT ![i] = [NoAttempt EXCEPT !.step = "access", !.from = from]]
    /\ isConnecting' = TRUE
    /\ UNCHANGED <<wallet, info, cached, writes, notes>>

\* requestAccess is granted; then isConnected is answered.
Access(i) ==
    /\ \/ /\ attempts[i].step = "access"
          /\ attempts' = [attempts EXCEPT ![i].step = "connected"]
       \/ /\ attempts[i].step = "connected"
          /\ attempts' = [attempts EXCEPT ![i].step = "key"]
    /\ UNCHANGED <<wallet, info, isConnecting, cached, writes, notes>>

GetPublicKey(i) ==
    /\ attempts[i].step = "key"
    /\ attempts' = [attempts EXCEPT ![i].step = "network", ![i].publicKey = account]
    /\ UNCHANGED <<wallet, info, isConnecting, cached, writes, notes>>

\* Injected fault: a client that is cached is used, whatever the signer.
clientCached(signer) == IF cached # NoInfo THEN cached ELSE signer

\* paymentsClient and escrowClient: a signer gets a client of its own, and
\* nobody gets the one cached last.
client(signer) == IF signer # NoInfo THEN signer ELSE cached

\* What WalletButton tells of an attempt that ends: handleConnect of its own
\* attempts, and an effect of the error that any of them leaves.
Told(from, failed) == (IF from = "button" THEN 1 ELSE 0) + (IF failed THEN 1 ELSE 0)

\* getNetworkDetails, which may be answered with blanks, and setInfo: the hooks
\* that use the wallet get their client.
GetNetworkDetails(i, blank) ==
    LET found == [publicKey |-> attempts[i].publicKey,
                  network |-> networkFromFreighter(IF blank THEN "" ELSE network),
                  networkPassphrase |-> IF blank THEN AppNetwork ELSE network] IN
    /\ attempts[i].step = "network"
    /\ attempts' = [attempts EXCEPT ![i] = Ended]
    /\ info' = found /\ isConnecting' = FALSE
    /\ cached' = client(found)
    /\ notify(Told(attempts[i].from, FALSE))
    /\ UNCHANGED <<wallet, writes>>

\* The extension refuses or throws: setError.
ConnectFails(i) ==
    /\ attempts[i].step \notin {"none", "done"}
    /\ attempts' = [attempts EXCEPT ![i] = Ended]
    /\ isConnecting' = FALSE
    /\ notify(Told(attempts[i].from, TRUE))
    /\ UNCHANGED <<wallet, info, cached, writes>>

\* disconnect, by the button that WalletButton shows the account on: the cached
\* client keeps its signer.
Disconnect ==
    /\ info # NoInfo
    /\ info' = NoInfo
    /\ cached' = client(NoInfo)
    /\ UNCHANGED <<wallet, isConnecting, attempts, writes, notes>>

-----------------------------------------------------------------------------
(* Writes. *)

\* A card or a form calls write for the account it shows.  Without one it does
\* not get so far, though the client of a disconnected tab may have a signer.
Write(w) ==
    /\ writes[w] = NoWrite /\ \A v \in 1..(w - 1) : writes[v] # NoWrite
    /\ info # NoInfo
    /\ writes' = [writes EXCEPT ![w] = [step |-> "made", caller |-> info.publicKey,
                                        signer |-> client(info), shown |-> info]]
    /\ UNCHANGED <<wallet, session, notes>>

\* signTransaction of the signer: Freighter signs with the account selected now,
\* for the passphrase of the signer.  The ledger takes the signature of the
\* transaction's source, for its own passphrase, for its source's call.
Sign(w) ==
    LET r == writes[w] IN
    /\ r.step = "made"
    /\ writes' = [writes EXCEPT ![w].step =
                     IF /\ account = r.signer.publicKey /\ r.signer.publicKey = r.caller
                        /\ r.signer.networkPassphrase = AppNetwork
                     THEN "applied" ELSE "refused"]
    /\ UNCHANGED <<wallet, session, notes>>

Reject(w) ==
    /\ writes[w].step = "made"
    /\ writes' = [writes EXCEPT ![w].step = "refused"]
    /\ UNCHANGED <<wallet, session, notes>>

-----------------------------------------------------------------------------

SessionNext ==
    \/ Switch \/ Disconnect
    \/ \E i \in Attempts :
          \/ \E from \in Origins : Connect(i, from)
          \/ Access(i) \/ GetPublicKey(i) \/ ConnectFails(i)
          \/ \E blank \in BOOLEAN : GetNetworkDetails(i, blank)
    \/ \E w \in Writes : Write(w) \/ Sign(w) \/ Reject(w)
    \/ \E id \in 1..(2 * MaxAttempts) : Click(id) \/ Timer(id)

\* Timers fire.  The extension and its user owe the tab nothing.
SessionFairness == \A id \in 1..(2 * MaxAttempts) : WF_sessionVars(Timer(id))

SessionSpec == SessionInit /\ [][SessionNext]_sessionVars /\ SessionFairness

-----------------------------------------------------------------------------

\* Every variable keeps its type; no more than five notifications are shown.
SessionTypeOK ==
    /\ account \in Accounts /\ network \in Networks
    /\ {info, cached} \subseteq Infos \cup {NoInfo}
    /\ isConnecting \in BOOLEAN
    /\ attempts \in [Attempts -> [step : {"none", "access", "connected", "key", "network", "done"},
                                  publicKey : Accounts \cup {NoAccount},
                                  from : Origins \cup {"none"}]]
    /\ writes \in [Writes -> [step : {"none", "made", "applied", "refused"},
                              caller : Accounts \cup {NoAccount},
                              signer : Infos \cup {NoInfo}, shown : Infos \cup {NoInfo}]]
    /\ Len(toasts) <= MAX_TOASTS
    /\ ToSet(toasts) \cup timers \subseteq 1..(2 * MaxAttempts)
    /\ nextToast \in 1..(2 * MaxAttempts + 1)

\* A write calls, signs and is told of as one account, the one shown when it was
\* made, and takes effect on the network shown: the client cached for an earlier
\* account, or after a disconnect, never mixes two, however account and network
\* are switched in between, and though Freighter's networks are fewer to the app
\* (paymentsClient, the memo of usePayments, signer, networkFromFreighter).
ActsAsShown ==
    \A w \in Writes :
        LET r == writes[w] IN
        r # NoWrite =>
            /\ r.signer = r.shown /\ r.caller = r.shown.publicKey /\ r.shown # NoInfo
            /\ r.step = "applied" => r.shown.network = networkFromFreighter(AppNetwork)

\* Nobody is connected behind their back: while an answer of the extension is
\* awaited nobody is connected, so that no disconnect can come before it and be
\* undone by it, and one attempt is under way at most (connect, disconnect).
NoGhostConnect ==
    LET Open == {i \in Attempts : attempts[i].step \notin {"none", "done"}} IN
    /\ Open # {} => info = NoInfo
    /\ Cardinality(Open) <= 1
    /\ isConnecting <=> Open # {}

\* Every notification goes, whatever comes after it (notify, dismiss).
ToastsGo ==
    \A id \in 1..(2 * MaxAttempts) : id \in ToSet(toasts) ~> id \notin ToSet(toasts)
=============================================================================
