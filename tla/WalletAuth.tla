------------------------------- MODULE WalletAuth -------------------------------
(*****************************************************************************)
(* Signing in with a wallet: the nonces of the api-gateway                   *)
(* (middleware/auth.ts and the /auth routes) and the browser's side of it    *)
(* (hooks/useAuth.ts).  The tabs of one browser share its local storage, so  *)
(* a token belongs to a wallet, while each tab signs in on its own; every    *)
(* wallet is taken to have a browser of its own.                             *)
(*                                                                           *)
(* What clocks decide is left open: a nonce or a token may expire at any     *)
(* moment.                                                                   *)
(*****************************************************************************)
EXTENDS Naturals

CONSTANTS
    Wallets,
    Tabs,
    WalletOf,       \* the wallet connected in each tab
    MaxNonces       \* bound: nonces ever generated

ASSUME AuthAssumption == WalletOf \in [Tabs -> Wallets] /\ MaxNonces \in Nat

VARIABLES
    nonceStore,     \* per wallet: the nonce it should sign (0: none) and whether it is fresh
    issued,         \* nonces generated so far; each new one is different
    auth,           \* per tab: where authenticate() is, the nonce it signs, and
                    \* the one the server found in the store
    signedIn        \* per wallet: is there an unexpired token in its local storage?

authVars == <<nonceStore, issued, auth, signedIn>>

NoEntry == [nonce |-> 0, fresh |-> FALSE]
SignedOut == [pc |-> "idle", nonce |-> 0, stored |-> 0]

AuthInit ==
    /\ nonceStore = [w \in Wallets |-> NoEntry]
    /\ issued = 0
    /\ auth = [t \in Tabs |-> SignedOut]
    /\ signedIn = [w \in Wallets |-> FALSE]

\* authenticate() is over: its nonces are of no more use.
Ended(t, pc) == [auth EXCEPT ![t] = [SignedOut EXCEPT !.pc = pc]]

\* isAuthenticated: an unexpired token of this wallet spares the signature.
AlreadySignedIn(t) ==
    /\ auth[t].pc = "idle"
    /\ signedIn[WalletOf[t]]
    /\ auth' = Ended(t, "in")
    /\ UNCHANGED <<nonceStore, issued, signedIn>>

\* POST /auth/nonce overwrites the wallet's entry.
GenerateNonce(t) ==
    /\ auth[t].pc = "idle"
    /\ ~signedIn[WalletOf[t]]
    /\ issued < MaxNonces
    /\ issued' = issued + 1
    /\ nonceStore' = [nonceStore EXCEPT ![WalletOf[t]] = [nonce |-> issued', fresh |-> TRUE]]
    /\ auth' = [auth EXCEPT ![t] = [pc |-> "signing", nonce |-> issued', stored |-> 0]]
    /\ UNCHANGED signedIn

\* Mutant: the nonce is deleted before the signature is verified.
BeginVerifyBurns(t) ==
    LET w == WalletOf[t]
    IN  /\ auth[t].pc = "signing"
        /\ nonceStore' = [nonceStore EXCEPT ![w] = NoEntry]
        /\ IF nonceStore[w].nonce = 0 THEN auth' = Ended(t, "refused")
           ELSE IF ~nonceStore[w].fresh THEN auth' = Ended(t, "gaveUp")
           ELSE auth' = [auth EXCEPT ![t].pc = "verifying", ![t].stored = nonceStore[w].nonce]
        /\ UNCHANGED <<issued, signedIn>>

\* POST /auth/verify up to the await of verifyMessage.
BeginVerify(t) ==
    LET w == WalletOf[t]
    IN  /\ auth[t].pc = "signing"
        /\ \/ /\ nonceStore[w].nonce = 0
              /\ auth' = Ended(t, "refused")
              /\ UNCHANGED nonceStore
           \/ /\ nonceStore[w].nonce # 0
              /\ ~nonceStore[w].fresh
              /\ nonceStore' = [nonceStore EXCEPT ![w] = NoEntry]
              /\ auth' = Ended(t, "gaveUp")
           \/ /\ nonceStore[w].fresh
              /\ auth' = [auth EXCEPT ![t].pc = "verifying", ![t].stored = nonceStore[w].nonce]
              /\ UNCHANGED nonceStore
        /\ UNCHANGED <<issued, signedIn>>

\* ... and after it: the signature fits the nonce the server had read, or not.
\* The entry deleted is the one of the moment, whichever nonce that holds; the
\* token may be lost on its way to the tab.
EndVerify(t) ==
    LET w == WalletOf[t]
    IN  /\ auth[t].pc = "verifying"
        /\ \/ /\ auth[t].stored = auth[t].nonce
              /\ nonceStore' = [nonceStore EXCEPT ![w] = NoEntry]
              /\ \/ signedIn' = [signedIn EXCEPT ![w] = TRUE] /\ auth' = Ended(t, "in")
                 \/ UNCHANGED signedIn /\ auth' = Ended(t, "gaveUp")
           \/ /\ auth[t].stored # auth[t].nonce
              /\ auth' = Ended(t, "refused")
              /\ UNCHANGED <<nonceStore, signedIn>>
        /\ UNCHANGED issued

\* The user dismisses the wallet, or a request gets no answer.
GiveUp(t) ==
    /\ auth[t].pc = "signing"
    /\ auth' = Ended(t, "gaveUp")
    /\ UNCHANGED <<nonceStore, issued, signedIn>>

NonceExpires(w) ==
    /\ nonceStore[w].fresh
    /\ nonceStore' = [nonceStore EXCEPT ![w].fresh = FALSE]
    /\ UNCHANGED <<issued, auth, signedIn>>

\* The token runs out, or the user logs out.
JwtExpires(w) ==
    /\ signedIn[w]
    /\ signedIn' = [signedIn EXCEPT ![w] = FALSE]
    /\ UNCHANGED <<nonceStore, issued, auth>>

SignInStep(t) ==
    \/ AlreadySignedIn(t) \/ GenerateNonce(t) \/ BeginVerify(t) \/ EndVerify(t) \/ GiveUp(t)

ExpiryStep == \E w \in Wallets : NonceExpires(w) \/ JwtExpires(w)

-----------------------------------------------------------------------------
AuthTypeOK ==
    /\ nonceStore \in [Wallets -> [nonce : 0..MaxNonces, fresh : BOOLEAN]]
    /\ issued \in 0..MaxNonces
    /\ auth \in [Tabs -> [pc : {"idle", "signing", "verifying", "in", "refused", "gaveUp"},
                          nonce : 0..MaxNonces, stored : 0..MaxNonces]]
    /\ signedIn \in [Wallets -> BOOLEAN]

\* Tabs of one wallet overwrite each other's nonce, and a verification that
\* ends late deletes a nonce it never saw; yet they cannot all be refused by
\* the server: of tabs that sign in at once at least one gets in, unless its
\* user or a clock gave up on it.
SomeTabSignsIn ==
    \A w \in {WalletOf[t] : t \in Tabs} :
        \E t \in Tabs : WalletOf[t] = w /\ auth[t].pc # "refused"

=============================================================================
