------------------------------- MODULE Wallets -------------------------------
(***************************************************************************)
(* The wallets of one node (src/core/wallet.js and the /wallet routes of   *)
(* src/node/index.js): the active wallet in memory, its file, the named    *)
(* copies in the wallet directory, and files written elsewhere.  A handler *)
(* assigns the active wallet and then writes its files one after another,  *)
(* in place; an error leaves what was done before it, and a crash of the   *)
(* process also leaves half of the write it cuts short.                    *)
(***************************************************************************)
EXTENDS Integers, Sequences, FiniteSets, SequencesExt

CONSTANTS
    Key,            \* private keys; each has its address
    Mnemonic,       \* phrases normalizeMnemonic accepts, normalized
    KeyOf,          \* the key that fromMnemonic derives from each
    Name,           \* wallet names, normalized
    BodyName,       \* what a request may give as a name, if it gives one
    Normalized,     \* normalizeWalletName, Invalid where it throws
    Path,           \* other files a request may name
    Active,         \* WALLET_FILE
    NoName, Invalid, Unwritable, NoMnemonic, None, Torn

File == {Active} \cup Name \cup Path

Wallet ==
    {w \in [key : Key, mnemonic : Mnemonic \cup {NoMnemonic}] :
        w.mnemonic # NoMnemonic => w.key = KeyOf[w.mnemonic]}

ASSUME WalletsAssumption ==
    /\ KeyOf \in [Mnemonic -> Key]
    /\ Normalized \in [BodyName -> Name \cup {Invalid}]
    /\ NoName \notin BodyName
    /\ Invalid \notin Name
    /\ Unwritable \notin File
    /\ NoMnemonic \notin Mnemonic
    /\ None \notin Wallet /\ Torn \notin Wallet /\ None # Torn

VARIABLES
    wallet,     \* the active wallet; while down, the last one
    files,      \* what each file holds: a wallet, None, or Torn
    up,         \* the process is running
    turning,    \* history: the wallet the last request meant to be active
    told        \* history: the wallet each file holds by the answers given

vars == <<wallet, files, up, turning, told>>

-----------------------------------------------------------------------------
(* Wallet.create, fromPrivateKey and fromMnemonic. *)
FromPrivateKey(key) == [key |-> key, mnemonic |-> NoMnemonic]

FromMnemonic(mnemonic) == [key |-> KeyOf[mnemonic], mnemonic |-> mnemonic]

(* A random key is one that nobody holds. *)
Fresh(key) ==
    \A w \in {wallet, turning} \cup Range(files) \cup Range(told) :
        w \in Wallet => w.key # key

(* loadFromFile throws on a file that is not there or was cut short. *)
Loadable(f) == f \in File /\ files[f] \in Wallet

(* Mutant: the mnemonic of the active wallet stays. *)
LoadKeyOnly(f) == [files[f] EXCEPT !.mnemonic = wallet.mnemonic]

LoadFromFile(f) == files[f]

(* A handler that got as far as its answer or its error: the wallet it     *)
(* made active, what it wrote, in order, and what the request names.       *)
Outcome(w, writes, names, ok) ==
    [wallet |-> w, writes |-> writes, names |-> names, ok |-> ok]

(* Mutant: the named copy is forgotten. *)
NoCopyTo(name) == <<>>

(* saveNamedWallet writes nothing when the name is refused. *)
CopyTo(name) ==
    IF name = NoName \/ Normalized[name] = Invalid THEN <<>> ELSE <<Normalized[name]>>

NameAccepted(name) == name = NoName \/ Normalized[name] # Invalid

NamedBy(name) == IF name = NoName THEN {} ELSE {Normalized[name]} \ {Invalid}

(* POST /wallet/new, /wallet/mnemonic/new, /wallet/import and              *)
(* /wallet/mnemonic/import: the active wallet and its file have changed    *)
(* when the name is refused.                                               *)
Replace(w, name) ==
    Outcome(w, <<Active>> \o CopyTo(name), {Active} \cup NamedBy(name), NameAccepted(name))

(* POST /wallet/save: the named copy first; a refused name ends it there,  *)
(* a path that cannot be written comes after it.                           *)
Save(name, path) ==
    Outcome(wallet,
            IF NameAccepted(name) /\ path # Unwritable
            THEN CopyTo(name) \o <<path>> ELSE CopyTo(name),
            (NamedBy(name) \cup {path}) \ {Unwritable},
            NameAccepted(name) /\ path # Unwritable)

(* Mutant: the wallet switched to is not saved as the active one. *)
AdoptUnsaved(f) == Outcome(LoadFromFile(f), <<>>, {Active, f}, TRUE)

(* POST /wallet/load and POST /wallet/switch. *)
Adopt(f) == Outcome(LoadFromFile(f), <<Active>>, {Active, f}, TRUE)

-----------------------------------------------------------------------------
(* A first start, with no files. *)
Init ==
    \E key \in Key :
        /\ wallet = FromPrivateKey(key)
        /\ turning = wallet
        /\ files = [f \in File |-> IF f = Active THEN wallet ELSE None]
        /\ told = [f \in File |-> IF f = Active THEN wallet ELSE None]
        /\ up = TRUE

(* What was told of the files a request names holds no longer when the     *)
(* request wrote them and ended without an answer of success.              *)
Withdrawn(o) ==
    [f \in File |-> IF f \in o.names \cap Range(o.writes) THEN None ELSE told[f]]

(* The handler runs to its end: 200 or 201, or 400 from the error. *)
Answer(o) ==
    /\ up
    /\ wallet' = o.wallet
    /\ turning' = o.wallet
    /\ files' = [f \in File |-> IF f \in Range(o.writes) THEN o.wallet ELSE files[f]]
    /\ told' = IF o.ok THEN [f \in File |-> IF f \in o.names THEN o.wallet ELSE told[f]]
                       ELSE Withdrawn(o)
    /\ UNCHANGED up

(* The process dies in the k-th write of the handler. *)
Die(o) ==
    \E k \in DOMAIN o.writes :
        /\ up
        /\ up' = FALSE
        /\ turning' = o.wallet
        /\ \E left \in {files[o.writes[k]], Torn, o.wallet} :
              files' = [f \in File |->
                           IF f = o.writes[k] THEN left
                           ELSE IF \E i \in 1 .. k - 1 : o.writes[i] = f THEN o.wallet
                           ELSE files[f]]
        /\ told' = Withdrawn(o)
        /\ UNCHANGED wallet

Serve(o) == Answer(o) \/ Die(o)

NewWallet(name) ==
    \E key \in {k \in Key : Fresh(k)} : Serve(Replace(FromPrivateKey(key), name))

NewMnemonicWallet(name) ==
    \E m \in {m \in Mnemonic : Fresh(KeyOf[m])} : Serve(Replace(FromMnemonic(m), name))

ImportWallet(key, name) == Serve(Replace(FromPrivateKey(key), name))

ImportMnemonicWallet(m, name) == Serve(Replace(FromMnemonic(m), name))

SaveWallet(name, path) == Serve(Save(name, path))

LoadWallet(f) == Loadable(f) /\ Serve(Adopt(f))

SwitchWallet(name) ==
    LET f == Normalized[name] IN f # Invalid /\ Loadable(f) /\ Serve(Adopt(f))

(* The process dies between two requests. *)
Crash ==
    /\ up
    /\ up' = FALSE
    /\ turning' = wallet
    /\ UNCHANGED <<wallet, files, told>>

(* Mutant: startup takes a new wallet each time. *)
StartAnew ==
    /\ ~up
    /\ files[Active] # Torn
    /\ \E key \in {k \in Key : Fresh(k)} : wallet' = FromPrivateKey(key)
    /\ files' = [files EXCEPT ![Active] = wallet']
    /\ turning' = wallet'
    /\ up' = TRUE
    /\ UNCHANGED told

(* Startup: loadOrCreate. *)
Start ==
    /\ ~up
    /\ \/ /\ Loadable(Active)
          /\ wallet' = LoadFromFile(Active)
          /\ UNCHANGED <<files, told>>
       \/ /\ files[Active] = None
          /\ \E key \in {k \in Key : Fresh(k)} : wallet' = FromPrivateKey(key)
          /\ files' = [files EXCEPT ![Active] = wallet']
          /\ told' = [told EXCEPT ![Active] = wallet']
    /\ turning' = wallet'
    /\ up' = TRUE

(* The process dies while startup writes a first wallet. *)
DieInStart ==
    /\ ~up
    /\ files[Active] = None
    /\ files' = [files EXCEPT ![Active] = Torn]
    /\ UNCHANGED <<wallet, up, turning, told>>

(* scripts/reset_state.js --wallets, run while the node is stopped: the    *)
(* active wallet's file, then the directory; it may be interrupted.        *)
ResetWallets ==
    /\ ~up
    /\ \E removed \in SUBSET Name :
          /\ files' = [f \in File |-> IF f \in {Active} \cup removed THEN None ELSE files[f]]
          /\ told' = [f \in File |-> IF f \in {Active} \cup removed THEN None ELSE told[f]]
    /\ UNCHANGED <<wallet, up, turning>>

Next ==
    \/ \E name \in BodyName \cup {NoName} :
          \/ NewWallet(name)
          \/ NewMnemonicWallet(name)
          \/ \E key \in Key : ImportWallet(key, name)
          \/ \E m \in Mnemonic : ImportMnemonicWallet(m, name)
          \/ \E path \in File \cup {Unwritable} : SaveWallet(name, path)
    \/ \E f \in File : LoadWallet(f)
    \/ \E name \in BodyName : SwitchWallet(name)
    \/ Crash
    \/ Start
    \/ DieInStart
    \/ ResetWallets

Spec == Init /\ [][Next]_vars

-----------------------------------------------------------------------------
(* A wallet that has a mnemonic has the key the mnemonic gives, in memory  *)
(* and in every file, whatever was loaded over what.                       *)
TypeOK ==
    /\ wallet \in Wallet
    /\ files \in [File -> Wallet \cup {None, Torn}]
    /\ up \in BOOLEAN
    /\ turning \in Wallet
    /\ told \in [File -> Wallet \cup {None}]

(* The wallet that signs is the one a restart loads, after an error too:   *)
(* the handlers of /wallet/new and /wallet/import change both before they  *)
(* refuse a name, /wallet/save changes neither.                            *)
ActiveSaved == up => files[Active] = wallet

(* What a successful answer says of a file stays true until a request      *)
(* that names the file fails or dies: no other request touches it, by any  *)
(* spelling of a name or through a path, nor does any start.               *)
AnswersTrue == \A f \in File : told[f] # None => files[f] = told[f]

(* A node that starts again has the wallet it last had or the one that the *)
(* request it died in was turning to, unless the wallets were deleted.     *)
StartRestores ==
    [][Start => wallet' \in {wallet, turning} \/ files[Active] = None]_vars
==============================================================================
