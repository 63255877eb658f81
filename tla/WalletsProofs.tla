---------------------------- MODULE WalletsProofs ----------------------------
(***************************************************************************)
(* The wallets of a node, for any keys, names, spellings and paths: the    *)
(* active wallet is always the saved one, the answers about files stay     *)
(* true, and a restart gives back the wallet of before or after the        *)
(* request that the process died in.                                       *)
(***************************************************************************)
EXTENDS Wallets, TLAPS

(* While the node is down its file may be missing or cut short; if it is   *)
(* neither, it holds one of the two wallets of the last request.           *)
DownSaved == ~up => files[Active] \in {wallet, turning, None, Torn}

Inv == TypeOK /\ ActiveSaved /\ AnswersTrue /\ DownSaved

(* What every handler's outcome is: only files that the request names are  *)
(* written; a success has written all of them, but the one it read, which  *)
(* holds the wallet already; and the active wallet's file is written       *)
(* whenever the active wallet changes.                                     *)
Proper(o) ==
    /\ o.wallet \in Wallet
    /\ o.writes \in Seq(File)
    /\ o.names \subseteq File
    /\ o.ok => \A f \in o.names \ Range(o.writes) : files[f] = o.wallet
    /\ o.ok \in BOOLEAN
    /\ Range(o.writes) \subseteq o.names
    /\ Active \in Range(o.writes) \/ o.wallet = wallet

LEMMA CopyToWrites ==
    ASSUME NEW name \in BodyName \cup {NoName}
    PROVE  /\ CopyTo(name) \in Seq(Name)
           /\ NamedBy(name) \subseteq Name
           /\ NameAccepted(name) \in BOOLEAN
           /\ Range(CopyTo(name)) = NamedBy(name)
<1>1. CASE name = NoName
  BY <1>1 DEF CopyTo, NamedBy, NameAccepted, Range
<1>2. CASE name # NoName
  <2>1. Normalized[name] \in Name \cup {Invalid}
    BY <1>2, WalletsAssumption
  <2>2. CASE Normalized[name] = Invalid
    BY <1>2, <2>2 DEF CopyTo, NamedBy, NameAccepted, Range
  <2>3. CASE Normalized[name] # Invalid
    <3>1. CopyTo(name) = <<Normalized[name]>>
      BY <1>2, <2>3 DEF CopyTo
    <3>2. NamedBy(name) = {Normalized[name]}
      BY <1>2, <2>3 DEF NamedBy
    <3>3. Range(<<Normalized[name]>>) = {Normalized[name]}
      BY DEF Range
    <3>. QED  BY <2>1, <2>3, <3>1, <3>2, <3>3 DEF NameAccepted
  <2>. QED  BY <2>2, <2>3
<1>. QED  BY <1>1, <1>2

LEMMA RangeOfConcat ==
    ASSUME NEW S, NEW s \in Seq(S), NEW t \in Seq(S)
    PROVE  s \o t \in Seq(S) /\ Range(s \o t) = Range(s) \cup Range(t)
<1>1. \A i \in 1 .. Len(s) : (s \o t)[i] = s[i]
  OBVIOUS
<1>2. \A i \in 1 .. Len(t) : (s \o t)[Len(s) + i] = t[i]
  OBVIOUS
<1>3. DOMAIN (s \o t) = 1 .. Len(s) + Len(t) /\ Len(s) \in Nat /\ Len(t) \in Nat
  OBVIOUS
<1>4. \A i \in 1 .. Len(s) + Len(t) : i \in 1 .. Len(s) \/ i - Len(s) \in 1 .. Len(t)
  BY <1>3
<1>5. ASSUME NEW i \in 1 .. Len(s) + Len(t)
      PROVE  (s \o t)[i] \in Range(s) \cup Range(t)
  <2>1. CASE i \in 1 .. Len(s)
    BY <1>1, <2>1 DEF Range
  <2>2. CASE i - Len(s) \in 1 .. Len(t)
    <3>1. (s \o t)[Len(s) + (i - Len(s))] = t[i - Len(s)]
      BY <1>2, <2>2
    <3>2. Len(s) + (i - Len(s)) = i
      BY <1>3
    <3>. QED  BY <2>2, <3>1, <3>2 DEF Range
  <2>. QED  BY <1>4, <2>1, <2>2
<1>6. Range(s \o t) \subseteq Range(s) \cup Range(t)
  BY <1>3, <1>5 DEF Range
<1>7. ASSUME NEW i \in 1 .. Len(s)
      PROVE  s[i] \in Range(s \o t)
  <2>1. i \in DOMAIN (s \o t)
    BY <1>3
  <2>. QED  BY <1>1, <2>1 DEF Range
<1>8. ASSUME NEW i \in 1 .. Len(t)
      PROVE  t[i] \in Range(s \o t)
  <2>1. Len(s) + i \in DOMAIN (s \o t)
    BY <1>3
  <2>. QED  BY <1>2, <2>1 DEF Range
<1>9. Range(s) = {s[i] : i \in 1 .. Len(s)} /\ Range(t) = {t[i] : i \in 1 .. Len(t)}
  BY DEF Range
<1>10. Range(s) \cup Range(t) \subseteq Range(s \o t)
  BY <1>7, <1>8, <1>9
<1>. QED  BY <1>6, <1>10

-----------------------------------------------------------------------------
LEMMA ReplaceProper ==
    ASSUME NEW w \in Wallet, NEW name \in BodyName \cup {NoName}
    PROVE  Proper(Replace(w, name))
<1>1. CopyTo(name) \in Seq(File) /\ NamedBy(name) \subseteq File
  BY CopyToWrites DEF File
<1>2. <<Active>> \in Seq(File) /\ Range(<<Active>>) = {Active} /\ Active \in File
  BY DEF File, Range
<1>3. /\ <<Active>> \o CopyTo(name) \in Seq(File)
      /\ Range(<<Active>> \o CopyTo(name)) = {Active} \cup NamedBy(name)
  <2>. DEFINE first == <<Active>>
  <2>1. Range(CopyTo(name)) = NamedBy(name)
    BY CopyToWrites
  <2>2. /\ first \o CopyTo(name) \in Seq(File)
        /\ Range(first \o CopyTo(name)) = Range(first) \cup Range(CopyTo(name))
    <3>1. first \in Seq(File)
      BY <1>2
    <3>. HIDE DEF first
    <3>. QED  BY <1>1, <3>1, RangeOfConcat, Zenon
  <2>. QED  BY <1>2, <2>1, <2>2
<1>. QED  BY <1>1, <1>2, <1>3, CopyToWrites DEF Proper, Replace, Outcome

LEMMA SaveProper ==
    ASSUME Inv, up, NEW name \in BodyName \cup {NoName}, NEW path \in File \cup {Unwritable}
    PROVE  Proper(Save(name, path))
<1>1. CopyTo(name) \in Seq(File) /\ NamedBy(name) \subseteq File
  BY CopyToWrites DEF File
<1>2. wallet \in Wallet
  BY DEF Inv, TypeOK
<1>3. Range(CopyTo(name)) = NamedBy(name) /\ NameAccepted(name) \in BOOLEAN
  BY CopyToWrites
<1>4. Unwritable \notin File
  BY WalletsAssumption
<1>5. CASE NameAccepted(name) /\ path # Unwritable
  <2>1. <<path>> \in Seq(File) /\ Range(<<path>>) = {path}
    BY <1>5 DEF Range
  <2>2. /\ CopyTo(name) \o <<path>> \in Seq(File)
        /\ Range(CopyTo(name) \o <<path>>) = Range(CopyTo(name)) \cup Range(<<path>>)
    BY <1>1, <2>1, RangeOfConcat, Zenon
  <2>. QED  BY <1>1, <1>2, <1>3, <1>4, <1>5, <2>1, <2>2 DEF Proper, Save, Outcome
<1>6. CASE ~(NameAccepted(name) /\ path # Unwritable)
  BY <1>1, <1>2, <1>3, <1>4, <1>6 DEF Proper, Save, Outcome
<1>. QED  BY <1>5, <1>6

LEMMA AdoptProper ==
    ASSUME NEW f, Loadable(f)
    PROVE  Proper(Adopt(f))
<1>1. <<Active>> \in Seq(File) /\ Range(<<Active>>) = {Active} /\ Active \in File
  BY DEF File, Range
<1>. QED  BY <1>1 DEF Proper, Adopt, Outcome, Loadable, LoadFromFile

-----------------------------------------------------------------------------
LEMMA AnswerKeeps ==
    ASSUME Inv, NEW o, Proper(o), Answer(o)
    PROVE  Inv'
<1>1. TypeOK'
  BY DEF Inv, TypeOK, Proper, Answer, Withdrawn
<1>2. ActiveSaved'
  BY DEF Inv, TypeOK, ActiveSaved, Proper, Answer, File
<1>3. AnswersTrue'
  <2>. SUFFICES ASSUME NEW f \in File, told'[f] # None
                PROVE  files'[f] = told'[f]
    BY DEF AnswersTrue
  <2>1. files'[f] = IF f \in Range(o.writes) THEN o.wallet ELSE files[f]
    BY DEF Answer
  <2>2. CASE o.ok
    <3>1. told'[f] = IF f \in o.names THEN o.wallet ELSE told[f]
      BY <2>2 DEF Answer
    <3>. QED  BY <2>1, <2>2, <3>1 DEF Inv, AnswersTrue, Proper
  <2>3. CASE ~o.ok
    <3>1. told'[f] = IF f \in o.names \cap Range(o.writes) THEN None ELSE told[f]
      BY <2>3 DEF Answer, Withdrawn
    <3>. QED  BY <2>1, <3>1 DEF Inv, AnswersTrue, Proper
  <2>. QED  BY <2>2, <2>3
<1>4. DownSaved'
  BY DEF DownSaved, Answer
<1>. QED  BY <1>1, <1>2, <1>3, <1>4 DEF Inv

LEMMA DieKeeps ==
    ASSUME Inv, NEW o, Proper(o), Die(o)
    PROVE  Inv'
<1>1. PICK k \in DOMAIN o.writes :
        /\ up /\ up' = FALSE /\ turning' = o.wallet
        /\ \E left \in {files[o.writes[k]], Torn, o.wallet} :
              files' = [f \in File |->
                           IF f = o.writes[k] THEN left
                           ELSE IF \E i \in 1 .. k - 1 : o.writes[i] = f THEN o.wallet
                           ELSE files[f]]
        /\ told' = Withdrawn(o)
        /\ UNCHANGED wallet
  BY DEF Die
<1>2. PICK left \in {files[o.writes[k]], Torn, o.wallet} :
        files' = [f \in File |->
                     IF f = o.writes[k] THEN left
                     ELSE IF \E i \in 1 .. k - 1 : o.writes[i] = f THEN o.wallet
                     ELSE files[f]]
  BY <1>1
<1>3. \A i \in DOMAIN o.writes : o.writes[i] \in Range(o.writes)
  BY DEF Range
<1>4. o.writes[k] \in File
  BY DEF Proper
<1>5. TypeOK'
  BY <1>1, <1>2, <1>4 DEF Inv, TypeOK, Proper, Withdrawn
<1>6. ActiveSaved'
  BY <1>1 DEF ActiveSaved
<1>7. \A f \in File \ Range(o.writes) : files'[f] = files[f]
  <2>1. ASSUME NEW i \in 1 .. k - 1
        PROVE  i \in DOMAIN o.writes
    BY DEF Proper
  <2>. QED  BY <1>2, <1>3, <2>1
<1>8. AnswersTrue'
  <2>. SUFFICES ASSUME NEW f \in File, told'[f] # None
                PROVE  files'[f] = told'[f]
    BY DEF AnswersTrue
  <2>1. told'[f] = IF f \in o.names \cap Range(o.writes) THEN None ELSE told[f]
    BY <1>1 DEF Withdrawn
  <2>2. f \notin Range(o.writes)
    BY <2>1 DEF Proper
  <2>. QED  BY <1>7, <2>1, <2>2 DEF Inv, AnswersTrue
<1>9. DownSaved'
  <2>1. files[Active] = wallet /\ Active \in File
    BY <1>1 DEF Inv, ActiveSaved, File
  <2>2. files'[Active] \in {files[Active], Torn, o.wallet}
    BY <1>2, <2>1
  <2>. QED  BY <1>1, <2>1, <2>2 DEF DownSaved
<1>. QED  BY <1>5, <1>6, <1>8, <1>9 DEF Inv

LEMMA ServeKeeps ==
    ASSUME Inv, NEW o, up => Proper(o), Serve(o)
    PROVE  Inv'
<1>1. up
  BY DEF Serve, Answer, Die
<1>. QED  BY <1>1, AnswerKeeps, DieKeeps DEF Serve

LEMMA FromKeys ==
    /\ \A key \in Key : FromPrivateKey(key) \in Wallet
    /\ \A m \in Mnemonic : FromMnemonic(m) \in Wallet
BY WalletsAssumption DEF FromPrivateKey, FromMnemonic, Wallet

-----------------------------------------------------------------------------
LEMMA InvInit == Init => Inv
<1>. SUFFICES ASSUME Init PROVE Inv
  OBVIOUS
<1>1. PICK key \in Key : wallet = FromPrivateKey(key)
  BY DEF Init
<1>2. wallet \in Wallet /\ Active \in File
  BY <1>1, FromKeys DEF File
<1>. QED  BY <1>2, WalletsAssumption DEF Init, Inv, TypeOK, ActiveSaved, AnswersTrue, DownSaved

LEMMA InvStart == Inv /\ Start => Inv'
<1>. SUFFICES ASSUME Inv, Start PROVE Inv'
  OBVIOUS
<1>0. Active \in File
  BY DEF File
<1>1. CASE /\ Loadable(Active)
           /\ wallet' = LoadFromFile(Active)
           /\ UNCHANGED <<files, told>>
  BY <1>0, <1>1 DEF Start, Inv, TypeOK, ActiveSaved, AnswersTrue, DownSaved, Loadable, LoadFromFile
<1>2. CASE /\ files[Active] = None
           /\ \E key \in {k \in Key : Fresh(k)} : wallet' = FromPrivateKey(key)
           /\ files' = [files EXCEPT ![Active] = wallet']
           /\ told' = [told EXCEPT ![Active] = wallet']
  <2>1. wallet' \in Wallet
    BY <1>2, FromKeys
  <2>. QED  BY <1>0, <1>2, <2>1 DEF Start, Inv, TypeOK, ActiveSaved, AnswersTrue, DownSaved
<1>. QED  BY <1>1, <1>2 DEF Start

LEMMA InvNext == Inv /\ [Next]_vars => Inv'
<1>. SUFFICES ASSUME Inv, [Next]_vars PROVE Inv'
  OBVIOUS
<1>1. ASSUME NEW name \in BodyName \cup {NoName}, NewWallet(name)
      PROVE  Inv'
  BY <1>1, FromKeys, ReplaceProper, ServeKeeps DEF NewWallet
<1>2. ASSUME NEW name \in BodyName \cup {NoName}, NewMnemonicWallet(name)
      PROVE  Inv'
  BY <1>2, FromKeys, ReplaceProper, ServeKeeps DEF NewMnemonicWallet
<1>3. ASSUME NEW name \in BodyName \cup {NoName}, NEW key \in Key, ImportWallet(key, name)
      PROVE  Inv'
  BY <1>3, FromKeys, ReplaceProper, ServeKeeps DEF ImportWallet
<1>4. ASSUME NEW name \in BodyName \cup {NoName}, NEW m \in Mnemonic,
             ImportMnemonicWallet(m, name)
      PROVE  Inv'
  BY <1>4, FromKeys, ReplaceProper, ServeKeeps DEF ImportMnemonicWallet
<1>5. ASSUME NEW name \in BodyName \cup {NoName}, NEW path \in File \cup {Unwritable},
             SaveWallet(name, path)
      PROVE  Inv'
  BY <1>5, SaveProper, ServeKeeps DEF SaveWallet
<1>6. ASSUME NEW f \in File, LoadWallet(f)
      PROVE  Inv'
  BY <1>6, AdoptProper, ServeKeeps DEF LoadWallet
<1>7. ASSUME NEW name \in BodyName, SwitchWallet(name)
      PROVE  Inv'
  BY <1>7, AdoptProper, ServeKeeps DEF SwitchWallet
<1>8. CASE Crash
  BY <1>8 DEF Crash, Inv, TypeOK, ActiveSaved, AnswersTrue, DownSaved
<1>9. CASE DieInStart
  <2>1. Active \in File /\ None # Torn /\ None \notin Wallet
    BY WalletsAssumption DEF File
  <2>. QED  BY <1>9, <2>1 DEF DieInStart, Inv, TypeOK, ActiveSaved, AnswersTrue, DownSaved
<1>10. CASE ResetWallets
  BY <1>10 DEF ResetWallets, Inv, TypeOK, ActiveSaved, AnswersTrue, DownSaved, File
<1>11. CASE UNCHANGED vars
  BY <1>11 DEF vars, Inv, TypeOK, ActiveSaved, AnswersTrue, DownSaved
<1>. QED
  BY <1>1, <1>2, <1>3, <1>4, <1>5, <1>6, <1>7, <1>8, <1>9, <1>10, <1>11, InvStart DEF Next

-----------------------------------------------------------------------------
(* The inductive invariant holds of every reachable state. *)
LEMMA Invariance == Spec => []Inv
<1>. QED  BY InvInit, InvNext, PTL DEF Spec

(* Whatever is generated, imported, loaded or switched to, a wallet that   *)
(* has a mnemonic has the key the mnemonic gives.                          *)
THEOREM TypeCorrect == Spec => []TypeOK
<1>1. Inv => TypeOK
  BY DEF Inv
<1>. QED  BY <1>1, Invariance, PTL

(* Whatever the requests, the names and the crashes, the active wallet of  *)
(* a running node is the one its file holds.                               *)
THEOREM ActiveWalletSaved == Spec => []ActiveSaved
<1>1. Inv => ActiveSaved
  BY DEF Inv
<1>. QED  BY <1>1, Invariance, PTL

(* No answer about a file is made false by a request on another.           *)
THEOREM AnswersKept == Spec => []AnswersTrue
<1>1. Inv => AnswersTrue
  BY DEF Inv
<1>. QED  BY <1>1, Invariance, PTL

(* A start gives back the wallet of before or after the request that the   *)
(* process died in, however many files that request wrote.                 *)
THEOREM RestartRestores == Spec => StartRestores
<1>1. Inv /\ [Next]_vars =>
        [Start => wallet' \in {wallet, turning} \/ files[Active] = None]_vars
  <2>. SUFFICES ASSUME Inv, Start, files[Active] # None
                PROVE  wallet' \in {wallet, turning}
    OBVIOUS
  <2>1. wallet' = files[Active] /\ files[Active] \in Wallet /\ ~up
    BY DEF Start, Loadable, LoadFromFile
  <2>. QED  BY <2>1, WalletsAssumption DEF Inv, DownSaved
<1>. QED  BY <1>1, InvInit, InvNext, PTL DEF Spec, StartRestores
==============================================================================
