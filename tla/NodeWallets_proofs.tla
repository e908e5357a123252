------------------------- MODULE NodeWallets_proofs -------------------------
(***************************************************************************)
(* For any key names, goroutines, outputs, calls and faults: accounts stay  *)
(* with their key names, no listed output is spent twice, and wallets are   *)
(* loaded exactly while somebody uses them.                                 *)
(*                                                                         *)
(* What a goroutine will still do is in its script, so the invariant talks  *)
(* about what is left of the scripts (Shape): which step follows which, and *)
(* which UnloadWallet gives back which LoadWallet.  It has four layers:     *)
(* Base (types and shapes), OwnInv (accounts), SendInv (outputs), LoadInv   *)
(* (loaded wallets).                                                       *)
(***************************************************************************)
EXTENDS NodeWallets, SequenceTheorems, FiniteSetTheorems, TLAPS

\* Every step name of the model, and the key names a step can carry.
Names == LookSteps \cup Commands \cup
  {"keyOfAddress", "reserveName", "mapLock", "mapUnlock", "number", "txLock", "txUnlock", "load", "unload",
   "version", "go", "up", "wait", "waiting"}
KeyNames == Keys \cup {Stranger}

\* Scripts: the steps a call has left.
Scripts == Seq(Names \X KeyNames)

\* LoadWallet and UnloadWallet count the users of a wallet.
Counts == family = "utxo" /\ unloadAfterUse

\* The steps of UnloadWallet and of LoadWallet, before and while their command runs.
Ends == {"unload", "unloading"}
Begins == {"load", "loading"}

\* Steps that no script of the chain's family contains.
Foreign ==
  (IF Utxo THEN {"number"}
   ELSE {"getnewaddress", "setAddress", "forNewAddress", "createwallet", "version", "sendrawtransaction"})
    \cup (IF family \in {"geth", "utxoOld"} THEN {"put"} ELSE {})
    \cup (IF Counts THEN {} ELSE Begins \cup Ends)

\* Steps that rely on the step before them in the same function.
Followers ==
  {"number", "setAddress", "put", "loading", "unloading"}
    \cup (IF family = "geth" THEN {"accountNew", "import", "readAccount", "mapUnlock"} ELSE {})
    \cup (IF family = "anvil" THEN {"accountNew", "mapUnlock"} ELSE {})
    \cup (IF Utxo THEN {"txLock", "sendtoaddress", "txUnlock"} ELSE {})
    \cup (IF family = "utxo" /\ ~unloadAfterUse THEN WalletCommands ELSE {})

\* What a follower follows.  The commands of LoadWallet and UnloadWallet follow
\* nothing: only MuLock turns a script's first step into them.
Before(n) ==
  CASE n = "number" -> IF family = "anvil" THEN {"accountNew"} ELSE {"accountNew", "import"}
    [] n \in {"accountNew", "import"} -> {"reserveName"}
    [] n = "readAccount" -> {"mapLock"}
    [] n = "mapUnlock" -> IF family = "anvil" THEN {"number"} ELSE {"number", "readAccount"}
    [] n = "setAddress" -> {"getnewaddress"}
    [] n = "put" -> IF family = "utxo" THEN {"createwallet"} ELSE {"import"}
    [] n = "txLock" -> {"forUse"} \cup Begins
    [] n = "sendtoaddress" -> {"txLock"}
    [] n = "txUnlock" -> {"sendtoaddress"}
    [] n \in {"loading", "unloading"} -> {}
    [] OTHER -> {"forNewAddress", "forUse", "keyOfAddress", "put"}

\* Every follower has its predecessor, with the same key name, unless that
\* already ran and the follower is the first step left.
Linked(s, whole) ==
  \A i \in DOMAIN s :
    /\ s[i][1] \notin Foreign
    /\ s[i][1] \in Followers => IF i = 1 THEN ~whole ELSE s[i-1] \in Before(s[i][1]) \X {s[i][2]}
    /\ s[i][1] = "txLock" /\ i > 1 /\ s[i-1][1] \in Begins =>
         IF i = 2 THEN ~whole ELSE s[i-2] = <<"forUse", s[i][2]>>

\* The script still contains a step of that name.
Has(s, n) == \E i \in DOMAIN s : s[i][1] = n

\* The order of SendFunds: the outputs are listed and picked under txLock.
Rank(n) ==
  CASE n = "txLock" -> 1 [] n = "listunspent" -> 2 [] n = "createrawtransaction" -> 3
    [] n = "sendrawtransaction" -> 4 [] n \in {"sendtoaddress", "txUnlock"} -> 5 [] OTHER -> 0
Ranked(s) ==
  \A i, j \in DOMAIN s : i < j /\ Rank(s[i][1]) > 0 /\ Rank(s[j][1]) > 0 => Rank(s[i][1]) < Rank(s[j][1])
OneKey(s) == \A i, j \in DOMAIN s : s[i][2] = s[j][2]

\* A script that still sends has one key name and its steps in that order.
Ordered(s) == Has(s, "sendrawtransaction") => OneKey(s) /\ Ranked(s)

\* How far before an UnloadWallet its LoadWallet stands, told by the step just
\* before the UnloadWallet.
Gap(n) ==
  CASE n = "put" -> 1
    [] n \in {"listunspent", "signrawtransaction", "getbalance", "getwalletinfo"} -> 2
    [] n = "setAddress" -> 3
    [] n = "txUnlock" -> 4
    [] n = "sendrawtransaction" -> 14
    [] OTHER -> 0

\* Position of the step that took the load an UnloadWallet gives back.
Opener(s, i) == i - Gap(s[i-1][1])
IsEnd(s, i) == i \in DOMAIN s /\ s[i][1] \in Ends

\* Steps that end a call without an error or replace its script: no load is held there.
Leavers == {"keyOfAddress", "version"}

\* What takes a load: LoadWallet, and createwallet's entry, made with a count of 1.
Opens == Begins \cup {"put"}

\* Loads and unloads match: every UnloadWallet has an opener of its own, behind
\* it in the script unless that already ran, every opener is given back, and the
\* steps between belong to one key name.
Nested(s, whole) ==
  \A i \in DOMAIN s :
    /\ IsEnd(s, i) => IF i = 1 THEN ~whole
         ELSE /\ Gap(s[i-1][1]) > 0
              /\ IF Opener(s, i) < 1 THEN ~whole ELSE s[Opener(s, i)][1] \in Opens
              /\ \A j \in DOMAIN s : Opener(s, i) <= j /\ j <= i => s[j][2] = s[i][2]
              /\ \A j \in DOMAIN s : j > 1 /\ j # i /\ IsEnd(s, j) => Opener(s, j) # Opener(s, i)
              /\ \A j \in DOMAIN s : j < i /\ s[j][1] \in Leavers => Opener(s, i) > j
    /\ s[i][1] \in Opens => \E j \in DOMAIN s : j > i /\ IsEnd(s, j) /\ Opener(s, j) = i
    /\ s[i][1] = "createwallet" => i + 1 \in DOMAIN s /\ s[i+1] = <<"put", s[i][2]>>
    /\ s[i][1] \in {"listunspent", "signrawtransaction", "getbalance", "getwalletinfo"} =>
         i + 1 \in DOMAIN s /\ s[i+1] = <<"unload", s[i][2]>>
    /\ s[i][1] = "getnewaddress" => i + 2 \in DOMAIN s /\ s[i+1][1] = "setAddress"
         /\ s[i+2] = <<"unload", s[i][2]>>
    /\ s[i][1] = "sendtoaddress" => i + 2 \in DOMAIN s /\ s[i+1][1] = "txUnlock"
         /\ s[i+2] = <<"unload", s[i][2]>>

\* geth: the account that a command makes is numbered by the next step.
Paired(s) == \A i \in DOMAIN s : s[i][1] \in {"accountNew", "import"} => i + 1 \in DOMAIN s
  /\ s[i+1][1] = "number"

\* What every script keeps while it runs.
Shape(s) == Linked(s, FALSE) /\ Ordered(s) /\ (Counts => Nested(s, FALSE)) /\ (family = "geth" => Paired(s))

\* What a whole script has, which goes on as concatenation builds it.
Sound(s) == s \in Scripts /\ Linked(s, TRUE) /\ (Counts => Nested(s, TRUE))

----------------------------------------------------------------------------
(* Scripts: what their shape keeps as steps are done, turned and put in a row. *)

\* Positions and elements of a script.
LEMMA ScriptFacts ==
  ASSUME NEW s \in Scripts
  PROVE
  /\ Len(s) \in Nat /\ DOMAIN s = 1..Len(s)
  /\ s # <<>> => Len(s) > 0 /\ 1 \in DOMAIN s
  /\ \A i \in DOMAIN s : i \in Nat /\ i > 0 /\ s[i][1] \in Names /\ s[i][2] \in KeyNames
       /\ s[i] = <<s[i][1], s[i][2]>>
<1>1. Len(s) \in Nat /\ DOMAIN s = 1..Len(s) BY DEF Scripts
<1>2. \A i \in 1..Len(s) : s[i] \in Names \X KeyNames BY DEF Scripts
<1>3. s # <<>> => Len(s) > 0 BY DEF Scripts
<1> QED BY <1>1, <1>2, <1>3

\* The script after its first step.
LEMMA TailFacts ==
  ASSUME NEW s \in Scripts, s # <<>>
  PROVE
  /\ Tail(s) \in Scripts /\ Len(Tail(s)) = Len(s) - 1
  /\ \A i \in DOMAIN Tail(s) : i \in Nat /\ i > 0 /\ i + 1 \in DOMAIN s /\ Tail(s)[i] = s[i+1]
  /\ \A i \in DOMAIN s : i > 1 => i - 1 \in DOMAIN Tail(s) /\ Tail(s)[i-1] = s[i]
<1>1. Tail(s) \in Scripts /\ Len(Tail(s)) = Len(s) - 1 /\ \A i \in 1..Len(Tail(s)) : Tail(s)[i] = s[i+1]
   BY HeadTailProperties DEF Scripts
<1>2. DOMAIN s = 1..Len(s) /\ DOMAIN Tail(s) = 1..Len(Tail(s)) /\ Len(s) \in Nat BY <1>1, ScriptFacts
<1> QED BY <1>1, <1>2

\* A script whose first step got another name (Turn).
Renamed(s, n) == [s EXCEPT ![1][1] = n]

\* The script after its first step was turned.
LEMMA RenamedFacts ==
  ASSUME NEW s \in Scripts, s # <<>>, NEW n \in Names
  PROVE
  /\ Renamed(s, n) \in Scripts /\ DOMAIN Renamed(s, n) = DOMAIN s /\ Len(Renamed(s, n)) = Len(s)
  /\ Renamed(s, n)[1] = <<n, s[1][2]>>
  /\ \A i \in DOMAIN s : i > 1 => Renamed(s, n)[i] = s[i]
<1>1. Len(s) \in Nat /\ 1 \in 1..Len(s) /\ s[1] \in Names \X KeyNames BY ScriptFacts
<1>2. [s[1] EXCEPT ![1] = n] = <<n, s[1][2]>> BY <1>1
<1>3. Renamed(s, n) = [s EXCEPT ![1] = <<n, s[1][2]>>] BY <1>2 DEF Renamed
<1>4. <<n, s[1][2]>> \in Names \X KeyNames BY <1>1
<1>5. Renamed(s, n) \in Scripts /\ Len(Renamed(s, n)) = Len(s)
    BY <1>1, <1>3, <1>4, ExceptSeq DEF Scripts
<1>6. \A j \in 1..Len(s) : Renamed(s, n)[j] = IF j = 1 THEN <<n, s[1][2]>> ELSE s[j]
    BY <1>1, <1>3, <1>4, ExceptSeq DEF Scripts
<1>7. DOMAIN Renamed(s, n) = DOMAIN s BY <1>3
<1> QED BY <1>1, <1>5, <1>6, <1>7, ScriptFacts

\* Two scripts in a row.
LEMMA Concat ==
  ASSUME NEW a \in Scripts, NEW b \in Scripts
  PROVE
  /\ a \o b \in Scripts /\ Len(a \o b) = Len(a) + Len(b) /\ Len(a) \in Nat
  /\ \A i \in DOMAIN a : i <= Len(a) /\ i \in DOMAIN (a \o b) /\ (a \o b)[i] = a[i]
  /\ \A i \in DOMAIN b : i > 0 /\ i \in Nat /\ Len(a) + i \in DOMAIN (a \o b) /\ (a \o b)[Len(a) + i] = b[i]
  /\ \A i \in DOMAIN (a \o b) : i \in DOMAIN a \/ i - Len(a) \in DOMAIN b
<1>1. a \o b \in Scripts /\ Len(a \o b) = Len(a) + Len(b) BY ConcatProperties DEF Scripts
<1>2. \A i \in 1..Len(a) + Len(b) : (a \o b)[i] = IF i <= Len(a) THEN a[i] ELSE b[i - Len(a)]
    BY ConcatProperties DEF Scripts
<1>3. /\ DOMAIN a = 1..Len(a) /\ DOMAIN b = 1..Len(b) /\ DOMAIN (a \o b) = 1..(Len(a) + Len(b))
      /\ Len(a) \in Nat /\ Len(b) \in Nat BY <1>1, ScriptFacts
<1> HIDE DEF Scripts
<1> QED BY <1>1, <1>2, <1>3

\* Linked, at one position.
LinkedAt(s, whole, i) ==
    /\ s[i][1] \notin Foreign
    /\ s[i][1] \in Followers => IF i = 1 THEN ~whole ELSE s[i-1] \in Before(s[i][1]) \X {s[i][2]}
    /\ s[i][1] = "txLock" /\ i > 1 /\ s[i-1][1] \in Begins =>
         IF i = 2 THEN ~whole ELSE s[i-2] = <<"forUse", s[i][2]>>

\* A step that is done leaves the rest linked.
LEMMA LinkedTail ==
  ASSUME NEW s \in Scripts, s # <<>>, Linked(s, FALSE)
  PROVE  Linked(Tail(s), FALSE)
<1> SUFFICES ASSUME NEW i \in DOMAIN Tail(s) PROVE LinkedAt(Tail(s), FALSE, i) BY DEF Linked, LinkedAt
<1>1. i \in Nat /\ i > 0 /\ i + 1 \in DOMAIN s /\ Tail(s)[i] = s[i+1] BY TailFacts
<1>2. i > 1 => Tail(s)[i-1] = s[i] BY <1>1, TailFacts, ScriptFacts
<1>3. i > 2 => Tail(s)[i-2] = s[i-1]
   <2> SUFFICES ASSUME i > 2 PROVE i - 1 \in DOMAIN s /\ (i - 1) - 1 = i - 2 BY TailFacts
   <2> QED BY <1>1, ScriptFacts
<1>4. LinkedAt(s, FALSE, i + 1) BY <1>1 DEF Linked, LinkedAt
<1>5. (i+1)-1 = i /\ (i + 1) - 2 = i - 1 BY <1>1
<1> HIDE DEF Scripts
<1> QED BY <1>1, <1>2, <1>3, <1>4, <1>5 DEF LinkedAt

\* The names a step is turned into: MuLock, Wait, DialAgain.
Turned == {<<"load", "loading">>, <<"unload", "unloading">>, <<"wait", "waiting">>, <<"dial", "redial">>}

\* So does a step that is turned.
LEMMA LinkedRenamed ==
  ASSUME NEW s \in Scripts, s # <<>>, Linked(s, FALSE), NEW n, <<s[1][1], n>> \in Turned
  PROVE  n \in Names /\ Linked(Renamed(s, n), FALSE)
<1>1. n \in Names BY DEF Turned, Names, Commands, PlainCommands
<1> SUFFICES ASSUME NEW i \in DOMAIN Renamed(s, n) PROVE LinkedAt(Renamed(s, n), FALSE, i)
    BY <1>1 DEF Linked, LinkedAt
<1> DEFINE r == Renamed(s, n)
<1>2. DOMAIN r = DOMAIN s /\ r[1] = <<n, s[1][2]>> /\ \A j \in DOMAIN s : j > 1 => r[j] = s[j]
    BY <1>1, RenamedFacts
<1>3. 1 \in DOMAIN s /\ i \in Nat /\ i > 0 /\ i \in DOMAIN s BY <1>2, ScriptFacts
<1>4. LinkedAt(s, FALSE, i) /\ LinkedAt(s, FALSE, 1) BY <1>3 DEF Linked, LinkedAt
<1>5. /\ s[1][1] \notin Foreign => n \notin Foreign
      /\ \A m : s[1][1] \in Before(m) => n \in Before(m)
      /\ s[1][1] \in Begins <=> n \in Begins
      /\ s[1][1] # "forUse"
   BY DEF Turned, Foreign, Before, Begins, Ends, LookSteps
<1>6. CASE i = 1
   <2>1. r[1][1] = n BY <1>2
   <2> QED BY <1>3, <1>4, <1>5, <1>6, <2>1 DEF LinkedAt
<1>7. CASE i = 2
   <2>1. r[2] = s[2] /\ r[1] = <<n, s[1][2]>> /\ r[1][1] = n /\ r[1][2] = s[1][2] BY <1>2, <1>3, <1>7
   <2>2. s[1] = <<s[1][1], s[1][2]>> BY <1>3, ScriptFacts
   <2>3. s[1] \in Before(s[2][1]) \X {s[2][2]} => r[1] \in Before(s[2][1]) \X {s[2][2]}
       BY <2>1, <2>2, <1>5
   <2> HIDE DEF r
   <2>4. LinkedAt(r, FALSE, 2) BY <1>4, <1>5, <1>7, <2>1, <2>3 DEF LinkedAt
   <2> QED BY <1>7, <2>4 DEF r
<1>8. CASE i > 2
   <2>1. i - 1 \in DOMAIN s /\ i - 2 \in DOMAIN s /\ i - 1 > 1 BY <1>3, <1>8, ScriptFacts
   <2>2. r[i] = s[i] /\ r[i-1] = s[i-1] BY <1>2, <1>3, <1>8, <2>1
   <2>3. i = 3 \/ r[i-2] = s[i-2] BY <1>2, <1>3, <1>8, <2>1
   <2>4. i = 3 => s[i-2] # <<"forUse", s[i][2]>> BY <1>5
   <2> HIDE DEF r, Scripts
   <2>5. LinkedAt(r, FALSE, i) BY <1>4, <1>3, <1>8, <2>2, <2>3, <2>4 DEF LinkedAt
   <2> QED BY <2>5 DEF r
<1>9. i = 1 \/ i = 2 \/ i > 2 BY <1>3
<1> QED BY <1>6, <1>7, <1>8, <1>9

\* Whole scripts in a row are linked.
LEMMA LinkedConcat ==
  ASSUME NEW a \in Scripts, NEW b \in Scripts, Linked(a, TRUE), Linked(b, TRUE)
  PROVE  Linked(a \o b, TRUE)
<1> SUFFICES ASSUME NEW i \in DOMAIN (a \o b) PROVE LinkedAt(a \o b, TRUE, i) BY DEF Linked, LinkedAt
<1> DEFINE c == a \o b
<1>1. c \in Scripts /\ Len(a) \in Nat BY Concat
<1>2. \A j \in DOMAIN a : j <= Len(a) /\ c[j] = a[j] BY Concat
<1>3. \A j \in DOMAIN b : c[Len(a) + j] = b[j] BY Concat
<1>4. DOMAIN a = 1..Len(a) /\ DOMAIN b = 1..Len(b) /\ Len(b) \in Nat BY ScriptFacts
<1>5. CASE i \in DOMAIN a
   <2>1. LinkedAt(a, TRUE, i) BY <1>5 DEF Linked, LinkedAt
   <2>2. c[i] = a[i] /\ (i > 1 => c[i-1] = a[i-1]) /\ (i > 2 => c[i-2] = a[i-2])
       BY <1>1, <1>2, <1>4, <1>5
   <2>3. i \in Nat /\ i > 0 BY <1>4, <1>5
   <2> HIDE DEF c, Scripts
   <2>4. LinkedAt(c, TRUE, i) BY <2>1, <2>2, <2>3 DEF LinkedAt
   <2> QED BY <2>4 DEF c
<1>6. CASE i - Len(a) \in DOMAIN b
   <2> DEFINE j == i - Len(a)
   <2>1. LinkedAt(b, TRUE, j) BY <1>6 DEF Linked, LinkedAt
   <2>2. i \in Nat BY ONLY <1>1, ScriptFacts, i \in DOMAIN (a \o b)
   <2>3. j \in Nat /\ j > 0 /\ j \in 1..Len(b) /\ i = Len(a) + j BY <1>4, <1>6, <1>1, <2>2
   <2>4. c[i] = b[j] BY <1>3, <1>6, <2>3
   <2>5. j > 1 => c[i-1] = b[j-1]
      <3> SUFFICES ASSUME j > 1 PROVE c[Len(a) + (j - 1)] = b[j - 1] BY <2>3, <1>1
      <3>1. j - 1 \in DOMAIN b BY <1>4, <2>3
      <3> QED BY <3>1, <1>3
   <2>6. j > 2 => c[i-2] = b[j-2]
      <3> SUFFICES ASSUME j > 2 PROVE c[Len(a) + (j - 2)] = b[j - 2] BY <2>3, <1>1
      <3>1. j - 2 \in DOMAIN b BY <1>4, <2>3
      <3> QED BY <3>1, <1>3
   <2>7. j = 1 \/ i > 1 BY <2>3, <1>1
   <2>8. j = 1 \/ j = 2 \/ i # 2 BY <2>3, <1>1
   <2>9. j = 1 => c[i][1] \notin Followers BY <2>1, <2>4 DEF LinkedAt
   <2>10. j = 1 /\ i > 1 => ~(c[i][1] = "txLock" /\ c[i-1][1] \in Begins)
      <3> SUFFICES ASSUME j = 1, i > 1, c[i][1] = "txLock", c[i-1][1] \in Begins PROVE FALSE OBVIOUS
      <3>1. i - 1 = Len(a) /\ Len(a) \in DOMAIN a BY <2>3, <1>1, <1>4
      <3>2. LinkedAt(a, TRUE, Len(a)) /\ c[Len(a)] = a[Len(a)] BY <3>1, <1>2 DEF Linked, LinkedAt
      <3>3. Utxo BY <3>1, <3>2 DEF LinkedAt, Foreign, Counts, Utxo
      <3> QED BY <3>3, <2>9 DEF Followers
   <2> HIDE DEF c, Scripts
   <2>11. CASE j = 1
      <3>1. c[i][1] \notin Foreign BY <2>1, <2>4, <2>11 DEF LinkedAt
      <3>2. i = 1 => ~(i > 1) OBVIOUS
      <3>3. LinkedAt(c, TRUE, i) BY <3>1, <3>2, <2>9, <2>10, <2>11 DEF LinkedAt
      <3> QED BY <3>3 DEF c
   <2>12. CASE j # 1
      <3>1. j > 1 /\ i > 1 /\ i # 1 BY <2>3, <2>12, <1>1
      <3>2. j > 2 \/ j = 2 BY <2>3, <2>12
      <3>3. i = 2 => j = 2 BY <2>3, <2>12, <1>1
      <3> HIDE DEF j
      <3>4. LinkedAt(c, TRUE, i) BY <3>1, <3>2, <3>3, <2>1, <2>4, <2>5, <2>6 DEF LinkedAt
      <3> QED BY <3>4 DEF c
   <2> QED BY <2>11, <2>12
<1> QED BY <1>5, <1>6, Concat

\* The order of SendFunds is kept as its steps are done.
LEMMA OrderedTail == ASSUME NEW s \in Scripts, s # <<>>, Ordered(s) PROVE Ordered(Tail(s))
<1> SUFFICES ASSUME Has(Tail(s), "sendrawtransaction") PROVE OneKey(Tail(s)) /\ Ranked(Tail(s))
    BY DEF Ordered
<1>1. \A i \in DOMAIN Tail(s) : i \in Nat /\ i > 0 /\ i + 1 \in DOMAIN s /\ Tail(s)[i] = s[i+1]
    BY TailFacts
<1>2. Has(s, "sendrawtransaction") BY <1>1 DEF Has
<1>3. OneKey(s) /\ Ranked(s) BY <1>2 DEF Ordered
<1>4. OneKey(Tail(s)) BY <1>1, <1>3 DEF OneKey
<1>5. ASSUME NEW i \in DOMAIN Tail(s), NEW j \in DOMAIN Tail(s), i < j, Rank(Tail(s)[i][1]) > 0,
      Rank(Tail(s)[j][1]) > 0
      PROVE Rank(Tail(s)[i][1]) < Rank(Tail(s)[j][1])
   <2>1. i + 1 \in DOMAIN s /\ j + 1 \in DOMAIN s /\ i + 1 < j + 1 BY <1>1, <1>5
   <2> QED BY <2>1, <1>1, <1>3, <1>5 DEF Ranked
<1> QED BY <1>4, <1>5 DEF Ranked

\* And as they are turned, none of the ranked steps being one that is.
LEMMA OrderedRenamed ==
  ASSUME NEW s \in Scripts, s # <<>>, Ordered(s), NEW n, <<s[1][1], n>> \in Turned
  PROVE
    /\ Ordered(Renamed(s, n))
    /\ \A m \in {"sendrawtransaction", "txLock", "listunspent", "createrawtransaction"} :
         Has(Renamed(s, n), m) <=> Has(s, m)
<1> DEFINE r == Renamed(s, n)
<1>1. n \in Names BY DEF Turned, Names, Commands, PlainCommands
<1>2. DOMAIN r = DOMAIN s /\ r[1] = <<n, s[1][2]>> /\ \A j \in DOMAIN s : j > 1 => r[j] = s[j]
    BY <1>1, RenamedFacts
<1>3. \A j \in DOMAIN s : j \in Nat /\ j > 0 BY ScriptFacts
<1>4. Rank(n) = 0 /\ Rank(s[1][1]) = 0
      /\ {n, s[1][1]} \cap {"sendrawtransaction", "txLock", "listunspent", "createrawtransaction"} = {}
    BY DEF Turned, Rank
<1>5. \A j \in DOMAIN s : j = 1 \/ r[j] = s[j] BY <1>2, <1>3
<1>6. r[1][1] = n /\ r[1][2] = s[1][2] BY <1>2
<1> HIDE DEF r, Scripts
<1>7. \A m \in {"sendrawtransaction", "txLock", "listunspent", "createrawtransaction"} : Has(r, m)
      <=> Has(s, m)
   BY <1>2, <1>4, <1>5, <1>6 DEF Has
<1>8. OneKey(s) => OneKey(r)
   <2> SUFFICES ASSUME OneKey(s), NEW i \in DOMAIN r, NEW j \in DOMAIN r PROVE r[i][2] = r[j][2]
       BY DEF OneKey
   <2>1. r[i][2] = s[i][2] /\ r[j][2] = s[j][2] BY <1>2, <1>5, <1>6
   <2> QED BY <2>1, <1>2 DEF OneKey
<1>9. Ranked(s) => Ranked(r)
   <2> SUFFICES ASSUME Ranked(s), NEW i \in DOMAIN r, NEW j \in DOMAIN r, i < j, Rank(r[i][1]) > 0,
         Rank(r[j][1]) > 0
                PROVE Rank(r[i][1]) < Rank(r[j][1]) BY DEF Ranked
   <2>1. i # 1 /\ j # 1 BY <1>4, <1>6
   <2>2. r[i] = s[i] /\ r[j] = s[j] BY <2>1, <1>2, <1>5
   <2> QED BY <2>2, <1>2 DEF Ranked
<1>10. Ordered(r) BY <1>7, <1>8, <1>9 DEF Ordered
<1> QED BY <1>7, <1>10 DEF r

\* Pairs are kept as steps are done.
LEMMA PairedTail == ASSUME NEW s \in Scripts, s # <<>>, Paired(s) PROVE Paired(Tail(s))
<1> SUFFICES ASSUME NEW i \in DOMAIN Tail(s), Tail(s)[i][1] \in {"accountNew", "import"}
             PROVE i + 1 \in DOMAIN Tail(s) /\ Tail(s)[i+1][1] = "number" BY DEF Paired
<1>1. i \in Nat /\ i > 0 /\ i + 1 \in DOMAIN s /\ Tail(s)[i] = s[i+1] BY TailFacts
<1>2. (i + 1) + 1 \in DOMAIN s /\ s[(i+1)+1][1] = "number" BY <1>1 DEF Paired
<1>3. ((i + 1) + 1) - 1 \in DOMAIN Tail(s) /\ Tail(s)[((i+1)+1)-1] = s[(i+1)+1] BY <1>1, <1>2, TailFacts
<1>4. ((i + 1) + 1) - 1 = i + 1 BY <1>1
<1> QED BY <1>2, <1>3, <1>4

\* And as they are turned.
LEMMA PairedRenamed ==
  ASSUME NEW s \in Scripts, s # <<>>, Paired(s), NEW n, <<s[1][1], n>> \in Turned
  PROVE  Paired(Renamed(s, n))
<1> DEFINE r == Renamed(s, n)
<1>1. n \in Names BY DEF Turned, Names, Commands, PlainCommands
<1>2. DOMAIN r = DOMAIN s /\ r[1] = <<n, s[1][2]>> /\ \A j \in DOMAIN s : j > 1 => r[j] = s[j]
    BY <1>1, RenamedFacts
<1>3. \A j \in DOMAIN s : j \in Nat /\ j > 0 BY ScriptFacts
<1>4. r[1][1] \notin {"accountNew", "import"} BY <1>2 DEF Turned
<1> HIDE DEF r
<1>5. ASSUME NEW i \in DOMAIN r, r[i][1] \in {"accountNew", "import"} PROVE i + 1 \in DOMAIN r
      /\ r[i+1][1] = "number"
   <2>1. i \in DOMAIN s /\ i > 1 /\ i + 1 > 1 /\ r[i] = s[i] BY <1>2, <1>3, <1>4, <1>5
   <2>2. i + 1 \in DOMAIN s /\ s[i+1][1] = "number" BY <1>5, <2>1 DEF Paired
   <2> QED BY <2>1, <2>2, <1>2
<1>6. Paired(r) BY <1>5 DEF Paired
<1> QED BY <1>6 DEF r

\* Commands that an UnloadWallet follows.
Inner == {"listunspent", "signrawtransaction", "getbalance", "getwalletinfo"}

\* Nested, at one position, part by part.
EndAt(s, whole, i) ==
  /\ Gap(s[i-1][1]) > 0
  /\ IF Opener(s, i) < 1 THEN ~whole ELSE s[Opener(s, i)][1] \in Opens
  /\ \A j \in DOMAIN s : Opener(s, i) <= j /\ j <= i => s[j][2] = s[i][2]
  /\ \A j \in DOMAIN s : j > 1 /\ j # i /\ IsEnd(s, j) => Opener(s, j) # Opener(s, i)
  /\ \A j \in DOMAIN s : j < i /\ s[j][1] \in Leavers => Opener(s, i) > j
OpenAt(s, i) == s[i][1] \in Opens => \E j \in DOMAIN s : j > i /\ IsEnd(s, j) /\ Opener(s, j) = i
NextAt(s, i) ==
    /\ s[i][1] = "createwallet" => i + 1 \in DOMAIN s /\ s[i+1] = <<"put", s[i][2]>>
    /\ s[i][1] \in Inner => i + 1 \in DOMAIN s /\ s[i+1] = <<"unload", s[i][2]>>
    /\ s[i][1] = "getnewaddress" => i + 2 \in DOMAIN s /\ s[i+1][1] = "setAddress"
         /\ s[i+2] = <<"unload", s[i][2]>>
    /\ s[i][1] = "sendtoaddress" => i + 2 \in DOMAIN s /\ s[i+1][1] = "txUnlock"
         /\ s[i+2] = <<"unload", s[i][2]>>
NestedAt(s, whole, i) ==
  /\ IsEnd(s, i) => IF i = 1 THEN ~whole ELSE EndAt(s, whole, i)
  /\ OpenAt(s, i)
  /\ NextAt(s, i)

\* Nested, position by position.
LEMMA NestedParts ==
  ASSUME NEW s, NEW whole
  PROVE  Nested(s, whole) <=> \A i \in DOMAIN s : NestedAt(s, whole, i)
BY DEF Nested, NestedAt, EndAt, OpenAt, NextAt, Inner

\* Gap is a number for every step name.
LEMMA GapNat == \A n : Gap(n) \in Nat
BY DEF Gap

\* Loads and unloads still match when a step is done: positions and openers
\* move together, and an opener that ran is before the script.
LEMMA NestedTail ==
  ASSUME NEW s \in Scripts, s # <<>>, Nested(s, FALSE)
  PROVE  Nested(Tail(s), FALSE)
<1> SUFFICES ASSUME NEW i \in DOMAIN Tail(s) PROVE NestedAt(Tail(s), FALSE, i) BY NestedParts
<1> DEFINE r == Tail(s)
<1>1. \A j \in DOMAIN r : j \in Nat /\ j > 0 /\ j + 1 \in DOMAIN s /\ r[j] = s[j+1] BY TailFacts
<1>2. \A j \in DOMAIN s : j \in Nat /\ j > 0 /\ (j > 1 => j - 1 \in DOMAIN r /\ r[j-1] = s[j])
    BY TailFacts, ScriptFacts
<1>3. \A j \in DOMAIN r : IsEnd(r, j) <=> IsEnd(s, j + 1) BY <1>1 DEF IsEnd
<1>4. \A j \in DOMAIN r : j > 1 => r[j-1] = s[j] /\ Opener(r, j) \in Int /\ Opener(s, j + 1) \in Int
      /\ Opener(r, j) = Opener(s, j + 1) - 1
   <2> TAKE j \in DOMAIN r
   <2> HAVE j > 1
   <2>1. j \in Nat /\ j + 1 \in DOMAIN s /\ (j + 1) - 1 = j /\ j \in DOMAIN s BY <1>1, ScriptFacts, SMTT(60)
   <2>2. r[j-1] = s[j] BY <2>1, <1>2
   <2>3. Gap(s[j][1]) \in Nat BY GapNat
   <2> QED BY <2>1, <2>2, <2>3 DEF Opener
<1>5. NestedAt(s, FALSE, i + 1) BY <1>1, NestedParts
<1>6. i \in DOMAIN r /\ i \in Nat /\ i > 0 /\ (i # 1 => i > 1) /\ i + 1 \in DOMAIN s
      /\ r[i] = s[i+1] /\ (i + 1) - 1 = i /\ i + 1 # 1
    BY <1>1
<1> HIDE DEF r, Scripts
<1>7. ASSUME IsEnd(r, i), i # 1 PROVE EndAt(r, FALSE, i)
   <2>1. EndAt(s, FALSE, i + 1) BY <1>3, <1>5, <1>6, <1>7 DEF NestedAt
   <2>2. r[i-1] = s[i] /\ Opener(r, i) = Opener(s, i + 1) - 1 /\ Opener(r, i) \in Int
         /\ Opener(s, i + 1) \in Int
       BY <1>4, <1>6, <1>7
   <2>3. Gap(r[i-1][1]) > 0 BY <2>1, <2>2, <1>6 DEF EndAt
   <2>4. Opener(r, i) >= 1 => r[Opener(r, i)][1] \in Opens
      <3> SUFFICES ASSUME Opener(r, i) >= 1 PROVE r[Opener(r, i)][1] \in Opens OBVIOUS
      <3>1. s[Opener(s, i+1)][1] \in Opens /\ Opener(s, i + 1) > 1 BY <2>1, <2>2 DEF EndAt
      <3>2. Opener(s, i + 1) \in DOMAIN s
         <4>1. Opener(s, i + 1) <= i + 1 BY <1>6, GapNat DEF Opener
         <4>2. DOMAIN s = 1..Len(s) /\ Len(s) \in Nat BY ScriptFacts
         <4> QED BY <4>1, <4>2, <3>1, <2>2, <1>6
      <3> QED BY <3>1, <3>2, <1>2, <2>2
   <2>5. \A j \in DOMAIN r : Opener(r, i) <= j /\ j <= i => r[j][2] = r[i][2]
      <3> SUFFICES ASSUME NEW j \in DOMAIN r, Opener(r, i) <= j, j <= i PROVE r[j][2] = r[i][2] OBVIOUS
      <3>1. j + 1 \in DOMAIN s /\ Opener(s, i + 1) <= j + 1 /\ j + 1 <= i + 1 /\ r[j] = s[j + 1]
          BY <1>1, <1>6, <2>2
      <3> QED BY <3>1, <2>1, <1>6 DEF EndAt
   <2>6. \A j \in DOMAIN r : j > 1 /\ j # i /\ IsEnd(r, j) => Opener(r, j) # Opener(r, i)
      <3> SUFFICES ASSUME NEW j \in DOMAIN r, j > 1, j # i, IsEnd(r, j)
            PROVE Opener(r, j) # Opener(r, i) OBVIOUS
      <3>1. j + 1 \in DOMAIN s /\ j + 1 > 1 /\ j + 1 # i + 1 /\ IsEnd(s, j + 1) BY <1>1, <1>6, <1>3
      <3>2. Opener(s, j + 1) # Opener(s, i + 1) BY <3>1, <2>1 DEF EndAt
      <3> QED BY <3>2, <1>4, <2>2
   <2>7. \A j \in DOMAIN r : j < i /\ r[j][1] \in Leavers => Opener(r, i) > j
      <3> SUFFICES ASSUME NEW j \in DOMAIN r, j < i, r[j][1] \in Leavers PROVE Opener(r, i) > j OBVIOUS
      <3>1. j \in Nat /\ j + 1 \in DOMAIN s /\ j + 1 < i + 1 /\ s[j + 1][1] \in Leavers BY <1>1, <1>6
      <3>2. Opener(s, i + 1) > j + 1 BY <3>1, <2>1 DEF EndAt
      <3> QED BY <3>1, <3>2, <2>2
   <2> QED BY <2>2, <2>3, <2>4, <2>5, <2>6, <2>7 DEF EndAt
<1>8. OpenAt(r, i)
   <2> SUFFICES ASSUME r[i][1] \in Opens PROVE \E j \in DOMAIN r : j > i /\ IsEnd(r, j) /\ Opener(r, j) = i
       BY DEF OpenAt
   <2>1. PICK j \in DOMAIN s : j > i + 1 /\ IsEnd(s, j) /\ Opener(s, j) = i + 1
       BY <1>5, <1>6 DEF NestedAt, OpenAt
   <2>2. j \in Nat /\ j > 1 /\ j - 1 \in DOMAIN r /\ (j - 1) + 1 = j /\ j - 1 > i /\ j - 1 > 1
       BY <2>1, <1>2, <1>6
   <2>3. IsEnd(r, j - 1) BY <2>1, <2>2, <1>3
   <2>4. Opener(r, j - 1) = Opener(s, j) - 1 BY <2>2, <1>4
   <2>5. Opener(r, j - 1) = i BY <2>4, <2>1, <1>6
   <2> QED BY <2>2, <2>3, <2>5
<1>9. NextAt(r, i)
   <2>1. NextAt(s, i + 1) BY <1>5 DEF NestedAt
   <2>2. \A j \in Nat : j > 1 /\ j \in DOMAIN s => j - 1 \in DOMAIN r /\ r[j-1] = s[j] BY <1>2
   <2>3. i + 2 \in DOMAIN s => i + 1 \in DOMAIN r /\ r[i+1] = s[i+2]
      <3>1. (i + 2) - 1 = i + 1 /\ i + 2 \in Nat /\ i + 2 > 1 BY <1>6
      <3> QED BY <2>2, <3>1
   <2>4. i + 3 \in DOMAIN s => i + 2 \in DOMAIN r /\ i + 2 \in DOMAIN s /\ r[i+2] = s[i+3]
      <3>1. (i + 3) - 1 = i + 2 /\ i + 3 \in Nat /\ i + 3 > 1 BY <1>6
      <3>2. i + 3 \in DOMAIN s => i + 2 \in DOMAIN s
         <4>1. DOMAIN s = 1..Len(s) /\ Len(s) \in Nat BY ScriptFacts
         <4> QED BY <4>1, <1>6
      <3> QED BY <2>2, <3>1, <3>2
   <2>5. (i + 1) + 1 = i + 2 /\ (i + 1) + 2 = i + 3 BY <1>6
   <2> QED BY <2>1, <2>3, <2>4, <2>5, <1>6 DEF NextAt
<1>10. NestedAt(r, FALSE, i) BY <1>7, <1>8, <1>9 DEF NestedAt
<1> QED BY <1>10 DEF r

\* And when a step is turned: LoadWallet's stays an opener, UnloadWallet's an end.
LEMMA NestedRenamed ==
  ASSUME NEW s \in Scripts, s # <<>>, Nested(s, FALSE), NEW n, <<s[1][1], n>> \in Turned
  PROVE  Nested(Renamed(s, n), FALSE)
<1> DEFINE r == Renamed(s, n)
<1>1. n \in Names BY DEF Turned, Names, Commands, PlainCommands
<1>2. DOMAIN r = DOMAIN s /\ r[1] = <<n, s[1][2]>> /\ \A j \in DOMAIN s : j > 1 => r[j] = s[j]
    BY <1>1, RenamedFacts
<1>3. \A j \in DOMAIN s : j \in Nat /\ j > 0 BY ScriptFacts
<1>4. r[1][1] = n /\ r[1][2] = s[1][2] /\ \A j \in DOMAIN s : j = 1 \/ r[j] = s[j] BY <1>2, <1>3
<1>5. DOMAIN s = 1..Len(s) /\ Len(s) \in Nat BY ScriptFacts
<1> SUFFICES ASSUME NEW i \in DOMAIN r PROVE NestedAt(r, FALSE, i) BY NestedParts DEF r
<1> HIDE DEF r, Scripts
<1>6. /\ s[1][1] \in Ends <=> n \in Ends
      /\ s[1][1] \in Opens <=> n \in Opens
      /\ Gap(n) = Gap(s[1][1])
      /\ n \notin Inner \cup Leavers \cup {"createwallet", "getnewaddress", "sendtoaddress"}
      /\ s[1][1] \notin Leavers
   BY DEF Turned, Ends, Opens, Begins, Gap, Inner, Leavers
<1>7. \A j \in DOMAIN s : /\ r[j][2] = s[j][2] /\ (IsEnd(r, j) <=> IsEnd(s, j)) /\ (r[j][1] \in Opens <=> s[j][1] \in Opens)
                          /\ Gap(r[j][1]) = Gap(s[j][1]) /\ (r[j][1] \in Leavers <=> s[j][1] \in Leavers)
   BY <1>2, <1>4, <1>6 DEF IsEnd
<1>8. \A j \in DOMAIN s : j > 1 => j - 1 \in DOMAIN s /\ Opener(r, j) = Opener(s, j)
      /\ Opener(s, j) \in Int /\ Opener(s, j) <= j
   <2> TAKE j \in DOMAIN s
   <2> HAVE j > 1
   <2>1. j - 1 \in DOMAIN s /\ j \in Nat BY <1>5
   <2>2. Gap(r[j-1][1]) = Gap(s[j-1][1]) /\ Gap(s[j-1][1]) \in Nat BY <2>1, <1>7, GapNat
   <2> QED BY <2>1, <2>2 DEF Opener
<1>9. NestedAt(s, FALSE, i) /\ i \in DOMAIN s /\ i \in Nat /\ i > 0 BY <1>2, <1>3, NestedParts
<1>10. ASSUME IsEnd(r, i), i # 1 PROVE EndAt(r, FALSE, i)
   <2>1. EndAt(s, FALSE, i) BY <1>7, <1>9, <1>10 DEF NestedAt
   <2>2. i - 1 \in DOMAIN s /\ Opener(r, i) = Opener(s, i) /\ Opener(s, i) \in Int /\ Opener(s, i) <= i
       BY <1>8, <1>9, <1>10
   <2>3. Gap(r[i-1][1]) > 0 BY <2>1, <2>2, <1>7 DEF EndAt
   <2>4. Opener(s, i) < 1 \/ Opener(s, i) \in DOMAIN s BY <2>2, <1>5, <1>9
   <2>5. Opener(s, i) < 1 \/ r[Opener(r, i)][1] \in Opens BY <2>1, <2>2, <2>4, <1>7 DEF EndAt
   <2>6. \A j \in DOMAIN r : Opener(r, i) <= j /\ j <= i => r[j][2] = r[i][2]
       BY <2>1, <2>2, <1>2, <1>7, <1>9 DEF EndAt
   <2>7. \A j \in DOMAIN r : j > 1 /\ j # i /\ IsEnd(r, j) => Opener(r, j) # Opener(r, i)
       BY <2>1, <2>2, <1>2, <1>7, <1>8 DEF EndAt
   <2>8. \A j \in DOMAIN r : j < i /\ r[j][1] \in Leavers => Opener(r, i) > j
       BY <2>1, <2>2, <1>2, <1>7 DEF EndAt
   <2> QED BY <2>2, <2>3, <2>5, <2>6, <2>7, <2>8 DEF EndAt
<1>11. OpenAt(r, i)
   <2> SUFFICES ASSUME r[i][1] \in Opens PROVE \E j \in DOMAIN r : j > i /\ IsEnd(r, j) /\ Opener(r, j) = i
       BY DEF OpenAt
   <2>1. PICK j \in DOMAIN s : j > i /\ IsEnd(s, j) /\ Opener(s, j) = i
       BY <1>7, <1>9 DEF NestedAt, OpenAt
   <2>2. j > 1 BY <2>1, <1>9, <1>3
   <2> QED BY <2>1, <2>2, <1>2, <1>7, <1>8
<1>12. NextAt(r, i)
   <2>1. NextAt(s, i) BY <1>9 DEF NestedAt
   <2>2. i = 1 => r[i][1] \notin Inner \cup {"createwallet", "getnewaddress", "sendtoaddress"}
       BY <1>4, <1>6
   <2>3. i + 1 \in DOMAIN s => r[i+1] = s[i+1] BY <1>2, <1>9
   <2>4. i + 2 \in DOMAIN s => i + 1 \in DOMAIN s /\ r[i+2] = s[i+2]
      <3>1. i + 2 \in DOMAIN s => i + 1 \in DOMAIN s BY <1>5, <1>9
      <3> QED BY <3>1, <1>2, <1>9
   <2> QED BY <2>1, <2>2, <2>3, <2>4, <1>2, <1>4, <1>9 DEF NextAt
<1> QED BY <1>10, <1>11, <1>12 DEF NestedAt

\* Loads and unloads of whole scripts in a row match within each of them.
LEMMA NestedConcat ==
  ASSUME NEW a \in Scripts, NEW b \in Scripts, Nested(a, TRUE), Nested(b, TRUE)
  PROVE  Nested(a \o b, TRUE)
<1> DEFINE c == a \o b
<1>1. c \in Scripts /\ Len(a) \in Nat BY Concat
<1>2. \A j \in DOMAIN a : j \in Nat /\ j > 0 /\ j <= Len(a) /\ j \in DOMAIN c /\ c[j] = a[j]
    BY Concat, ScriptFacts
<1>3. \A j \in DOMAIN b : j \in Nat /\ j > 0 /\ Len(a) + j \in DOMAIN c /\ c[Len(a) + j] = b[j]
    BY Concat, ScriptFacts
<1>4. DOMAIN a = 1..Len(a) /\ DOMAIN b = 1..Len(b) /\ Len(b) \in Nat BY ScriptFacts
<1>5. \A j \in DOMAIN c : j \in DOMAIN a \/ (\E m \in DOMAIN b : j = Len(a) + m)
   <2>1. \A j \in DOMAIN c : j \in DOMAIN a \/ j - Len(a) \in DOMAIN b BY Concat
   <2>2. \A j \in DOMAIN c : j \in Nat BY <1>1, ScriptFacts
   <2>3. \A j \in DOMAIN c : j = Len(a) + (j - Len(a)) BY <1>1, <2>2
   <2> QED BY <2>1, <2>3
<1> SUFFICES ASSUME NEW i \in DOMAIN c PROVE NestedAt(c, TRUE, i) BY NestedParts DEF c
<1> HIDE DEF c, Scripts
<1>6. \A j \in DOMAIN a : IsEnd(c, j) <=> IsEnd(a, j) BY <1>2 DEF IsEnd
<1>7. \A j \in DOMAIN b : IsEnd(c, Len(a) + j) <=> IsEnd(b, j) BY <1>3 DEF IsEnd
<1>8. \A j \in DOMAIN a : IsEnd(a, j) =>
         j > 1 /\ EndAt(a, TRUE, j) /\ Opener(c, j) = Opener(a, j) /\ Opener(a, j) \in Int
           /\ Opener(a, j) >= 1 /\ Opener(a, j) <= j
                                    /\ j - 1 \in DOMAIN a
   <2> TAKE j \in DOMAIN a
   <2> HAVE IsEnd(a, j)
   <2>1. NestedAt(a, TRUE, j) BY NestedParts
   <2>2. j # 1 /\ EndAt(a, TRUE, j) BY <2>1 DEF NestedAt
   <2>3. j > 1 /\ j - 1 \in DOMAIN a /\ j \in Nat BY <2>2, <1>4
   <2>4. Gap(a[j-1][1]) \in Nat BY GapNat
   <2> QED BY <2>2, <2>3, <2>4, <1>2 DEF Opener, EndAt
<1>9. \A j \in DOMAIN b : IsEnd(b, j) =>
         j > 1 /\ EndAt(b, TRUE, j) /\ Opener(c, Len(a) + j) = Len(a) + Opener(b, j)
           /\ Opener(b, j) \in Int /\ Opener(b, j) >= 1 /\ Opener(b, j) <= j
               /\ j - 1 \in DOMAIN b /\ c[(Len(a) + j) - 1] = b[j - 1]
   <2> TAKE j \in DOMAIN b
   <2> HAVE IsEnd(b, j)
   <2>1. NestedAt(b, TRUE, j) BY NestedParts
   <2>2. j # 1 /\ EndAt(b, TRUE, j) BY <2>1 DEF NestedAt
   <2>3. j > 1 /\ j - 1 \in DOMAIN b /\ j \in Nat BY <2>2, <1>4
   <2>4. Gap(b[j-1][1]) \in Nat BY GapNat
   <2>5. (Len(a) + j) - 1 = Len(a) + (j - 1) BY <2>3, <1>1
   <2>6. c[(Len(a) + j) - 1] = b[j-1] BY <2>5, <2>3, <1>3
   <2>7. Opener(c, Len(a) + j) = Len(a) + Opener(b, j) /\ Opener(b, j) \in Int /\ Opener(b, j) <= j
       BY <2>6, <2>4, <2>3, <1>1 DEF Opener
   <2> QED BY <2>2, <2>3, <2>6, <2>7 DEF EndAt
<1>10. CASE i \in DOMAIN a
   <2>1. NestedAt(a, TRUE, i) BY <1>10, NestedParts
   <2>2. c[i] = a[i] /\ i \in Nat /\ i > 0 /\ i <= Len(a) BY <1>10, <1>2
   <2>3. ASSUME IsEnd(c, i) PROVE i # 1 /\ EndAt(c, TRUE, i)
      <3>1. /\ i > 1 /\ EndAt(a, TRUE, i) /\ Opener(c, i) = Opener(a, i) /\ Opener(a, i) \in Int
                 /\ Opener(a, i) >= 1 /\ Opener(a, i) <= i
            /\ i - 1 \in DOMAIN a BY <1>10, <2>3, <1>6, <1>8
      <3>2. Gap(c[i-1][1]) > 0 BY <3>1, <1>2 DEF EndAt
      <3>3. Opener(a, i) \in DOMAIN a BY <3>1, <2>2, <1>4
      <3>4. c[Opener(c, i)][1] \in Opens BY <3>1, <3>3, <1>2 DEF EndAt
      <3>5. \A j \in DOMAIN c : Opener(c, i) <= j /\ j <= i => c[j][2] = c[i][2]
         <4> SUFFICES ASSUME NEW j \in DOMAIN c, Opener(c, i) <= j, j <= i PROVE c[j][2] = c[i][2] OBVIOUS
         <4>1. j \in DOMAIN a BY <1>5, <2>2, <1>3, <1>1
         <4> QED BY <4>1, <3>1, <1>2, <2>2 DEF EndAt
      <3>6. \A j \in DOMAIN c : j > 1 /\ j # i /\ IsEnd(c, j) => Opener(c, j) # Opener(c, i)
         <4> SUFFICES ASSUME NEW j \in DOMAIN c, j > 1, j # i, IsEnd(c, j)
               PROVE Opener(c, j) # Opener(c, i) OBVIOUS
         <4>1. CASE j \in DOMAIN a BY <4>1, <3>1, <1>6, <1>8 DEF EndAt
         <4>2. ASSUME NEW m \in DOMAIN b, j = Len(a) + m PROVE Opener(c, j) # Opener(c, i)
            <5>1. Opener(c, j) = Len(a) + Opener(b, m) /\ Opener(b, m) \in Int /\ Opener(b, m) >= 1
                BY <4>2, <1>7, <1>9
            <5> QED BY <5>1, <3>1, <2>2, <1>1
         <4> QED BY <4>1, <4>2, <1>5
      <3>7. \A j \in DOMAIN c : j < i /\ c[j][1] \in Leavers => Opener(c, i) > j
         <4> SUFFICES ASSUME NEW j \in DOMAIN c, j < i, c[j][1] \in Leavers PROVE Opener(c, i) > j OBVIOUS
         <4>1. j \in DOMAIN a BY <1>5, <2>2, <1>3, <1>1
         <4> QED BY <4>1, <3>1, <1>2, <2>2 DEF EndAt
      <3> QED BY <3>1, <3>2, <3>4, <3>5, <3>6, <3>7 DEF EndAt
   <2>4. OpenAt(c, i)
      <3> SUFFICES ASSUME c[i][1] \in Opens PROVE \E j \in DOMAIN c : j > i /\ IsEnd(c, j)
            /\ Opener(c, j) = i
          BY DEF OpenAt
      <3>1. PICK j \in DOMAIN a : j > i /\ IsEnd(a, j) /\ Opener(a, j) = i
          BY <2>1, <2>2 DEF NestedAt, OpenAt
      <3> QED BY <3>1, <1>2, <1>6, <1>8
   <2>5. NextAt(c, i)
      <3>1. NextAt(a, i) BY <2>1 DEF NestedAt
      <3>2. i + 2 \in DOMAIN a => i + 1 \in DOMAIN a BY <1>4, <2>2
      <3> QED BY <3>1, <3>2, <1>2, <2>2 DEF NextAt
   <2> QED BY <2>3, <2>4, <2>5 DEF NestedAt
<1>11. ASSUME NEW m \in DOMAIN b, i = Len(a) + m PROVE NestedAt(c, TRUE, i)
   <2>1. NestedAt(b, TRUE, m) BY NestedParts
   <2>2. c[i] = b[m] /\ i \in Nat /\ i > 0 /\ i > Len(a) /\ m \in Nat /\ m > 0 BY <1>11, <1>3, <1>1
   <2>3. ASSUME IsEnd(c, i) PROVE i # 1 /\ EndAt(c, TRUE, i)
      <3>1. /\ m > 1 /\ EndAt(b, TRUE, m) /\ Opener(c, i) = Len(a) + Opener(b, m)
                 /\ Opener(b, m) \in Int /\ Opener(b, m) >= 1 /\ Opener(b, m) <= m
            /\ c[i-1] = b[m - 1] BY <1>11, <2>3, <1>7, <1>9
      <3>2. Gap(c[i-1][1]) > 0 /\ i # 1 BY <3>1, <2>2, <1>11, <1>1 DEF EndAt
      <3>3. Opener(b, m) \in DOMAIN b BY <3>1, <2>2, <1>4
      <3>4. c[Opener(c, i)][1] \in Opens /\ ~(Opener(c, i) < 1) BY <3>1, <3>3, <1>3, <1>1 DEF EndAt
      <3>5. \A j \in DOMAIN c : Opener(c, i) <= j /\ j <= i => c[j][2] = c[i][2]
         <4> SUFFICES ASSUME NEW j \in DOMAIN c, Opener(c, i) <= j, j <= i PROVE c[j][2] = c[i][2] OBVIOUS
         <4>1. PICK w \in DOMAIN b : j = Len(a) + w BY <1>5, <1>2, <1>1, <3>1
         <4>2. Opener(b, m) <= w /\ w <= m /\ c[j] = b[w] BY <4>1, <3>1, <1>11, <1>1, <1>3, <2>2
         <4> QED BY <4>2, <3>1, <2>2 DEF EndAt
      <3>6. \A j \in DOMAIN c : j > 1 /\ j # i /\ IsEnd(c, j) => Opener(c, j) # Opener(c, i)
         <4> SUFFICES ASSUME NEW j \in DOMAIN c, j > 1, j # i, IsEnd(c, j)
               PROVE Opener(c, j) # Opener(c, i) OBVIOUS
         <4>1. CASE j \in DOMAIN a
            <5>1. Opener(c, j) \in Int /\ Opener(c, j) <= j /\ j <= Len(a) /\ j \in Nat
                BY <4>1, <1>2, <1>6, <1>8
            <5> QED BY <5>1, <3>1, <1>1
         <4>2. ASSUME NEW w \in DOMAIN b, j = Len(a) + w PROVE Opener(c, j) # Opener(c, i)
            <5>1. Opener(c, j) = Len(a) + Opener(b, w) /\ Opener(b, w) \in Int /\ IsEnd(b, w) /\ w > 1
                BY <4>2, <1>7, <1>9
            <5>2. w # m BY <4>2, <1>11
            <5>3. Opener(b, w) # Opener(b, m) BY <5>1, <5>2, <3>1 DEF EndAt
            <5> QED BY <5>1, <5>3, <3>1, <1>1
         <4> QED BY <4>1, <4>2, <1>5
      <3>7. \A j \in DOMAIN c : j < i /\ c[j][1] \in Leavers => Opener(c, i) > j
         <4> SUFFICES ASSUME NEW j \in DOMAIN c, j < i, c[j][1] \in Leavers PROVE Opener(c, i) > j OBVIOUS
         <4>1. j \in DOMAIN a => Opener(c, i) > j BY <3>1, <1>2, <1>1
         <4>2. ASSUME NEW w \in DOMAIN b, j = Len(a) + w PROVE Opener(c, i) > j
            <5>1. w < m /\ b[w][1] \in Leavers /\ w \in Nat BY <4>2, <1>3, <1>1, <1>11, <2>2
            <5>2. Opener(b, m) > w BY <5>1, <3>1 DEF EndAt
            <5> QED BY <5>1, <5>2, <3>1, <4>2, <1>1
         <4> QED BY <4>1, <4>2, <1>5
      <3> QED BY <3>2, <3>4, <3>5, <3>6, <3>7 DEF EndAt
   <2>4. OpenAt(c, i)
      <3> SUFFICES ASSUME c[i][1] \in Opens PROVE \E j \in DOMAIN c : j > i /\ IsEnd(c, j)
            /\ Opener(c, j) = i
          BY DEF OpenAt
      <3>1. PICK j \in DOMAIN b : j > m /\ IsEnd(b, j) /\ Opener(b, j) = m
          BY <2>1, <2>2 DEF NestedAt, OpenAt
      <3>2. Len(a) + j \in DOMAIN c /\ Len(a) + j > i BY <3>1, <1>3, <1>1, <1>11
      <3>3. IsEnd(c, Len(a) + j) /\ Opener(c, Len(a) + j) = i BY <3>1, <1>7, <1>9, <1>11
      <3> QED BY <3>2, <3>3
   <2>5. NextAt(c, i)
      <3>1. NextAt(b, m) BY <2>1 DEF NestedAt
      <3>2. m + 1 \in DOMAIN b => i + 1 \in DOMAIN c /\ c[i+1] = b[m+1]
         <4>1. Len(a) + (m + 1) = i + 1 BY <1>1, <2>2, <1>11
         <4> QED BY <4>1, <1>3
      <3>3. m + 2 \in DOMAIN b => i + 2 \in DOMAIN c /\ c[i+2] = b[m+2] /\ m + 1 \in DOMAIN b
         <4>1. Len(a) + (m + 2) = i + 2 BY <1>1, <2>2, <1>11
         <4>2. m + 2 \in DOMAIN b => m + 1 \in DOMAIN b BY <1>4, <2>2
         <4> QED BY <4>1, <4>2, <1>3
      <3> QED BY <3>1, <3>2, <3>3, <2>2 DEF NextAt
   <2> QED BY <2>3, <2>4, <2>5 DEF NestedAt
<1> QED BY <1>5, <1>10, <1>11

\* Sound scripts in a row are sound.
LEMMA SoundCat == ASSUME NEW a, NEW b, Sound(a), Sound(b) PROVE Sound(a \o b)
BY Concat, LinkedConcat, NestedConcat DEF Sound

----------------------------------------------------------------------------
(* Lists of steps, and what their scripts are then. *)

\* Do gives every step the key name.
LEMMA DoFacts ==
  ASSUME NEW st \in Seq(Names), NEW k \in KeyNames
  PROVE
  /\ Do(st, k) \in Scripts /\ Len(Do(st, k)) = Len(st) /\ Len(st) \in Nat
  /\ DOMAIN Do(st, k) = 1..Len(st) /\ DOMAIN st = 1..Len(st)
  /\ \A i \in 1..Len(st) : st[i] \in Names /\ Do(st, k)[i] = <<st[i], k>> /\ Do(st, k)[i][1] = st[i]
       /\ Do(st, k)[i][2] = k
<1>1. Len(st) \in Nat /\ DOMAIN st = 1..Len(st) /\ \A i \in 1..Len(st) : st[i] \in Names OBVIOUS
<1>2. DOMAIN Do(st, k) = 1..Len(st) /\ \A i \in 1..Len(st) : Do(st, k)[i] = <<st[i], k>> BY <1>1 DEF Do
<1>3. Do(st, k) \in [1..Len(st) -> Names \X KeyNames] BY <1>1 DEF Do
<1>4. Do(st, k) \in Scripts /\ Len(Do(st, k)) = Len(st) BY <1>1, <1>3, <1>2, LenProperties DEF Scripts
<1> QED BY <1>1, <1>2, <1>4

\* Two lists of steps in a row.
LEMMA CatFacts ==
  ASSUME NEW a \in Seq(Names), NEW b \in Seq(Names)
  PROVE
  /\ a \o b \in Seq(Names) /\ Len(a \o b) = Len(a) + Len(b) /\ Len(a) \in Nat /\ Len(b) \in Nat
  /\ \A i \in 1..Len(a) : (a \o b)[i] = a[i]
  /\ \A i \in 1..Len(b) : (a \o b)[Len(a) + i] = b[i]
<1>1. a \o b \in Seq(Names) /\ Len(a \o b) = Len(a) + Len(b) BY ConcatProperties
<1>2. \A i \in 1..Len(a) + Len(b) : (a \o b)[i] = IF i <= Len(a) THEN a[i] ELSE b[i - Len(a)]
    BY ConcatProperties
<1>3. Len(a) \in Nat /\ Len(b) \in Nat OBVIOUS
<1>4. \A i \in 1..Len(b) : ~(Len(a) + i <= Len(a)) /\ (Len(a) + i) - Len(a) = i
      /\ Len(a) + i \in 1..Len(a) + Len(b)
    BY <1>3
<1>5. \A i \in 1..Len(a) : i <= Len(a) /\ i \in 1..Len(a) + Len(b) BY <1>3
<1> QED BY <1>1, <1>2, <1>3, <1>4, <1>5

\* Do distributes over concatenation.
LEMMA DoCat ==
  ASSUME NEW a \in Seq(Names), NEW b \in Seq(Names), NEW k \in KeyNames
  PROVE  Do(a \o b, k) = Do(a, k) \o Do(b, k)
<1> DEFINE c == a \o b  p == Do(c, k)  u == Do(a, k)  v == Do(b, k)  q == u \o v  m == Len(a)  n == Len(b)
<1>1. c \in Seq(Names) /\ Len(c) = m + n /\ m \in Nat /\ n \in Nat BY CatFacts
<1>2. \A i \in 1..m : c[i] = a[i] BY CatFacts
<1>3. \A i \in 1..n : c[m + i] = b[i] BY CatFacts
<1>4. u \in Scripts /\ Len(u) = m /\ DOMAIN u = 1..m /\ \A i \in 1..m : u[i] = <<a[i], k>> BY DoFacts
<1>5. v \in Scripts /\ Len(v) = n /\ DOMAIN v = 1..n /\ \A i \in 1..n : v[i] = <<b[i], k>> BY DoFacts
<1> HIDE DEF c, u, v, m, n
<1>6. p \in Scripts /\ Len(p) = m + n /\ \A i \in 1..m+n : p[i] = <<c[i], k>> BY <1>1, DoFacts
<1>7. q \in Scripts /\ Len(q) = m + n /\ (\A i \in 1..m : q[i] = u[i]) /\ (\A i \in 1..n : q[m + i] = v[i])
   <2>1. u \in Scripts /\ v \in Scripts BY <1>4, <1>5
   <2> HIDE DEF Scripts
   <2>2. q \in Scripts /\ Len(q) = Len(u) + Len(v) BY <2>1, Concat
   <2>3. \A i \in DOMAIN u : q[i] = u[i] BY <2>1, Concat
   <2>4. \A i \in DOMAIN v : q[Len(u) + i] = v[i] BY <2>1, Concat
   <2>5. Len(u) = m /\ DOMAIN u = 1..m /\ Len(v) = n /\ DOMAIN v = 1..n BY <1>4, <1>5
   <2>6. Len(q) = m + n BY <2>2, <2>5
   <2>7. \A i \in 1..m : q[i] = u[i] BY <2>3, <2>5
   <2>8. \A i \in 1..n : q[m + i] = v[i] BY <2>4, <2>5
   <2> HIDE DEF q
   <2> QED BY <2>2, <2>6, <2>7, <2>8
<1> HIDE DEF p, q, Scripts
<1>8. \A i \in 1..m+n : p[i] = q[i]
   <2> TAKE i \in 1..m+n
   <2>1. CASE i <= m
      <3>1. i \in 1..m BY <2>1
      <3> QED BY <3>1, <1>2, <1>4, <1>6, <1>7, ZenonT(60)
   <2>2. CASE i > m
      <3>1. i - m \in 1..n /\ m + (i - m) = i BY <2>2, <1>1
      <3>2. c[i] = b[i - m] /\ q[i] = v[i - m] BY <3>1, <1>3, <1>7
      <3> QED BY <3>1, <3>2, <1>5, <1>6
   <2> QED BY <2>1, <2>2, <1>1
<1>9. p = q BY <1>6, <1>7, <1>8, SeqEqual DEF Scripts
<1> QED BY <1>9 DEF p, q, c, u, v

\* Steps that are sound whoever's key name they carry.
Well(st) == st \in Seq(Names) /\ \A k \in KeyNames : Sound(Do(st, k))

\* Well-formed steps in a row are well formed.
LEMMA WellCat == ASSUME NEW a, NEW b, Well(a), Well(b) PROVE Well(a \o b)
<1>1. a \o b \in Seq(Names) BY CatFacts DEF Well
<1>2. ASSUME NEW k \in KeyNames PROVE Sound(Do(a \o b, k))
   <2>1. a \in Seq(Names) /\ b \in Seq(Names) /\ Sound(Do(a, k)) /\ Sound(Do(b, k)) BY <1>2 DEF Well
   <2>2. Sound(Do(a, k) \o Do(b, k)) BY <2>1, SoundCat
   <2> QED BY <2>1, <2>2, <1>2, DoCat
<1> QED BY <1>1, <1>2 DEF Well

\* No steps are well formed.
LEMMA WellEmpty == Well(<<>>)
<1>1. <<>> \in Seq(Names) /\ Len(<<>>) = 0 OBVIOUS
<1>2. \A k \in KeyNames : Do(<<>>, k) \in Scripts /\ DOMAIN Do(<<>>, k) = 1..0 BY <1>1, DoFacts
<1>3. 1..0 = {} OBVIOUS
<1> HIDE DEF Scripts
<1>4. \A k \in KeyNames : Sound(Do(<<>>, k)) BY <1>2, <1>3 DEF Sound, Linked, Nested
<1> QED BY <1>1, <1>4 DEF Well

\* How two lists of steps are seen to be a given one in a row.
LEMMA Joined ==
  ASSUME NEW s \in Seq(Names), NEW t \in Seq(Names), NEW r \in Seq(Names),
         Len(r) = Len(s) + Len(t), \A i \in 1..Len(s) : r[i] = s[i],
         \A i \in 1..Len(t) : r[Len(s) + i] = t[i]
  PROVE  s \o t = r
<1> DEFINE c == s \o t  m == Len(s)  n == Len(t)
<1>1. c \in Seq(Names) /\ Len(c) = m + n /\ m \in Nat /\ n \in Nat BY CatFacts
<1>2. (\A i \in 1..m : c[i] = s[i]) /\ \A i \in 1..n : c[m + i] = t[i] BY CatFacts
<1> HIDE DEF c
<1>3. \A i \in 1..m+n : c[i] = r[i]
   <2> TAKE i \in 1..m+n
   <2>1. CASE i \in 1..m BY <2>1, <1>2
   <2>2. CASE i > m
      <3>1. i - m \in 1..n /\ m + (i - m) = i BY <2>2, <1>1
      <3> QED BY <3>1, <1>2
   <2> QED BY <2>1, <2>2, <1>1
<1>4. c = r BY <1>1, <1>3, SeqEqual
<1> QED BY <1>4 DEF c

\* The concatenations of lists that the scripts are written with.
LEMMA Join11 == ASSUME NEW a \in Names, NEW b \in Names PROVE <<a>> \o <<b>> = <<a, b>>
<1> DEFINE s == <<a>>  t == <<b>>  r == <<a, b>>
<1>1. s \in Seq(Names) /\ t \in Seq(Names) /\ r \in Seq(Names) OBVIOUS
<1>2. Len(r) = Len(s) + Len(t) OBVIOUS
<1>3. \A i \in 1..Len(s) : r[i] = s[i] OBVIOUS
<1>4. \A i \in 1..Len(t) : r[Len(s) + i] = t[i] OBVIOUS
<1>5. s \o t = r
   <2> HIDE DEF s, t, r
   <2> QED BY <1>1, <1>2, <1>3, <1>4, Joined
<1> QED BY <1>5

\* The same, for lists of two and one.
LEMMA Join21 ==
  ASSUME NEW a \in Names, NEW b \in Names, NEW c \in Names
  PROVE  <<a, b>> \o <<c>> = <<a, b, c>>
<1> DEFINE s == <<a, b>>  t == <<c>>  r == <<a, b, c>>
<1>1. s \in Seq(Names) /\ t \in Seq(Names) /\ r \in Seq(Names) OBVIOUS
<1>2. Len(r) = Len(s) + Len(t) OBVIOUS
<1>3. \A i \in 1..Len(s) : r[i] = s[i] OBVIOUS
<1>4. \A i \in 1..Len(t) : r[Len(s) + i] = t[i] OBVIOUS
<1>5. s \o t = r
   <2> HIDE DEF s, t, r
   <2> QED BY <1>1, <1>2, <1>3, <1>4, Joined
<1> QED BY <1>5

\* The same, for lists of one and two.
LEMMA Join12 ==
  ASSUME NEW a \in Names, NEW b \in Names, NEW c \in Names
  PROVE  <<a>> \o <<b, c>> = <<a, b, c>>
<1> DEFINE s == <<a>>  t == <<b, c>>  r == <<a, b, c>>
<1>1. s \in Seq(Names) /\ t \in Seq(Names) /\ r \in Seq(Names) OBVIOUS
<1>2. Len(r) = Len(s) + Len(t) OBVIOUS
<1>3. \A i \in 1..Len(s) : r[i] = s[i] OBVIOUS
<1>4. \A i \in 1..Len(t) : r[Len(s) + i] = t[i] OBVIOUS
<1>5. s \o t = r
   <2> HIDE DEF s, t, r
   <2> QED BY <1>1, <1>2, <1>3, <1>4, Joined
<1> QED BY <1>5

\* The same, for lists of two and two.
LEMMA Join22 ==
  ASSUME NEW a \in Names, NEW b \in Names, NEW c \in Names, NEW d \in Names
  PROVE  <<a, b>> \o <<c, d>> = <<a, b, c, d>>
<1> DEFINE s == <<a, b>>  t == <<c, d>>  r == <<a, b, c, d>>
<1>1. s \in Seq(Names) /\ t \in Seq(Names) /\ r \in Seq(Names) OBVIOUS
<1>2. Len(r) = Len(s) + Len(t) OBVIOUS
<1>3. \A i \in 1..Len(s) : r[i] = s[i] OBVIOUS
<1>4. \A i \in 1..Len(t) : r[Len(s) + i] = t[i] OBVIOUS
<1>5. s \o t = r
   <2> HIDE DEF s, t, r
   <2> QED BY <1>1, <1>2, <1>3, <1>4, Joined
<1> QED BY <1>5

\* The same, for lists of three and one.
LEMMA Join31 ==
  ASSUME NEW a \in Names, NEW b \in Names, NEW c \in Names, NEW d \in Names
  PROVE  <<a, b, c>> \o <<d>> = <<a, b, c, d>>
<1> DEFINE s == <<a, b, c>>  t == <<d>>  r == <<a, b, c, d>>
<1>1. s \in Seq(Names) /\ t \in Seq(Names) /\ r \in Seq(Names) OBVIOUS
<1>2. Len(r) = Len(s) + Len(t) OBVIOUS
<1>3. \A i \in 1..Len(s) : r[i] = s[i] OBVIOUS
<1>4. \A i \in 1..Len(t) : r[Len(s) + i] = t[i] OBVIOUS
<1>5. s \o t = r
   <2> HIDE DEF s, t, r
   <2> QED BY <1>1, <1>2, <1>3, <1>4, Joined
<1> QED BY <1>5

\* The same, for lists of four and one.
LEMMA Join41 ==
  ASSUME NEW a \in Names, NEW b \in Names, NEW c \in Names, NEW d \in Names, NEW e \in Names
  PROVE  <<a, b, c, d>> \o <<e>> = <<a, b, c, d, e>>
<1> DEFINE s == <<a, b, c, d>>  t == <<e>>  r == <<a, b, c, d, e>>
<1>1. s \in Seq(Names) /\ t \in Seq(Names) /\ r \in Seq(Names) OBVIOUS
<1>2. Len(r) = Len(s) + Len(t) OBVIOUS
<1>3. \A i \in 1..Len(s) : r[i] = s[i] OBVIOUS
<1>4. \A i \in 1..Len(t) : r[Len(s) + i] = t[i] OBVIOUS
<1>5. s \o t = r
   <2> HIDE DEF s, t, r
   <2> QED BY <1>1, <1>2, <1>3, <1>4, Joined
<1> QED BY <1>5

\* The same, for lists of five and one.
LEMMA Join51 ==
  ASSUME NEW a \in Names, NEW b \in Names, NEW c \in Names, NEW d \in Names,
         NEW e \in Names, NEW f \in Names
  PROVE  <<a, b, c, d, e>> \o <<f>> = <<a, b, c, d, e, f>>
<1> DEFINE s == <<a, b, c, d, e>>  t == <<f>>  r == <<a, b, c, d, e, f>>
<1>1. s \in Seq(Names) /\ t \in Seq(Names) /\ r \in Seq(Names) OBVIOUS
<1>2. Len(r) = Len(s) + Len(t) OBVIOUS
<1>3. \A i \in 1..Len(s) : r[i] = s[i] OBVIOUS
<1>4. \A i \in 1..Len(t) : r[Len(s) + i] = t[i] OBVIOUS
<1>5. s \o t = r
   <2> HIDE DEF s, t, r
   <2> QED BY <1>1, <1>2, <1>3, <1>4, Joined
<1> QED BY <1>5

\* The same, for lists of one and three.
LEMMA Join13 ==
  ASSUME NEW a \in Names, NEW b \in Names, NEW c \in Names, NEW d \in Names
  PROVE  <<a>> \o <<b, c, d>> = <<a, b, c, d>>
<1> DEFINE s == <<a>>  t == <<b, c, d>>  r == <<a, b, c, d>>
<1>1. s \in Seq(Names) /\ t \in Seq(Names) /\ r \in Seq(Names) OBVIOUS
<1>2. Len(r) = Len(s) + Len(t) OBVIOUS
<1>3. \A i \in 1..Len(s) : r[i] = s[i] OBVIOUS
<1>4. \A i \in 1..Len(t) : r[Len(s) + i] = t[i] OBVIOUS
<1>5. s \o t = r
   <2> HIDE DEF s, t, r
   <2> QED BY <1>1, <1>2, <1>3, <1>4, Joined
<1> QED BY <1>5

\* The same, for lists of two and three.
LEMMA Join23 ==
  ASSUME NEW a \in Names, NEW b \in Names, NEW c \in Names, NEW d \in Names, NEW e \in Names
  PROVE  <<a, b>> \o <<c, d, e>> = <<a, b, c, d, e>>
<1> DEFINE s == <<a, b>>  t == <<c, d, e>>  r == <<a, b, c, d, e>>
<1>1. s \in Seq(Names) /\ t \in Seq(Names) /\ r \in Seq(Names) OBVIOUS
<1>2. Len(r) = Len(s) + Len(t) OBVIOUS
<1>3. \A i \in 1..Len(s) : r[i] = s[i] OBVIOUS
<1>4. \A i \in 1..Len(t) : r[Len(s) + i] = t[i] OBVIOUS
<1>5. s \o t = r
   <2> HIDE DEF s, t, r
   <2> QED BY <1>1, <1>2, <1>3, <1>4, Joined
<1> QED BY <1>5

\* Linked and Nested of the step names alone: all that the scripts, whose steps
\* share one key name, have to satisfy.
LinkedN(st) ==
  \A i \in 1..Len(st) :
    /\ st[i] \notin Foreign
    /\ st[i] \in Followers => i > 1 /\ st[i-1] \in Before(st[i])
    /\ st[i] = "txLock" /\ i > 1 /\ st[i-1] \in Begins => i > 2 /\ st[i-2] = "forUse"
OpenerN(st, i) == i - Gap(st[i-1])
NestedN(st) ==
  \A i \in 1..Len(st) :
    /\ st[i] \in Ends =>
         /\ i > 1 /\ Gap(st[i-1]) > 0 /\ OpenerN(st, i) >= 1 /\ st[OpenerN(st, i)] \in Opens
         /\ \A j \in 1..Len(st) : j > 1 /\ j # i /\ st[j] \in Ends => OpenerN(st, j) # OpenerN(st, i)
         /\ \A j \in 1..Len(st) : j < i /\ st[j] \in Leavers => OpenerN(st, i) > j
    /\ st[i] \in Opens => \E j \in 1..Len(st) : j > i /\ st[j] \in Ends /\ OpenerN(st, j) = i
    /\ st[i] = "createwallet" => i + 1 \in 1..Len(st) /\ st[i+1] = "put"
    /\ st[i] \in Inner => i + 1 \in 1..Len(st) /\ st[i+1] = "unload"
    /\ st[i] = "getnewaddress" => i + 2 \in 1..Len(st) /\ st[i+1] = "setAddress" /\ st[i+2] = "unload"
    /\ st[i] = "sendtoaddress" => i + 2 \in 1..Len(st) /\ st[i+1] = "txUnlock" /\ st[i+2] = "unload"

\* Steps that take and give back no load.
Quiet(st) == \A i \in 1..Len(st) : st[i] \notin Ends \cup Opens \cup Inner \cup {"createwallet",
  "getnewaddress", "sendtoaddress"}

\* Steps without loads are nested.
LEMMA QuietNested == ASSUME NEW st, Quiet(st) PROVE NestedN(st)
BY DEF Quiet, NestedN

\* It is enough to look at the step names.
LEMMA WellByNames == ASSUME NEW st \in Seq(Names), LinkedN(st), Counts => NestedN(st) PROVE Well(st)
<1> SUFFICES ASSUME NEW k \in KeyNames PROVE Linked(Do(st, k), TRUE) /\ (Counts => Nested(Do(st, k), TRUE))
    BY DoFacts DEF Well, Sound
<1> DEFINE d == Do(st, k)  n == Len(st)
<1>1. n \in Nat /\ DOMAIN d = 1..n /\ \A i \in 1..n : d[i] = <<st[i], k>> /\ d[i][1] = st[i] /\ d[i][2] = k
    BY DoFacts
<1>2. \A i \in 1..n : i \in Nat /\ i > 0 /\ (i > 1 => i - 1 \in 1..n) /\ (i > 2 => i - 2 \in 1..n)
    BY <1>1
<1> HIDE DEF d
<1>3. Linked(d, TRUE)
   <2> SUFFICES ASSUME NEW i \in 1..n PROVE LinkedAt(d, TRUE, i) BY <1>1 DEF Linked, LinkedAt
   <2>1. i > 1 => d[i-1] = <<st[i-1], k>> /\ d[i-1][1] = st[i-1] BY <1>1, <1>2
   <2>2. i > 2 => d[i-2] = <<st[i-2], k>> BY <1>1, <1>2
   <2>3. d[i][1] = st[i] /\ d[i][2] = k BY <1>1
   <2>4. st[i] \notin Foreign /\ (st[i] \in Followers => i > 1 /\ st[i-1] \in Before(st[i]))
       BY DEF LinkedN
   <2>5. st[i] \in Followers => i # 1 /\ d[i-1] \in Before(st[i]) \X {k}
      <3> SUFFICES ASSUME st[i] \in Followers PROVE i # 1 /\ d[i-1] \in Before(st[i]) \X {k} OBVIOUS
      <3>1. i > 1 /\ st[i-1] \in Before(st[i]) BY <2>4
      <3>2. d[i-1] = <<st[i-1], k>> BY <3>1, <2>1
      <3>3. <<st[i-1], k>> \in Before(st[i]) \X {k} BY <3>1
      <3> QED BY <3>1, <3>2, <3>3
   <2>6. st[i] = "txLock" /\ i > 1 /\ st[i-1] \in Begins => i # 2 /\ d[i-2] = <<"forUse", k>>
       BY <2>2, <1>2 DEF LinkedN
   <2> QED BY <2>1, <2>4, <2>3, <2>5, <2>6 DEF LinkedAt
<1>4. ASSUME Counts, NEW i \in 1..n PROVE NestedAt(d, TRUE, i)
   <2>1. NestedN(st) BY <1>4
   <2>2. \A j \in 1..n : IsEnd(d, j) <=> st[j] \in Ends BY <1>1 DEF IsEnd
   <2>3. \A j \in 1..n : j > 1 => Opener(d, j) = OpenerN(st, j) /\ d[j-1][1] = st[j-1]
         /\ OpenerN(st, j) \in Int /\ OpenerN(st, j) <= j
      <3> TAKE j \in 1..n
      <3> HAVE j > 1
      <3>1. d[j-1][1] = st[j-1] BY <1>1, <1>2
      <3>2. Gap(st[j-1]) \in Nat BY GapNat
      <3> QED BY <3>1, <3>2 DEF Opener, OpenerN
   <2>4. ASSUME IsEnd(d, i) PROVE i # 1 /\ EndAt(d, TRUE, i)
      <3>1. /\ i > 1 /\ Gap(st[i-1]) > 0 /\ OpenerN(st, i) >= 1 /\ st[OpenerN(st, i)] \in Opens
            /\ \A j \in 1..n : j > 1 /\ j # i /\ st[j] \in Ends => OpenerN(st, j) # OpenerN(st, i)
            /\ \A j \in 1..n : j < i /\ st[j] \in Leavers => OpenerN(st, i) > j
          BY <2>1, <2>2, <2>4 DEF NestedN
      <3>2. Opener(d, i) = OpenerN(st, i) /\ OpenerN(st, i) \in 1..n BY <3>1, <2>3, <1>1
      <3>3. d[i-1][1] = st[i-1] BY <3>1, <2>3, <1>4
      <3>4. Gap(d[i-1][1]) > 0 BY <3>1, <3>3
      <3>5. d[OpenerN(st, i)][1] = st[OpenerN(st, i)] BY <3>2, <1>1
      <3>6. ~(Opener(d, i) < 1) /\ d[Opener(d, i)][1] \in Opens BY <3>1, <3>2, <3>5
      <3>7. \A j \in 1..n : d[j][2] = d[i][2] BY <1>1
      <3>8. \A j \in 1..n : j > 1 /\ j # i /\ IsEnd(d, j) => Opener(d, j) # Opener(d, i)
          BY <3>1, <3>2, <2>2, <2>3
      <3>9. \A j \in 1..n : j < i /\ d[j][1] \in Leavers => Opener(d, i) > j BY <3>1, <3>2, <1>1
      <3> QED BY <3>1, <3>4, <3>6, <3>7, <3>8, <3>9, <1>1 DEF EndAt
   <2>5. OpenAt(d, i)
      <3> SUFFICES ASSUME st[i] \in Opens PROVE \E j \in 1..n : j > i /\ IsEnd(d, j) /\ Opener(d, j) = i
          BY <1>1 DEF OpenAt
      <3>1. PICK j \in 1..n : j > i /\ st[j] \in Ends /\ OpenerN(st, j) = i BY <2>1 DEF NestedN
      <3>2. j > 1 BY <3>1
      <3> QED BY <3>1, <3>2, <2>2, <2>3
   <2>6. NextAt(d, i)
      <3>1. i + 2 \in 1..n => i + 1 \in 1..n BY <1>1
      <3>2. d[i][1] = st[i] /\ d[i][2] = k /\ (i + 1 \in 1..n => d[i+1] = <<st[i+1], k>>
            /\ d[i+1][1] = st[i+1])
            /\ (i + 2 \in 1..n => d[i+2] = <<st[i+2], k>> /\ d[i+2][1] = st[i+2]) BY <1>1
      <3>3. /\ st[i] = "createwallet" => i + 1 \in 1..n /\ st[i+1] = "put"
            /\ st[i] \in Inner => i + 1 \in 1..n /\ st[i+1] = "unload"
            /\ st[i] = "getnewaddress" => i + 2 \in 1..n /\ st[i+1] = "setAddress" /\ st[i+2] = "unload"
            /\ st[i] = "sendtoaddress" => i + 2 \in 1..n /\ st[i+1] = "txUnlock" /\ st[i+2] = "unload"
          BY <2>1 DEF NestedN
      <3> QED BY <3>1, <3>2, <3>3, <1>1 DEF NextAt
   <2> QED BY <2>4, <2>5, <2>6 DEF NestedAt
<1>5. Counts => Nested(d, TRUE) BY <1>4, <1>1, NestedParts
<1> QED BY <1>3, <1>5 DEF d

\* Names, written out.
AllNames == {"put", "forNewAddress", "forUse", "forSetAccount", "setAddress", "lookup", "getAddress",
  "getnewaddress", "listunspent", "signrawtransaction", "sendtoaddress", "getbalance", "getwalletinfo",
  "start", "dial", "redial", "mkdir", "setaccount", "dumpprivkey", "receipt",
  "createwallet", "loading", "unloading", "createrawtransaction", "sendrawtransaction",
  "accountNew", "import", "readAccount", "unlockAccount", "sendTransaction",
  "keyOfAddress", "reserveName", "mapLock", "mapUnlock", "number", "txLock", "txUnlock", "load", "unload",
   "version", "go", "up", "wait", "waiting"}

\* The step names, written out.
LEMMA NamesAre == Names = AllNames
BY DEF Names, AllNames, LookSteps, Commands, WalletCommands, PlainCommands

\* The parts of the scripts that load nothing are well formed.
LEMMA Literals ==
  /\ Utxo => Well(<<"getAddress">>) /\ Well(<<"go", "wait", "up">>) /\ Well(<<"start", "version">>)
       /\ Well(<<"forUse", "txLock">>) /\ Well(<<"forUse", "createrawtransaction">>)
       /\ Well(<<"wait">>) /\ Well(<<"sendrawtransaction">>)
  /\ ~Utxo => Well(EthereumStart)
  /\ family = "geth" => Well(GethNewKey) /\ Well(GethRecoverKey) /\ Well(GethAddress)
       /\ Well(<<"lookup">>) /\ Well(<<"unlockAccount">>)
       /\ Well(<<"txLock", "sendTransaction", "wait", "txUnlock">>) /\ Well(<<"receipt", "receipt">>)
  /\ family = "anvil" => Well(AnvilNewKey) /\ Well(AnvilRecoverKey) /\ Well(AnvilAddress)
       /\ Well(AnvilSendFunds)
<1>1. ASSUME Utxo PROVE Well(<<"getAddress">>)
   <2>1. <<"getAddress">> \in Seq(Names) BY NamesAre DEF AllNames
   <2>2. LinkedN(<<"getAddress">>)
       BY <1>1 DEF LinkedN, Foreign, Followers, WalletCommands, Begins, Ends, Utxo, Counts, Before
   <2>3. Quiet(<<"getAddress">>) BY DEF Quiet, Ends, Begins, Opens, Inner
   <2> QED BY <2>1, <2>2, <2>3, QuietNested, WellByNames
<1>2. ASSUME Utxo PROVE Well(<<"go", "wait", "up">>)
   <2>1. <<"go", "wait", "up">> \in Seq(Names) BY NamesAre DEF AllNames
   <2>2. LinkedN(<<"go", "wait", "up">>)
       BY <1>2 DEF LinkedN, Foreign, Followers, WalletCommands, Begins, Ends, Utxo, Counts, Before
   <2>3. Quiet(<<"go", "wait", "up">>) BY DEF Quiet, Ends, Begins, Opens, Inner
   <2> QED BY <2>1, <2>2, <2>3, QuietNested, WellByNames
<1>3. ASSUME Utxo PROVE Well(<<"start", "version">>)
   <2>1. <<"start", "version">> \in Seq(Names) BY NamesAre DEF AllNames
   <2>2. LinkedN(<<"start", "version">>)
       BY <1>3 DEF LinkedN, Foreign, Followers, WalletCommands, Begins, Ends, Utxo, Counts, Before
   <2>3. Quiet(<<"start", "version">>) BY DEF Quiet, Ends, Begins, Opens, Inner
   <2> QED BY <2>1, <2>2, <2>3, QuietNested, WellByNames
<1>4. ASSUME Utxo PROVE Well(<<"forUse", "txLock">>)
   <2>1. <<"forUse", "txLock">> \in Seq(Names) BY NamesAre DEF AllNames
   <2>2. LinkedN(<<"forUse", "txLock">>)
       BY <1>4 DEF LinkedN, Foreign, Followers, WalletCommands, Begins, Ends, Utxo, Counts, Before
   <2>3. Quiet(<<"forUse", "txLock">>) BY DEF Quiet, Ends, Begins, Opens, Inner
   <2> QED BY <2>1, <2>2, <2>3, QuietNested, WellByNames
<1>5. ASSUME Utxo PROVE Well(<<"forUse", "createrawtransaction">>)
   <2>1. <<"forUse", "createrawtransaction">> \in Seq(Names) BY NamesAre DEF AllNames
   <2>2. LinkedN(<<"forUse", "createrawtransaction">>)
       BY <1>5 DEF LinkedN, Foreign, Followers, WalletCommands, Begins, Ends, Utxo, Counts, Before
   <2>3. Quiet(<<"forUse", "createrawtransaction">>) BY DEF Quiet, Ends, Begins, Opens, Inner
   <2> QED BY <2>1, <2>2, <2>3, QuietNested, WellByNames
<1>6. ASSUME Utxo PROVE Well(<<"wait">>)
   <2>1. <<"wait">> \in Seq(Names) BY NamesAre DEF AllNames
   <2>2. LinkedN(<<"wait">>)
       BY <1>6 DEF LinkedN, Foreign, Followers, WalletCommands, Begins, Ends, Utxo, Counts, Before
   <2>3. Quiet(<<"wait">>) BY DEF Quiet, Ends, Begins, Opens, Inner
   <2> QED BY <2>1, <2>2, <2>3, QuietNested, WellByNames
<1>7. ASSUME Utxo PROVE Well(<<"sendrawtransaction">>)
   <2>1. <<"sendrawtransaction">> \in Seq(Names) BY NamesAre DEF AllNames
   <2>2. LinkedN(<<"sendrawtransaction">>)
       BY <1>7 DEF LinkedN, Foreign, Followers, WalletCommands, Begins, Ends, Utxo, Counts, Before
   <2>3. Quiet(<<"sendrawtransaction">>) BY DEF Quiet, Ends, Begins, Opens, Inner
   <2> QED BY <2>1, <2>2, <2>3, QuietNested, WellByNames
<1>8. ASSUME ~Utxo PROVE Well(EthereumStart)
   <2>1. EthereumStart \in Seq(Names) BY NamesAre DEF AllNames, EthereumStart
   <2>2. LinkedN(EthereumStart)
       BY <1>8 DEF LinkedN, Foreign, Followers, WalletCommands, Begins, Ends, Utxo, Counts, Before,
          EthereumStart
   <2>3. ~Counts BY <1>8 DEF Utxo, Counts
   <2> QED BY <2>1, <2>2, <2>3, WellByNames
<1>9. ASSUME family = "geth" PROVE Well(GethNewKey)
   <2>1. GethNewKey \in Seq(Names) BY NamesAre DEF AllNames, GethNewKey
   <2>2. LinkedN(GethNewKey)
       BY <1>9 DEF LinkedN, Foreign, Followers, WalletCommands, Begins, Ends, Utxo, Counts, Before,
          GethNewKey
   <2>3. ~Counts BY <1>9 DEF Utxo, Counts
   <2> QED BY <2>1, <2>2, <2>3, WellByNames
<1>10. ASSUME family = "geth" PROVE Well(GethRecoverKey)
   <2>1. GethRecoverKey \in Seq(Names) BY NamesAre DEF AllNames, GethRecoverKey
   <2>2. LinkedN(GethRecoverKey)
       BY <1>10 DEF LinkedN, Foreign, Followers, WalletCommands, Begins, Ends, Utxo, Counts, Before,
          GethRecoverKey
   <2>3. ~Counts BY <1>10 DEF Utxo, Counts
   <2> QED BY <2>1, <2>2, <2>3, WellByNames
<1>11. ASSUME family = "geth" PROVE Well(GethAddress)
   <2>1. GethAddress \in Seq(Names) BY NamesAre DEF AllNames, GethAddress
   <2>2. LinkedN(GethAddress)
       BY <1>11 DEF LinkedN, Foreign, Followers, WalletCommands, Begins, Ends, Utxo, Counts, Before,
          GethAddress
   <2>3. ~Counts BY <1>11 DEF Utxo, Counts
   <2> QED BY <2>1, <2>2, <2>3, WellByNames
<1>12. ASSUME family = "geth" PROVE Well(<<"lookup">>)
   <2>1. <<"lookup">> \in Seq(Names) BY NamesAre DEF AllNames
   <2>2. LinkedN(<<"lookup">>)
       BY <1>12 DEF LinkedN, Foreign, Followers, WalletCommands, Begins, Ends, Utxo, Counts, Before
   <2>3. ~Counts BY <1>12 DEF Utxo, Counts
   <2> QED BY <2>1, <2>2, <2>3, WellByNames
<1>13. ASSUME family = "geth" PROVE Well(<<"unlockAccount">>)
   <2>1. <<"unlockAccount">> \in Seq(Names) BY NamesAre DEF AllNames
   <2>2. LinkedN(<<"unlockAccount">>)
       BY <1>13 DEF LinkedN, Foreign, Followers, WalletCommands, Begins, Ends, Utxo, Counts, Before
   <2>3. ~Counts BY <1>13 DEF Utxo, Counts
   <2> QED BY <2>1, <2>2, <2>3, WellByNames
<1>14. ASSUME family = "geth" PROVE Well(<<"txLock", "sendTransaction", "wait", "txUnlock">>)
   <2>1. <<"txLock", "sendTransaction", "wait", "txUnlock">> \in Seq(Names) BY NamesAre DEF AllNames
   <2>2. LinkedN(<<"txLock", "sendTransaction", "wait", "txUnlock">>)
       BY <1>14 DEF LinkedN, Foreign, Followers, WalletCommands, Begins, Ends, Utxo, Counts, Before
   <2>3. ~Counts BY <1>14 DEF Utxo, Counts
   <2> QED BY <2>1, <2>2, <2>3, WellByNames
<1>15. ASSUME family = "geth" PROVE Well(<<"receipt", "receipt">>)
   <2>1. <<"receipt", "receipt">> \in Seq(Names) BY NamesAre DEF AllNames
   <2>2. LinkedN(<<"receipt", "receipt">>)
       BY <1>15 DEF LinkedN, Foreign, Followers, WalletCommands, Begins, Ends, Utxo, Counts, Before
   <2>3. ~Counts BY <1>15 DEF Utxo, Counts
   <2> QED BY <2>1, <2>2, <2>3, WellByNames
<1>16. ASSUME family = "anvil" PROVE Well(AnvilNewKey)
   <2>1. AnvilNewKey \in Seq(Names) BY NamesAre DEF AllNames, AnvilNewKey
   <2>2. LinkedN(AnvilNewKey)
       BY <1>16 DEF LinkedN, Foreign, Followers, WalletCommands, Begins, Ends, Utxo, Counts, Before,
          AnvilNewKey
   <2>3. ~Counts BY <1>16 DEF Utxo, Counts
   <2> QED BY <2>1, <2>2, <2>3, WellByNames
<1>17. ASSUME family = "anvil" PROVE Well(AnvilRecoverKey)
   <2>1. AnvilRecoverKey \in Seq(Names) BY NamesAre DEF AllNames, AnvilRecoverKey
   <2>2. LinkedN(AnvilRecoverKey)
       BY <1>17 DEF LinkedN, Foreign, Followers, WalletCommands, Begins, Ends, Utxo, Counts, Before,
          AnvilRecoverKey
   <2>3. ~Counts BY <1>17 DEF Utxo, Counts
   <2> QED BY <2>1, <2>2, <2>3, WellByNames
<1>18. ASSUME family = "anvil" PROVE Well(AnvilAddress)
   <2>1. AnvilAddress \in Seq(Names) BY NamesAre DEF AllNames, AnvilAddress
   <2>2. LinkedN(AnvilAddress)
       BY <1>18 DEF LinkedN, Foreign, Followers, WalletCommands, Begins, Ends, Utxo, Counts, Before,
          AnvilAddress
   <2>3. ~Counts BY <1>18 DEF Utxo, Counts
   <2> QED BY <2>1, <2>2, <2>3, WellByNames
<1>19. ASSUME family = "anvil" PROVE Well(AnvilSendFunds)
   <2>1. AnvilSendFunds \in Seq(Names) BY NamesAre DEF AllNames, AnvilSendFunds
   <2>2. LinkedN(AnvilSendFunds)
       BY <1>19 DEF LinkedN, Foreign, Followers, WalletCommands, Begins, Ends, Utxo, Counts, Before,
          AnvilSendFunds
   <2>3. ~Counts BY <1>19 DEF Utxo, Counts
   <2> QED BY <2>1, <2>2, <2>3, WellByNames
<1> QED BY <1>1, <1>2, <1>3, <1>4, <1>5, <1>6, <1>7, <1>8, <1>9, <1>10, <1>11, <1>12, <1>13, <1>14,
           <1>15, <1>16, <1>17, <1>18, <1>19

\* So are those that load, as each family and configuration writes them.
LEMMA WalletLiterals ==
  /\ Counts =>
       /\ Well(<<"createwallet", "put", "unload">>)
       /\ Well(<<"forNewAddress", "load", "getnewaddress", "setAddress", "unload">>)
       /\ Well(<<"forUse", "load", "txLock", "sendtoaddress", "txUnlock", "unload">>)
       /\ Well(<<"keyOfAddress", "load", "getbalance", "unload">>)
       /\ Well(<<"load", "getwalletinfo", "unload">>)
  /\ family = "utxo" /\ ~Counts =>
       /\ Well(<<"createwallet", "put">>)
       /\ Well(<<"createwallet", "put", "getwalletinfo">>)
       /\ Well(<<"forNewAddress", "getnewaddress", "setAddress">>)
       /\ Well(<<"forUse", "listunspent">>)
       /\ Well(<<"forUse", "signrawtransaction">>)
       /\ Well(<<"forUse", "txLock", "sendtoaddress", "txUnlock">>)
       /\ Well(<<"keyOfAddress", "getbalance">>)
  /\ family = "utxoOld" =>
       /\ Well(<<"forNewAddress", "getnewaddress", "setAddress">>)
       /\ Well(<<"forUse", "listunspent">>)
       /\ Well(<<"forUse", "dumpprivkey", "signrawtransaction">>)
       /\ Well(<<"forSetAccount", "setaccount">>)
       /\ Well(<<"keyOfAddress">>)
<1>1. ASSUME Counts PROVE Well(<<"createwallet", "put", "unload">>)
   <2>1. <<"createwallet", "put", "unload">> \in Seq(Names) BY NamesAre DEF AllNames
   <2>2. LinkedN(<<"createwallet", "put", "unload">>)
       BY <1>1 DEF LinkedN, Foreign, Followers, WalletCommands, Begins, Ends, Utxo, Counts, Before
   <2>3. NestedN(<<"createwallet", "put", "unload">>)
      <3> DEFINE st == <<"createwallet", "put", "unload">>
      <3>1. Len(st) = 3 /\ st[1] = "createwallet" /\ st[2] = "put" /\ st[3] = "unload" OBVIOUS
      <3> HIDE DEF st
      <3>2. \A i \in 1..3 : (st[i] \in Ends <=> i \in {3}) /\ (st[i] \in Opens <=> i \in {2})
          BY <3>1 DEF Ends, Begins, Opens
      <3>3. OpenerN(st, 3) = 2 /\ Gap(st[3-1]) > 0 BY <3>1 DEF OpenerN, Gap
      <3>4. NestedN(st) BY <3>1, <3>2, <3>3 DEF NestedN, Inner, Leavers
      <3> QED BY <3>4 DEF st
   <2> QED BY <2>1, <2>2, <2>3, WellByNames
<1>2. ASSUME Counts PROVE Well(<<"forNewAddress", "load", "getnewaddress", "setAddress", "unload">>)
   <2>1. <<"forNewAddress", "load", "getnewaddress", "setAddress", "unload">> \in Seq(Names)
       BY NamesAre DEF AllNames
   <2>2. LinkedN(<<"forNewAddress", "load", "getnewaddress", "setAddress", "unload">>)
       BY <1>2 DEF LinkedN, Foreign, Followers, WalletCommands, Begins, Ends, Utxo, Counts, Before
   <2>3. NestedN(<<"forNewAddress", "load", "getnewaddress", "setAddress", "unload">>)
      <3> DEFINE st == <<"forNewAddress", "load", "getnewaddress", "setAddress", "unload">>
      <3>1. Len(st) = 5 /\ st[1] = "forNewAddress" /\ st[2] = "load" /\ st[3] = "getnewaddress"
            /\ st[4] = "setAddress" /\ st[5] = "unload" OBVIOUS
      <3> HIDE DEF st
      <3>2. \A i \in 1..5 : (st[i] \in Ends <=> i \in {5}) /\ (st[i] \in Opens <=> i \in {2})
          BY <3>1 DEF Ends, Begins, Opens
      <3>3. OpenerN(st, 5) = 2 /\ Gap(st[5-1]) > 0 BY <3>1 DEF OpenerN, Gap
      <3>4. \A i \in 1..5 : st[i] \notin Leavers \cup Inner \cup {"createwallet"}
          BY <3>1 DEF Inner, Leavers
      <3>5. NestedN(st) BY <3>1, <3>2, <3>3, <3>4 DEF NestedN
      <3> QED BY <3>5 DEF st
   <2> QED BY <2>1, <2>2, <2>3, WellByNames
<1>3. ASSUME Counts PROVE Well(<<"forUse", "load", "txLock", "sendtoaddress", "txUnlock", "unload">>)
   <2>1. <<"forUse", "load", "txLock", "sendtoaddress", "txUnlock", "unload">> \in Seq(Names)
       BY NamesAre DEF AllNames
   <2>2. LinkedN(<<"forUse", "load", "txLock", "sendtoaddress", "txUnlock", "unload">>)
       BY <1>3 DEF LinkedN, Foreign, Followers, WalletCommands, Begins, Ends, Utxo, Counts, Before
   <2>3. NestedN(<<"forUse", "load", "txLock", "sendtoaddress", "txUnlock", "unload">>)
      <3> DEFINE st == <<"forUse", "load", "txLock", "sendtoaddress", "txUnlock", "unload">>
      <3>1. Len(st) = 6 /\ st[1] = "forUse" /\ st[2] = "load" /\ st[3] = "txLock"
            /\ st[4] = "sendtoaddress" /\ st[5] = "txUnlock" /\ st[6] = "unload" OBVIOUS
      <3> HIDE DEF st
      <3>2. \A i \in 1..6 : (st[i] \in Ends <=> i \in {6}) /\ (st[i] \in Opens <=> i \in {2})
          BY <3>1 DEF Ends, Begins, Opens
      <3>3. OpenerN(st, 6) = 2 /\ Gap(st[6-1]) > 0 BY <3>1 DEF OpenerN, Gap
      <3>4. \A i \in 1..6 : st[i] \notin Leavers \cup Inner \cup {"createwallet"}
          BY <3>1 DEF Inner, Leavers
      <3>5. NestedN(st) BY <3>1, <3>2, <3>3, <3>4 DEF NestedN
      <3> QED BY <3>5 DEF st
   <2> QED BY <2>1, <2>2, <2>3, WellByNames
<1>4. ASSUME Counts PROVE Well(<<"keyOfAddress", "load", "getbalance", "unload">>)
   <2>1. <<"keyOfAddress", "load", "getbalance", "unload">> \in Seq(Names) BY NamesAre DEF AllNames
   <2>2. LinkedN(<<"keyOfAddress", "load", "getbalance", "unload">>)
       BY <1>4 DEF LinkedN, Foreign, Followers, WalletCommands, Begins, Ends, Utxo, Counts, Before
   <2>3. NestedN(<<"keyOfAddress", "load", "getbalance", "unload">>)
      <3> DEFINE st == <<"keyOfAddress", "load", "getbalance", "unload">>
      <3>1. Len(st) = 4 /\ st[1] = "keyOfAddress" /\ st[2] = "load" /\ st[3] = "getbalance"
            /\ st[4] = "unload" OBVIOUS
      <3> HIDE DEF st
      <3>2. \A i \in 1..4 : (st[i] \in Ends <=> i \in {4}) /\ (st[i] \in Opens <=> i \in {2})
          BY <3>1 DEF Ends, Begins, Opens
      <3>3. OpenerN(st, 4) = 2 /\ Gap(st[4-1]) > 0 BY <3>1 DEF OpenerN, Gap
      <3>4. NestedN(st) BY <3>1, <3>2, <3>3 DEF NestedN, Inner, Leavers
      <3> QED BY <3>4 DEF st
   <2> QED BY <2>1, <2>2, <2>3, WellByNames
<1>5. ASSUME Counts PROVE Well(<<"load", "getwalletinfo", "unload">>)
   <2>1. <<"load", "getwalletinfo", "unload">> \in Seq(Names) BY NamesAre DEF AllNames
   <2>2. LinkedN(<<"load", "getwalletinfo", "unload">>)
       BY <1>5 DEF LinkedN, Foreign, Followers, WalletCommands, Begins, Ends, Utxo, Counts, Before
   <2>3. NestedN(<<"load", "getwalletinfo", "unload">>)
      <3> DEFINE st == <<"load", "getwalletinfo", "unload">>
      <3>1. Len(st) = 3 /\ st[1] = "load" /\ st[2] = "getwalletinfo" /\ st[3] = "unload" OBVIOUS
      <3> HIDE DEF st
      <3>2. \A i \in 1..3 : (st[i] \in Ends <=> i \in {3}) /\ (st[i] \in Opens <=> i \in {1})
          BY <3>1 DEF Ends, Begins, Opens
      <3>3. OpenerN(st, 3) = 1 /\ Gap(st[3-1]) > 0 BY <3>1 DEF OpenerN, Gap
      <3>4. NestedN(st) BY <3>1, <3>2, <3>3 DEF NestedN, Inner, Leavers
      <3> QED BY <3>4 DEF st
   <2> QED BY <2>1, <2>2, <2>3, WellByNames
<1>6. ASSUME family = "utxo" /\ ~Counts PROVE Well(<<"createwallet", "put">>)
   <2>1. <<"createwallet", "put">> \in Seq(Names) BY NamesAre DEF AllNames
   <2>2. LinkedN(<<"createwallet", "put">>)
       BY <1>6 DEF LinkedN, Foreign, Followers, WalletCommands, Begins, Ends, Utxo, Counts, Before
   <2>3. ~Counts BY <1>6 DEF Utxo, Counts
   <2> QED BY <2>1, <2>2, <2>3, WellByNames
<1>7. ASSUME family = "utxo" /\ ~Counts PROVE Well(<<"createwallet", "put", "getwalletinfo">>)
   <2>1. <<"createwallet", "put", "getwalletinfo">> \in Seq(Names) BY NamesAre DEF AllNames
   <2>2. LinkedN(<<"createwallet", "put", "getwalletinfo">>)
       BY <1>7 DEF LinkedN, Foreign, Followers, WalletCommands, Begins, Ends, Utxo, Counts, Before
   <2>3. ~Counts BY <1>7 DEF Utxo, Counts
   <2> QED BY <2>1, <2>2, <2>3, WellByNames
<1>8. ASSUME family = "utxo" /\ ~Counts PROVE Well(<<"forNewAddress", "getnewaddress", "setAddress">>)
   <2>1. <<"forNewAddress", "getnewaddress", "setAddress">> \in Seq(Names) BY NamesAre DEF AllNames
   <2>2. LinkedN(<<"forNewAddress", "getnewaddress", "setAddress">>)
       BY <1>8 DEF LinkedN, Foreign, Followers, WalletCommands, Begins, Ends, Utxo, Counts, Before
   <2>3. ~Counts BY <1>8 DEF Utxo, Counts
   <2> QED BY <2>1, <2>2, <2>3, WellByNames
<1>9. ASSUME family = "utxo" /\ ~Counts PROVE Well(<<"forUse", "listunspent">>)
   <2>1. <<"forUse", "listunspent">> \in Seq(Names) BY NamesAre DEF AllNames
   <2>2. LinkedN(<<"forUse", "listunspent">>)
       BY <1>9 DEF LinkedN, Foreign, Followers, WalletCommands, Begins, Ends, Utxo, Counts, Before
   <2>3. ~Counts BY <1>9 DEF Utxo, Counts
   <2> QED BY <2>1, <2>2, <2>3, WellByNames
<1>10. ASSUME family = "utxo" /\ ~Counts PROVE Well(<<"forUse", "signrawtransaction">>)
   <2>1. <<"forUse", "signrawtransaction">> \in Seq(Names) BY NamesAre DEF AllNames
   <2>2. LinkedN(<<"forUse", "signrawtransaction">>)
       BY <1>10 DEF LinkedN, Foreign, Followers, WalletCommands, Begins, Ends, Utxo, Counts, Before
   <2>3. ~Counts BY <1>10 DEF Utxo, Counts
   <2> QED BY <2>1, <2>2, <2>3, WellByNames
<1>11. ASSUME family = "utxo" /\ ~Counts PROVE Well(<<"forUse", "txLock", "sendtoaddress", "txUnlock">>)
   <2>1. <<"forUse", "txLock", "sendtoaddress", "txUnlock">> \in Seq(Names) BY NamesAre DEF AllNames
   <2>2. LinkedN(<<"forUse", "txLock", "sendtoaddress", "txUnlock">>)
       BY <1>11 DEF LinkedN, Foreign, Followers, WalletCommands, Begins, Ends, Utxo, Counts, Before
   <2>3. ~Counts BY <1>11 DEF Utxo, Counts
   <2> QED BY <2>1, <2>2, <2>3, WellByNames
<1>12. ASSUME family = "utxo" /\ ~Counts PROVE Well(<<"keyOfAddress", "getbalance">>)
   <2>1. <<"keyOfAddress", "getbalance">> \in Seq(Names) BY NamesAre DEF AllNames
   <2>2. LinkedN(<<"keyOfAddress", "getbalance">>)
       BY <1>12 DEF LinkedN, Foreign, Followers, WalletCommands, Begins, Ends, Utxo, Counts, Before
   <2>3. ~Counts BY <1>12 DEF Utxo, Counts
   <2> QED BY <2>1, <2>2, <2>3, WellByNames
<1>13. ASSUME family = "utxoOld" PROVE Well(<<"forNewAddress", "getnewaddress", "setAddress">>)
   <2>1. <<"forNewAddress", "getnewaddress", "setAddress">> \in Seq(Names) BY NamesAre DEF AllNames
   <2>2. LinkedN(<<"forNewAddress", "getnewaddress", "setAddress">>)
       BY <1>13 DEF LinkedN, Foreign, Followers, WalletCommands, Begins, Ends, Utxo, Counts, Before
   <2>3. ~Counts BY <1>13 DEF Utxo, Counts
   <2> QED BY <2>1, <2>2, <2>3, WellByNames
<1>14. ASSUME family = "utxoOld" PROVE Well(<<"forUse", "listunspent">>)
   <2>1. <<"forUse", "listunspent">> \in Seq(Names) BY NamesAre DEF AllNames
   <2>2. LinkedN(<<"forUse", "listunspent">>)
       BY <1>14 DEF LinkedN, Foreign, Followers, WalletCommands, Begins, Ends, Utxo, Counts, Before
   <2>3. ~Counts BY <1>14 DEF Utxo, Counts
   <2> QED BY <2>1, <2>2, <2>3, WellByNames
<1>15. ASSUME family = "utxoOld" PROVE Well(<<"forUse", "dumpprivkey", "signrawtransaction">>)
   <2>1. <<"forUse", "dumpprivkey", "signrawtransaction">> \in Seq(Names) BY NamesAre DEF AllNames
   <2>2. LinkedN(<<"forUse", "dumpprivkey", "signrawtransaction">>)
       BY <1>15 DEF LinkedN, Foreign, Followers, WalletCommands, Begins, Ends, Utxo, Counts, Before
   <2>3. ~Counts BY <1>15 DEF Utxo, Counts
   <2> QED BY <2>1, <2>2, <2>3, WellByNames
<1>16. ASSUME family = "utxoOld" PROVE Well(<<"forSetAccount", "setaccount">>)
   <2>1. <<"forSetAccount", "setaccount">> \in Seq(Names) BY NamesAre DEF AllNames
   <2>2. LinkedN(<<"forSetAccount", "setaccount">>)
       BY <1>16 DEF LinkedN, Foreign, Followers, WalletCommands, Begins, Ends, Utxo, Counts, Before
   <2>3. ~Counts BY <1>16 DEF Utxo, Counts
   <2> QED BY <2>1, <2>2, <2>3, WellByNames
<1>17. ASSUME family = "utxoOld" PROVE Well(<<"keyOfAddress">>)
   <2>1. <<"keyOfAddress">> \in Seq(Names) BY NamesAre DEF AllNames
   <2>2. LinkedN(<<"keyOfAddress">>)
       BY <1>17 DEF LinkedN, Foreign, Followers, WalletCommands, Begins, Ends, Utxo, Counts, Before
   <2>3. ~Counts BY <1>17 DEF Utxo, Counts
   <2> QED BY <2>1, <2>2, <2>3, WellByNames
<1> QED BY <1>1, <1>2, <1>3, <1>4, <1>5, <1>6, <1>7, <1>8, <1>9, <1>10, <1>11, <1>12, <1>13, <1>14,
           <1>15, <1>16, <1>17

----------------------------------------------------------------------------
(* The invariants *)

\* The fields of a wallet.
NodeWallet ==
  [key: Keys, acct: Nat, ready: BOOLEAN, loadCount: Nat, mu: Procs \cup {None}, txLock: Procs \cup {None}]

\* The test's key names, except GetBalance of an address nobody knows.
Known(s) == (\A i \in DOMAIN s : s[i][2] \in Keys) \/ (s # <<>>
  /\ s[1] = <<"keyOfAddress", Stranger>> /\ ~Has(s, "sendrawtransaction"))

\* The types the proofs need.
TypeOK ==
  /\ family \in Families /\ unloadAfterUse \in BOOLEAN /\ litecoin \in BOOLEAN
  /\ (litecoin \/ unloadAfterUse => family = "utxo")
  /\ mapAccess \in Procs \cup {None}
  /\ obj \in Seq(NodeWallet)
  /\ wallet \in [Keys -> Nat]
  /\ nextAcctNum \in Nat
  /\ pc \in [Procs -> Scripts]
  /\ ptr \in [Procs -> Nat] /\ got \in [Procs -> Nat]
  /\ listed \in [Procs -> SUBSET Outputs] /\ inputs \in [Procs -> SUBSET Outputs]
  /\ accts \in Seq(Keys \X {"new", "import"})
  /\ created \in SUBSET Keys /\ loaded \in SUBSET Keys /\ lost \in SUBSET Keys
  /\ spent \in [Keys -> SUBSET Outputs]

\* An entry of the map points to a wallet of its own key name.
Mapped == \A k \in Keys : wallet[k] # 0 => wallet[k] \in DOMAIN obj /\ obj[wallet[k]].key = k

\* Every goroutine's script is in shape.
Shaped == \A t \in Procs : Shape(pc[t]) /\ Known(pc[t])

\* First layer of the inductive invariant.
Base == TypeOK /\ Mapped /\ Shaped

\* Account a was made for k.
AccountOf(a, k) == a \in DOMAIN accts /\ accts[a][1] = k

\* What a call is about to store is the account it has just made.
GotOwn ==
  \A t \in Procs :
    At(t, {"number", "setAddress", "put"}) /\ (Step(t) = "put" => family # "utxo") =>
      AccountOf(got[t], Key(t))

\* geth holds MapAccess from the look at the map to the entry it makes.
MapHeld ==
  family = "geth" =>
    \A t \in Procs : At(t, {"accountNew", "import", "number", "readAccount", "mapUnlock"}) => mapAccess = t

\* geth's own count agrees with the node's, save for the one account that is
\* made and not numbered yet.
Numbered ==
  family = "geth" /\ lost = {} =>
    /\ \A t \in Procs : At(t, {"number"}) => Len(accts) = nextAcctNum /\ AccountOf(nextAcctNum, Key(t))
    /\ (\A t \in Procs : ~At(t, {"number"})) => Len(accts) + 1 = nextAcctNum

\* A name that NewKey, and on geth RecoverKey, found unused stays unused under
\* MapAccess until its number is given.
Reserving == {"accountNew", "number"} \cup (IF family = "geth" THEN {"import"} ELSE {})
Reserved ==
  ~Utxo => \A t \in Procs :
    /\ At(t, Reserving \cup {"mapUnlock"}) => mapAccess = t
    /\ At(t, Reserving) => Entry(t) = 0

\* Second layer: an account belongs to its key name.
OwnInv == GotOwn /\ MapHeld /\ Reserved /\ Numbered /\ AccountMadeFor

\* A wallet that is created and not in the map yet is so by one call: the node
\* refuses a second createwallet of the name.
OnePut ==
  /\ \A t \in Procs : At(t, {"put"}) => wallet[Key(t)] = 0 /\ Key(t) \in created
  /\ \A t, u \in Procs : At(t, {"put"}) /\ At(u, {"put"}) /\ Key(t) = Key(u) => t = u
  /\ \A k \in Keys : wallet[k] # 0 /\ family = "utxo" => k \in created

\* The call found its wallet in the map; the wallet's txLock is the call's.
HasPtr(t) == Entry(t) # 0 /\ ptr[t] = Entry(t)
Holding(t) == Entry(t) # 0 /\ obj[Entry(t)].txLock = t

\* Calls lock, use and unlock the txLock of the wallet they looked up.
Pointed ==
  \A t \in Procs :
    /\ At(t, {"txLock", "sendtoaddress", "txUnlock"}) => HasPtr(t)
    /\ At(t, {"sendtoaddress", "txUnlock"}) => Holding(t)
    /\ At(t, Begins) /\ 2 \in DOMAIN pc[t] /\ pc[t][2][1] = "txLock" => HasPtr(t)

\* The call still sends, and has that step behind it.
Passed(t, n) == Has(pc[t], "sendrawtransaction") /\ ~Has(pc[t], n)

\* A call that sends has txLock from then on, and what it listed and picked under
\* it is unspent.
Locked ==
  \A t \in Procs :
    /\ Passed(t, "txLock") => Holding(t)
    /\ Passed(t, "listunspent") => Passed(t, "txLock") /\ listed[t] \cap spent[Key(t)] = {}
    /\ Passed(t, "createrawtransaction") => Passed(t, "txLock") /\ inputs[t] \cap spent[Key(t)] = {}

\* Third layer: outputs are listed, picked and spent under the wallet's txLock.
SendInv == Utxo => OnePut /\ Pointed /\ Locked

\* The UnloadWallet steps left whose LoadWallet already ran: the loads a script holds.
Open(s, k) == {i \in DOMAIN s : s[i][1] \in Ends /\ s[i][2] = k /\ (i = 1 \/ Opener(s, i) < 1)}

\* The same loads, numbered from the script's end, where the numbers stay put as
\* the script runs.
Tokens(s, k) == {n \in Nat : Len(s) - n \in Open(s, k)}

\* The loads all calls hold on a key name.
Holds(k) == {x \in Procs \X Nat : x[2] \in Tokens(pc[x[1]], k)}

\* loadCount of the key name's wallet, 0 without a wallet.
Count(k) == IF wallet[k] = 0 THEN 0 ELSE obj[wallet[k]].loadCount

\* While the command of LoadWallet or UnloadWallet runs, the call has the wallet's
\* mu, and the count it looked at is still the count.
Turning ==
  \A t \in Procs :
    At(t, {"loading", "unloading"}) =>
      /\ Entry(t) # 0 /\ Own(t).mu = t
      /\ Own(t).loadCount = IF Step(t) = "loading" THEN 0 ELSE 1

\* A counted wallet, and one just created, is loaded in the daemon unless the
\* answer to a command was lost.
Backed ==
  /\ \A k \in Keys : Count(k) > 0 => k \in loaded \cup lost
  /\ \A t \in Procs : At(t, {"put"}) => Key(t) \in loaded \cup lost

\* Without unloading, a wallet in the map is counted for good, and commands run
\* on such wallets.
Stays ==
  /\ \A k \in Keys : wallet[k] # 0 => Count(k) > 0
  /\ \A t \in Procs : At(t, WalletCommands) => Entry(t) # 0

\* A created wallet of that key name is about to enter the map with a count of 1.
Putting(k) == \E t \in Procs : At(t, {"put"}) /\ Key(t) = k

\* The count is the number of loads held, unless a call failed, which leaves the
\* count above them: an error skips the UnloadWallet.  A loaded wallet is counted.
BalancedAt(k) ==
  /\ IsFiniteSet(Holds(k)) /\ Cardinality(Holds(k)) <= Count(k)
  /\ k \notin failed => Count(k) = Cardinality(Holds(k))
  /\ k \in loaded \ failed => Count(k) > 0 \/ Putting(k)
Balanced == \A k \in Keys : BalancedAt(k)

\* Fourth layer: the count of a wallet's users and the daemon's loaded wallets.
LoadInv ==
  family = "utxo" => Turning /\ Backed /\ (IF unloadAfterUse THEN Balanced ELSE Stays)

----------------------------------------------------------------------------
(* The scripts of the calls have that shape, function by function. *)

\* Concatenation with nothing.
LEMMA Empties == \A s \in Seq(Names) : s \o <<>> = s /\ <<>> \o s = s
BY ConcatEmptySeq

\* The functions SendFunds, BuildWallet, GetBalance and Start are made of.
LEMMA WalletPieces ==
  ASSUME Utxo, TypeOK
  PROVE
  /\ Well(CreateWallet) /\ Well(GetNewAddress) /\ Well(GetBalance) /\ Well(SetAccount)
  /\ Well(CreateWallet \o (Loads \o <<"getwalletinfo">> \o Unloads))
  /\ family = "utxo" => Well(SendToMwebAddress)
  /\ ~Counts => Well(ListUnspent) /\ Well(SignRawTransaction)
  /\ Counts => ListUnspent = <<"forUse", "load", "listunspent", "unload">>
               /\ SignRawTransaction = <<"forUse", "load", "signrawtransaction", "unload">>
<1>1. /\ "forUse" \in Names /\ "load" \in Names /\ "unload" \in Names /\ "listunspent" \in Names
           /\ "signrawtransaction" \in Names
      /\ "createwallet" \in Names /\ "put" \in Names /\ "getnewaddress" \in Names /\ "setAddress" \in Names
      /\ "forNewAddress" \in Names /\ "getwalletinfo" \in Names /\ "getbalance" \in Names
           /\ "keyOfAddress" \in Names
      /\ "txLock" \in Names /\ "txUnlock" \in Names /\ "sendtoaddress" \in Names /\ "dumpprivkey" \in Names
      /\ "forSetAccount" \in Names /\ "setaccount" \in Names
      /\ <<>> \in Seq(Names) /\ (\A a, b \in Names : <<a>> \in Seq(Names) /\ <<a, b>> \in Seq(Names))
      /\ \A a, b, c \in Names : <<a, b, c>> \in Seq(Names)
   <2>1. /\ <<>> \in Seq(Names) /\ (\A a, b \in Names : <<a>> \in Seq(Names) /\ <<a, b>> \in Seq(Names))
         /\ \A a, b, c \in Names : <<a, b, c>> \in Seq(Names) OBVIOUS
   <2>2. Names = AllNames BY NamesAre
   <2> HIDE DEF Names
   <2>3. /\ "forUse" \in AllNames /\ "load" \in AllNames /\ "unload" \in AllNames
              /\ "listunspent" \in AllNames /\ "signrawtransaction" \in AllNames
         /\ "createwallet" \in AllNames /\ "put" \in AllNames /\ "getnewaddress" \in AllNames
              /\ "setAddress" \in AllNames
         /\ "forNewAddress" \in AllNames /\ "getwalletinfo" \in AllNames
              /\ "getbalance" \in AllNames /\ "keyOfAddress" \in AllNames
         /\ "txLock" \in AllNames /\ "txUnlock" \in AllNames /\ "sendtoaddress" \in AllNames
              /\ "dumpprivkey" \in AllNames
         /\ "forSetAccount" \in AllNames /\ "setaccount" \in AllNames BY DEF AllNames
   <2> QED BY ONLY <2>1, <2>2, <2>3
<1>2. ASSUME Counts PROVE
      /\ Loads = <<"load">> /\ Unloads = <<"unload">>
      /\ CreateWallet = <<"createwallet", "put", "unload">>
      /\ GetNewAddress = <<"forNewAddress", "load", "getnewaddress", "setAddress", "unload">>
      /\ ListUnspent = <<"forUse", "load", "listunspent", "unload">>
      /\ SignRawTransaction = <<"forUse", "load", "signrawtransaction", "unload">>
      /\ SendToMwebAddress = <<"forUse", "load", "txLock", "sendtoaddress", "txUnlock", "unload">>
      /\ GetBalance = <<"keyOfAddress", "load", "getbalance", "unload">>
      /\ Loads \o <<"getwalletinfo">> \o Unloads = <<"load", "getwalletinfo", "unload">>
   <2>1. Loads = <<"load">> /\ Unloads = <<"unload">> /\ family = "utxo"
       BY <1>2 DEF Loads, Unloads, Counts
   <2>2. CreateWallet = <<"createwallet", "put", "unload">>
      <3>1. <<"createwallet", "put">> \o <<"unload">> = <<"createwallet", "put", "unload">>
          BY <1>1, Join21
      <3> QED BY <3>1, <2>1 DEF CreateWallet
   <2>3. GetNewAddress = <<"forNewAddress", "load", "getnewaddress", "setAddress", "unload">>
      <3>1. <<"forNewAddress">> \o <<"load">> = <<"forNewAddress", "load">> BY <1>1, Join11
      <3>2. <<"forNewAddress", "load">> \o <<"getnewaddress", "setAddress">> = <<"forNewAddress",
            "load", "getnewaddress", "setAddress">>
          BY <1>1, Join22
      <3>3. <<"forNewAddress", "load", "getnewaddress",
            "setAddress">> \o <<"unload">> = <<"forNewAddress", "load", "getnewaddress", "setAddress",
            "unload">>
          BY <1>1, Join41
      <3> QED BY <3>1, <3>2, <3>3, <2>1 DEF GetNewAddress
   <2>4. ListUnspent = <<"forUse", "load", "listunspent", "unload">>
      <3>1. <<"forUse">> \o <<"load">> = <<"forUse", "load">> BY <1>1, Join11
      <3>2. <<"forUse", "load">> \o <<"listunspent">> = <<"forUse", "load", "listunspent">>
          BY <1>1, Join21
      <3>3. <<"forUse", "load", "listunspent">> \o <<"unload">> = <<"forUse", "load", "listunspent",
            "unload">>
          BY <1>1, Join31
      <3> QED BY <3>1, <3>2, <3>3, <2>1 DEF ListUnspent
   <2>5. SignRawTransaction = <<"forUse", "load", "signrawtransaction", "unload">>
      <3>1. <<"forUse">> \o <<>> = <<"forUse">> BY <1>1, Empties
      <3>2. <<"forUse">> \o <<"load">> = <<"forUse", "load">> BY <1>1, Join11
      <3>3. <<"forUse", "load">> \o <<"signrawtransaction">> = <<"forUse", "load", "signrawtransaction">>
          BY <1>1, Join21
      <3>4. <<"forUse", "load", "signrawtransaction">> \o <<"unload">> = <<"forUse", "load",
            "signrawtransaction", "unload">>
          BY <1>1, Join31
      <3> QED BY <3>1, <3>2, <3>3, <3>4, <2>1 DEF SignRawTransaction
   <2>6. SendToMwebAddress = <<"forUse", "load", "txLock", "sendtoaddress", "txUnlock", "unload">>
      <3>1. <<"forUse">> \o <<"load">> = <<"forUse", "load">> BY <1>1, Join11
      <3>2. <<"forUse", "load">> \o <<"txLock", "sendtoaddress", "txUnlock">> = <<"forUse", "load",
            "txLock", "sendtoaddress", "txUnlock">>
          BY <1>1, Join23
      <3>3. <<"forUse", "load", "txLock", "sendtoaddress", "txUnlock">> \o <<"unload">> = <<"forUse",
            "load", "txLock", "sendtoaddress", "txUnlock", "unload">>
         <4>1. "forUse" \in Names /\ "load" \in Names /\ "txLock" \in Names
               /\ "sendtoaddress" \in Names /\ "txUnlock" \in Names /\ "unload" \in Names
             BY <1>1
         <4> QED BY ONLY <4>1, Join51
      <3> QED BY <3>1, <3>2, <3>3, <2>1 DEF SendToMwebAddress
   <2>7. GetBalance = <<"keyOfAddress", "load", "getbalance", "unload">>
      <3>1. <<"load">> \o <<"getbalance">> = <<"load", "getbalance">> BY <1>1, Join11
      <3>2. <<"load", "getbalance">> \o <<"unload">> = <<"load", "getbalance", "unload">>
          BY <1>1, Join21
      <3>3. <<"keyOfAddress">> \o <<"load", "getbalance", "unload">> = <<"keyOfAddress", "load",
            "getbalance", "unload">>
          BY <1>1, Join13
      <3> QED BY <3>1, <3>2, <3>3, <2>1 DEF GetBalance
   <2>8. Loads \o <<"getwalletinfo">> \o Unloads = <<"load", "getwalletinfo", "unload">>
      <3>1. <<"load">> \o <<"getwalletinfo">> = <<"load", "getwalletinfo">> BY <1>1, Join11
      <3>2. <<"load", "getwalletinfo">> \o <<"unload">> = <<"load", "getwalletinfo", "unload">>
          BY <1>1, Join21
      <3> QED BY <3>1, <3>2, <2>1
   <2> QED BY <2>1, <2>2, <2>3, <2>4, <2>5, <2>6, <2>7, <2>8
<1>3. ASSUME ~Counts PROVE
      /\ Loads = <<>> /\ Unloads = <<>>
      /\ GetNewAddress = <<"forNewAddress", "getnewaddress", "setAddress">>
      /\ ListUnspent = <<"forUse", "listunspent">>
      /\ SignRawTransaction = IF family = "utxo" THEN <<"forUse",
           "signrawtransaction">> ELSE <<"forUse", "dumpprivkey", "signrawtransaction">>
      /\ CreateWallet = IF family = "utxo" THEN <<"createwallet", "put">> ELSE <<>>
      /\ SendToMwebAddress = <<"forUse", "txLock", "sendtoaddress", "txUnlock">>
      /\ family = "utxo" => GetBalance = <<"keyOfAddress", "getbalance">>
      /\ Loads \o <<"getwalletinfo">> \o Unloads = <<"getwalletinfo">>
   <2>1. Loads = <<>> /\ Unloads = <<>> BY <1>3 DEF Loads, Unloads, Counts
   <2>2. GetNewAddress = <<"forNewAddress", "getnewaddress", "setAddress">>
      <3>1. <<"forNewAddress">> \o <<>> = <<"forNewAddress">> BY <1>1, Empties
      <3>2. <<"forNewAddress">> \o <<"getnewaddress", "setAddress">> = <<"forNewAddress",
            "getnewaddress", "setAddress">>
          BY <1>1, Join12
      <3>3. <<"forNewAddress", "getnewaddress", "setAddress">> \o <<>> = <<"forNewAddress",
            "getnewaddress", "setAddress">>
          BY <1>1, Empties
      <3> QED BY <3>1, <3>2, <3>3, <2>1 DEF GetNewAddress
   <2>3. ListUnspent = <<"forUse", "listunspent">>
      <3>1. <<"forUse">> \o <<>> = <<"forUse">> BY <1>1, Empties
      <3>2. <<"forUse">> \o <<"listunspent">> = <<"forUse", "listunspent">> BY <1>1, Join11
      <3>3. <<"forUse", "listunspent">> \o <<>> = <<"forUse", "listunspent">> BY <1>1, Empties
      <3> QED BY <3>1, <3>2, <3>3, <2>1 DEF ListUnspent
   <2>4. ASSUME family = "utxo" PROVE
           /\ SignRawTransaction = <<"forUse", "signrawtransaction">>
                /\ CreateWallet = <<"createwallet", "put">>
           /\ GetBalance = <<"keyOfAddress", "getbalance">>
      <3>1. SignRawTransaction = <<"forUse", "signrawtransaction">>
         <4>1. <<"forUse">> \o <<>> = <<"forUse">> BY <1>1, Empties
         <4>2. <<"forUse">> \o <<>> = <<"forUse">> BY <1>1, Empties
         <4>3. <<"forUse">> \o <<"signrawtransaction">> = <<"forUse", "signrawtransaction">>
             BY <1>1, Join11
         <4>4. <<"forUse", "signrawtransaction">> \o <<>> = <<"forUse", "signrawtransaction">>
             BY <1>1, Empties
         <4> QED BY <4>1, <4>2, <4>3, <4>4, <2>1, <2>4 DEF SignRawTransaction
      <3>2. CreateWallet = <<"createwallet", "put">>
         <4>1. <<"createwallet", "put">> \o <<>> = <<"createwallet", "put">> BY <1>1, Empties
         <4> QED BY <4>1, <2>1, <2>4 DEF CreateWallet
      <3>3. GetBalance = <<"keyOfAddress", "getbalance">>
         <4>1. <<>> \o <<"getbalance">> = <<"getbalance">> BY <1>1, Empties
         <4>2. <<"getbalance">> \o <<>> = <<"getbalance">> BY <1>1, Empties
         <4>3. <<"keyOfAddress">> \o <<"getbalance">> = <<"keyOfAddress", "getbalance">> BY <1>1, Join11
         <4> QED BY <4>1, <4>2, <4>3, <2>1, <2>4 DEF GetBalance
      <3> QED BY <3>1, <3>2, <3>3
   <2>5. ASSUME family # "utxo"
         PROVE SignRawTransaction = <<"forUse", "dumpprivkey", "signrawtransaction">> /\ CreateWallet = <<>>
      <3>1. family = "utxoOld" BY <2>5 DEF Utxo
      <3>2. SignRawTransaction = <<"forUse", "dumpprivkey", "signrawtransaction">>
         <4>1. <<"forUse">> \o <<"dumpprivkey">> = <<"forUse", "dumpprivkey">> BY <1>1, Join11
         <4>2. <<"forUse", "dumpprivkey">> \o <<>> = <<"forUse", "dumpprivkey">> BY <1>1, Empties
         <4>3. <<"forUse", "dumpprivkey">> \o <<"signrawtransaction">> = <<"forUse", "dumpprivkey",
               "signrawtransaction">>
             BY <1>1, Join21
         <4>4. <<"forUse", "dumpprivkey", "signrawtransaction">> \o <<>> = <<"forUse", "dumpprivkey",
               "signrawtransaction">>
             BY <1>1, Empties
         <4> QED BY <4>1, <4>2, <4>3, <4>4, <2>1, <3>1 DEF SignRawTransaction
      <3>3. CreateWallet = <<>> BY <2>5 DEF CreateWallet
      <3> QED BY <3>2, <3>3
   <2>6. SendToMwebAddress = <<"forUse", "txLock", "sendtoaddress", "txUnlock">>
      <3>1. <<"forUse">> \o <<>> = <<"forUse">> BY <1>1, Empties
      <3>2. <<"forUse">> \o <<"txLock", "sendtoaddress", "txUnlock">> = <<"forUse", "txLock",
            "sendtoaddress", "txUnlock">>
          BY <1>1, Join13
      <3>3. <<"forUse", "txLock", "sendtoaddress", "txUnlock">> \o <<>> = <<"forUse", "txLock",
            "sendtoaddress", "txUnlock">>
          BY <1>1, Empties
      <3> QED BY <3>1, <3>2, <3>3, <2>1 DEF SendToMwebAddress
   <2>7. Loads \o <<"getwalletinfo">> \o Unloads = <<"getwalletinfo">>
      <3>1. <<>> \o <<"getwalletinfo">> = <<"getwalletinfo">> BY <1>1, Empties
      <3>2. <<"getwalletinfo">> \o <<>> = <<"getwalletinfo">> BY <1>1, Empties
      <3> QED BY <3>1, <3>2, <2>1
   <2> QED BY <2>1, <2>2, <2>3, <2>4, <2>5, <2>6, <2>7
<1>4. SetAccount = IF family = "utxoOld" THEN <<"forSetAccount", "setaccount">> ELSE <<>>
    BY DEF SetAccount
<1>5. CASE Counts
   <2>1. family = "utxo" /\ family # "utxoOld" BY <1>5 DEF Counts
   <2>2. Well(CreateWallet \o (Loads \o <<"getwalletinfo">> \o Unloads))
       BY <1>5, <1>2, WalletLiterals, WellCat
   <2> QED BY <1>5, <1>2, <1>4, <2>1, <2>2, WalletLiterals, WellEmpty
<1>6. CASE ~Counts /\ family = "utxo"
   <2>1. CreateWallet = <<"createwallet", "put">>
         /\ Loads \o <<"getwalletinfo">> \o Unloads = <<"getwalletinfo">>
       BY <1>6, <1>3
   <2>2. CreateWallet \o (Loads \o <<"getwalletinfo">> \o Unloads) = <<"createwallet", "put",
         "getwalletinfo">>
      <3>1. "createwallet" \in Names /\ "put" \in Names /\ "getwalletinfo" \in Names BY <1>1
      <3>2. <<"createwallet", "put">> \o <<"getwalletinfo">> = <<"createwallet", "put", "getwalletinfo">>
          BY ONLY <3>1, Join21
      <3> QED BY <2>1, <3>2
   <2> QED BY <1>6, <1>3, <1>4, <2>2, WalletLiterals, WellEmpty
<1>7. CASE ~Counts /\ family = "utxoOld"
   <2>1. GetBalance = <<"keyOfAddress">> \o ListUnspent BY <1>7 DEF GetBalance
   <2>2. Well(<<"getwalletinfo">>)
      <3>1. <<"getwalletinfo">> \in Seq(Names) BY <1>1
      <3>2. LinkedN(<<"getwalletinfo">>)
          BY <1>7 DEF LinkedN, Foreign, Followers, WalletCommands, Begins, Ends, Utxo, Counts
      <3> QED BY <1>7, <3>1, <3>2, WellByNames
   <2>3. Well(CreateWallet \o (Loads \o <<"getwalletinfo">> \o Unloads))
       BY <1>7, <1>3, <2>2, WellEmpty, WellCat
   <2> QED BY <1>7, <1>3, <1>4, <2>1, <2>3, WalletLiterals, WellEmpty, WellCat
<1> QED BY <1>5, <1>6, <1>7 DEF Utxo

\* SendFunds with loads: the one of the whole call contains those of listunspent and
\* signrawtransaction, which only the list as a whole shows.
LEMMA SendFundsSteps == ASSUME Utxo, TypeOK, Counts PROVE Well(UtxoSendFunds)
<1> DEFINE q1 == Loads \o <<"forUse", "txLock">>
           q2 == q1 \o ListUnspent
           q3 == q2 \o CreateRawTransaction
           q4 == q3 \o SignRawTransaction
           q5 == q4 \o <<"sendrawtransaction">>
           q6 == q5 \o Unloads
           q7 == q6 \o <<"wait">>
<1>1. Loads = <<"load">> /\ Unloads = <<"unload">>
      /\ CreateRawTransaction = <<"forUse", "createrawtransaction">>
      /\ ListUnspent = <<"forUse", "load", "listunspent", "unload">>
      /\ SignRawTransaction = <<"forUse", "load", "signrawtransaction", "unload">>
   BY WalletPieces DEF Loads, Unloads, CreateRawTransaction, Counts
<1>2. Well(CreateRawTransaction)  BY Literals DEF CreateRawTransaction
<1>3. /\ Loads \in Seq(Names) /\ Unloads \in Seq(Names) /\ CreateRawTransaction \in Seq(Names)
           /\ ListUnspent \in Seq(Names)
      /\ SignRawTransaction \in Seq(Names) /\ <<"forUse", "txLock">> \in Seq(Names)
      /\ <<"sendrawtransaction">> \in Seq(Names) /\ <<"wait">> \in Seq(Names)
   <2>1. "load" \in Names /\ "unload" \in Names /\ "forUse" \in Names
         /\ "createrawtransaction" \in Names /\ "listunspent" \in Names
         /\ "signrawtransaction" \in Names /\ "txLock" \in Names /\ "sendrawtransaction" \in Names
              /\ "wait" \in Names
       BY NamesAre DEF AllNames
   <2>2. \A a, b, c, d \in Names : <<a>> \in Seq(Names) /\ <<a, b>> \in Seq(Names)
         /\ <<a, b, c, d>> \in Seq(Names) OBVIOUS
   <2> QED BY <1>1, <2>1, <2>2
<1>4. q1 \in Seq(Names) /\ Len(q1) = 3
      /\ q1[1] = "load" /\ q1[2] = "forUse" /\ q1[3] = "txLock"
   <2>1. Loads \in Seq(Names) /\ <<"forUse", "txLock">> \in Seq(Names) BY <1>3
   <2>2. q1 \in Seq(Names) /\ Len(q1) = Len(Loads) + Len(<<"forUse", "txLock">>)
         /\ (\A i \in 1..Len(Loads) : q1[i] = Loads[i])
         /\ \A i \in 1..Len(<<"forUse", "txLock">>) : q1[Len(Loads) + i] = <<"forUse", "txLock">>[i]
       BY <2>1, CatFacts
   <2>3. Len(<<"forUse", "txLock">>) = 2 /\ <<"forUse", "txLock">>[1] = "forUse"
         /\ <<"forUse", "txLock">>[2] = "txLock"
       BY <1>1
   <2> HIDE DEF q1
   <2>4. Len(Loads) = 1 BY <1>1, <1>3
   <2>5. Loads[1] = "load" BY <1>1
   <2> QED BY <2>2, <2>3, <2>4, <2>5
<1>5. q2 \in Seq(Names) /\ Len(q2) = 7
      /\ q2[1] = "load" /\ q2[2] = "forUse" /\ q2[3] = "txLock" /\ q2[4] = "forUse"
           /\ q2[5] = "load" /\ q2[6] = "listunspent" /\ q2[7] = "unload"
   <2> HIDE DEF q1
   <2>1. q1 \in Seq(Names) /\ ListUnspent \in Seq(Names) BY <1>3, <1>4
   <2>2. q2 \in Seq(Names) /\ Len(q2) = Len(q1) + Len(ListUnspent) /\ (\A i \in 1..Len(q1) : q2[i] = q1[i])
         /\ \A i \in 1..Len(ListUnspent) : q2[Len(q1) + i] = ListUnspent[i] BY <2>1, CatFacts
   <2>3. Len(ListUnspent) = 4 /\ ListUnspent[1] = "forUse" /\ ListUnspent[2] = "load"
         /\ ListUnspent[3] = "listunspent" /\ ListUnspent[4] = "unload"
       BY <1>1
   <2> HIDE DEF q2
   <2>4. Len(q1) = 3 BY <1>4
   <2>5. Len(q2) = 7 /\ (\A i \in 1..3 : q2[i] = q1[i]) /\ \A i \in 1..4 : q2[3 + i] = ListUnspent[i]
       BY <2>2, <2>3, <2>4
   <2>6. q2[4] = ListUnspent[1] /\ q2[5] = ListUnspent[2] /\ q2[6] = ListUnspent[3]
         /\ q2[7] = ListUnspent[4]
       BY <2>5
   <2> QED BY <2>2, <2>3, <2>5, <2>6, <1>4
<1>6. q3 \in Seq(Names) /\ Len(q3) = 9
      /\ q3[1] = "load" /\ q3[2] = "forUse" /\ q3[3] = "txLock" /\ q3[4] = "forUse"
           /\ q3[5] = "load" /\ q3[6] = "listunspent" /\ q3[7] = "unload" /\ q3[8] = "forUse"
           /\ q3[9] = "createrawtransaction"
   <2> HIDE DEF q1, q2
   <2>1. q2 \in Seq(Names) /\ CreateRawTransaction \in Seq(Names) BY <1>3, <1>5
   <2>2. q3 \in Seq(Names) /\ Len(q3) = Len(q2) + Len(CreateRawTransaction)
         /\ (\A i \in 1..Len(q2) : q3[i] = q2[i])
         /\ \A i \in 1..Len(CreateRawTransaction) : q3[Len(q2) + i] = CreateRawTransaction[i]
       BY <2>1, CatFacts
   <2>3. Len(CreateRawTransaction) = 2 /\ CreateRawTransaction[1] = "forUse"
         /\ CreateRawTransaction[2] = "createrawtransaction"
       BY <1>1
   <2> HIDE DEF q3
   <2>4. Len(q2) = 7 BY <1>5
   <2>5. Len(q3) = 9 /\ (\A i \in 1..7 : q3[i] = q2[i])
         /\ \A i \in 1..2 : q3[7 + i] = CreateRawTransaction[i]
       BY <2>2, <2>3, <2>4
   <2>6. q3[8] = CreateRawTransaction[1] /\ q3[9] = CreateRawTransaction[2] BY <2>5
   <2> QED BY <2>2, <2>3, <2>5, <2>6, <1>5
<1>7. q4 \in Seq(Names) /\ Len(q4) = 13
      /\ q4[1] = "load" /\ q4[2] = "forUse" /\ q4[3] = "txLock" /\ q4[4] = "forUse"
           /\ q4[5] = "load" /\ q4[6] = "listunspent" /\ q4[7] = "unload" /\ q4[8] = "forUse"
           /\ q4[9] = "createrawtransaction" /\ q4[10] = "forUse" /\ q4[11] = "load"
           /\ q4[12] = "signrawtransaction" /\ q4[13] = "unload"
   <2> HIDE DEF q1, q2, q3
   <2>1. q3 \in Seq(Names) /\ SignRawTransaction \in Seq(Names) BY <1>3, <1>6
   <2>2. q4 \in Seq(Names) /\ Len(q4) = Len(q3) + Len(SignRawTransaction)
         /\ (\A i \in 1..Len(q3) : q4[i] = q3[i])
         /\ \A i \in 1..Len(SignRawTransaction) : q4[Len(q3) + i] = SignRawTransaction[i]
       BY <2>1, CatFacts
   <2>3. Len(SignRawTransaction) = 4 /\ SignRawTransaction[1] = "forUse"
         /\ SignRawTransaction[2] = "load" /\ SignRawTransaction[3] = "signrawtransaction"
         /\ SignRawTransaction[4] = "unload"
       BY <1>1
   <2> HIDE DEF q4
   <2>4. Len(q3) = 9 BY <1>6
   <2>5. Len(q4) = 13 /\ (\A i \in 1..9 : q4[i] = q3[i])
         /\ \A i \in 1..4 : q4[9 + i] = SignRawTransaction[i]
       BY <2>2, <2>3, <2>4
   <2>6. q4[10] = SignRawTransaction[1] /\ q4[11] = SignRawTransaction[2]
         /\ q4[12] = SignRawTransaction[3] /\ q4[13] = SignRawTransaction[4]
       BY <2>5
   <2> QED BY <2>2, <2>3, <2>5, <2>6, <1>6
<1>8. q5 \in Seq(Names) /\ Len(q5) = 14
      /\ q5[1] = "load" /\ q5[2] = "forUse" /\ q5[3] = "txLock" /\ q5[4] = "forUse"
           /\ q5[5] = "load" /\ q5[6] = "listunspent" /\ q5[7] = "unload" /\ q5[8] = "forUse"
           /\ q5[9] = "createrawtransaction" /\ q5[10] = "forUse" /\ q5[11] = "load"
           /\ q5[12] = "signrawtransaction" /\ q5[13] = "unload" /\ q5[14] = "sendrawtransaction"
   <2> HIDE DEF q1, q2, q3, q4
   <2>1. q4 \in Seq(Names) /\ <<"sendrawtransaction">> \in Seq(Names) BY <1>3, <1>7
   <2>2. q5 \in Seq(Names) /\ Len(q5) = Len(q4) + Len(<<"sendrawtransaction">>)
         /\ (\A i \in 1..Len(q4) : q5[i] = q4[i])
         /\ \A i \in 1..Len(<<"sendrawtransaction">>) : q5[Len(q4) + i] = <<"sendrawtransaction">>[i]
       BY <2>1, CatFacts
   <2>3. Len(<<"sendrawtransaction">>) = 1 /\ <<"sendrawtransaction">>[1] = "sendrawtransaction" BY <1>1
   <2> HIDE DEF q5
   <2>4. Len(q4) = 13 BY <1>7
   <2>5. Len(q5) = 14 /\ (\A i \in 1..13 : q5[i] = q4[i])
         /\ \A i \in 1..1 : q5[13 + i] = <<"sendrawtransaction">>[i]
       BY <2>2, <2>3, <2>4
   <2>6. q5[14] = <<"sendrawtransaction">>[1] BY <2>5
   <2> QED BY <2>2, <2>3, <2>5, <2>6, <1>7
<1>9. q6 \in Seq(Names) /\ Len(q6) = 15
      /\ q6[1] = "load" /\ q6[2] = "forUse" /\ q6[3] = "txLock" /\ q6[4] = "forUse"
           /\ q6[5] = "load" /\ q6[6] = "listunspent" /\ q6[7] = "unload" /\ q6[8] = "forUse"
           /\ q6[9] = "createrawtransaction" /\ q6[10] = "forUse" /\ q6[11] = "load"
           /\ q6[12] = "signrawtransaction" /\ q6[13] = "unload" /\ q6[14] = "sendrawtransaction"
           /\ q6[15] = "unload"
   <2> HIDE DEF q1, q2, q3, q4, q5
   <2>1. q5 \in Seq(Names) /\ Unloads \in Seq(Names) BY <1>3, <1>8
   <2>2. q6 \in Seq(Names) /\ Len(q6) = Len(q5) + Len(Unloads) /\ (\A i \in 1..Len(q5) : q6[i] = q5[i])
         /\ \A i \in 1..Len(Unloads) : q6[Len(q5) + i] = Unloads[i] BY <2>1, CatFacts
   <2>3. Len(Unloads) = 1 /\ Unloads[1] = "unload" BY <1>1
   <2> HIDE DEF q6
   <2>4. Len(q5) = 14 BY <1>8
   <2>5. Len(q6) = 15 /\ (\A i \in 1..14 : q6[i] = q5[i]) /\ \A i \in 1..1 : q6[14 + i] = Unloads[i]
       BY <2>2, <2>3, <2>4
   <2>6. q6[15] = Unloads[1] BY <2>5
   <2> QED BY <2>2, <2>3, <2>5, <2>6, <1>8
<1>10. q7 \in Seq(Names) /\ Len(q7) = 16
      /\ q7[1] = "load" /\ q7[2] = "forUse" /\ q7[3] = "txLock" /\ q7[4] = "forUse"
           /\ q7[5] = "load" /\ q7[6] = "listunspent" /\ q7[7] = "unload" /\ q7[8] = "forUse"
           /\ q7[9] = "createrawtransaction" /\ q7[10] = "forUse" /\ q7[11] = "load"
           /\ q7[12] = "signrawtransaction" /\ q7[13] = "unload" /\ q7[14] = "sendrawtransaction"
           /\ q7[15] = "unload" /\ q7[16] = "wait"
   <2> HIDE DEF q1, q2, q3, q4, q5, q6
   <2>1. q6 \in Seq(Names) /\ <<"wait">> \in Seq(Names) BY <1>3, <1>9
   <2>2. q7 \in Seq(Names) /\ Len(q7) = Len(q6) + Len(<<"wait">>) /\ (\A i \in 1..Len(q6) : q7[i] = q6[i])
         /\ \A i \in 1..Len(<<"wait">>) : q7[Len(q6) + i] = <<"wait">>[i] BY <2>1, CatFacts
   <2>3. Len(<<"wait">>) = 1 /\ <<"wait">>[1] = "wait" BY <1>1
   <2> HIDE DEF q7
   <2>4. Len(q6) = 15 BY <1>9
   <2>5. Len(q7) = 16 /\ (\A i \in 1..15 : q7[i] = q6[i]) /\ \A i \in 1..1 : q7[15 + i] = <<"wait">>[i]
       BY <2>2, <2>3, <2>4
   <2>6. q7[16] = <<"wait">>[1] BY <2>5
   <2> QED BY <2>2, <2>3, <2>5, <2>6, <1>9
<1>11. UtxoSendFunds = q7 BY DEF UtxoSendFunds
<1> HIDE DEF q7
<1>12. LinkedN(q7) BY <1>10 DEF LinkedN, Foreign, Followers, Begins, Ends, Utxo, Counts, Before
<1>13. NestedN(q7)
   <2>1. \A i \in 1..16 : (q7[i] \in Ends <=> i \in {7, 13, 15}) /\ (q7[i] \in Opens <=> i \in {1, 5, 11})
       BY <1>10 DEF Ends, Begins, Opens
   <2>2. OpenerN(q7, 7) = 5 /\ OpenerN(q7, 13) = 11 /\ OpenerN(q7, 15) = 1 /\ Gap(q7[7-1]) > 0
         /\ Gap(q7[13-1]) > 0 /\ Gap(q7[15-1]) > 0
      BY <1>10 DEF OpenerN, Gap
   <2>3. \A i \in 1..16 : q7[i] \notin {"createwallet", "getnewaddress",
         "sendtoaddress"} \cup Leavers /\ (q7[i] \in Inner => i \in {6, 12})
      BY <1>10 DEF Inner, Leavers
   <2>4. q7[6+1] = "unload" /\ q7[12+1] = "unload" BY <1>10
   <2> QED BY <1>10, <2>1, <2>2, <2>3, <2>4, SMTT(60) DEF NestedN
<1> QED BY <1>10, <1>11, <1>12, <1>13, WellByNames

\* The ranks lo+1..hi occur, in order.
RankedIn(st, lo, hi) ==
  /\ \A i \in 1..Len(st) : Rank(st[i]) > 0 => lo < Rank(st[i]) /\ Rank(st[i]) <= hi
  /\ \A r \in lo+1..hi : \E i \in 1..Len(st) : Rank(st[i]) = r
  /\ \A i, j \in 1..Len(st) : i < j /\ Rank(st[i]) > 0 /\ Rank(st[j]) > 0 => Rank(st[i]) < Rank(st[j])

\* A script that sends locks, lists and picks first.
Whole(s) == Has(s, "sendrawtransaction") => Has(s, "txLock") /\ Has(s, "listunspent")
  /\ Has(s, "createrawtransaction")

\* Ranks are numbers up to 5.
LEMMA RankNat == \A n : Rank(n) \in 0..5
BY DEF Rank

\* Lists in a row are ordered when each is and the ranks of the second are higher.
LEMMA RankedCat ==
  ASSUME NEW a \in Seq(Names), NEW b \in Seq(Names), NEW lo \in Nat, NEW m \in Nat,
         NEW hi \in Nat, lo <= m, m <= hi, RankedIn(a, lo, m), RankedIn(b, m, hi)
  PROVE  a \o b \in Seq(Names) /\ RankedIn(a \o b, lo, hi)
<1> DEFINE c == a \o b  p == Len(a)  q == Len(b)
<1>1. c \in Seq(Names) /\ Len(c) = p + q /\ p \in Nat /\ q \in Nat BY CatFacts
<1>2. \A i \in 1..p : c[i] = a[i] BY CatFacts
<1>3. \A i \in 1..q : c[p + i] = b[i] BY CatFacts
<1>4. \A i \in 1..p+q : i \in 1..p \/ (i > p /\ i - p \in 1..q /\ c[i] = b[i - p])
   <2> TAKE i \in 1..p+q
   <2>1. ASSUME i > p PROVE i - p \in 1..q /\ c[i] = b[i - p]
      <3>1. i - p \in 1..q /\ p + (i - p) = i BY <2>1, <1>1
      <3> QED BY <3>1, <1>3
   <2> QED BY <2>1, <1>1
<1> HIDE DEF c, p, q
<1>5. \A i \in 1..p : Rank(a[i]) > 0 => lo < Rank(a[i]) /\ Rank(a[i]) <= m BY DEF RankedIn, p
<1>6. \A i \in 1..q : Rank(b[i]) > 0 => m < Rank(b[i]) /\ Rank(b[i]) <= hi BY DEF RankedIn, q
<1>7. ASSUME NEW i \in 1..p+q, Rank(c[i]) > 0 PROVE lo < Rank(c[i]) /\ Rank(c[i]) <= hi
   <2>1. Rank(c[i]) \in Nat BY RankNat
   <2>2. CASE i \in 1..p BY <2>1, <2>2, <1>2, <1>5, <1>7
   <2>3. CASE i > p /\ i - p \in 1..q /\ c[i] = b[i - p] BY <2>1, <2>3, <1>6, <1>7
   <2> QED BY <2>2, <2>3, <1>4, <1>7
<1>8. ASSUME NEW i \in 1..p+q, NEW j \in 1..p+q, i < j, Rank(c[i]) > 0, Rank(c[j]) > 0
      PROVE Rank(c[i]) < Rank(c[j])
   <2>1. Rank(c[i]) \in Nat /\ Rank(c[j]) \in Nat BY RankNat
   <2>2. CASE i \in 1..p /\ j \in 1..p BY <2>2, <1>2, <1>8 DEF RankedIn, p
   <2>3. CASE i \in 1..p /\ j > p
      <3>1. j - p \in 1..q /\ c[j] = b[j - p] BY <2>3, <1>4, <1>8, <1>1
      <3> QED BY <2>1, <2>3, <3>1, <1>2, <1>5, <1>6, <1>8
   <2>4. CASE i > p
      <3>1. j > p /\ i - p < j - p BY <2>4, <1>8, <1>1
      <3>2. i - p \in 1..q /\ c[i] = b[i - p] /\ j - p \in 1..q /\ c[j] = b[j - p]
          BY <2>4, <3>1, <1>4, <1>8, <1>1
      <3> QED BY <3>1, <3>2, <1>8 DEF RankedIn, q
   <2> QED BY <2>2, <2>3, <2>4, <1>4, <1>8, <1>1
<1>9. ASSUME NEW r \in lo+1..hi PROVE \E i \in 1..p+q : Rank(c[i]) = r
   <2>1. CASE r <= m
      <3>1. r \in lo+1..m BY <2>1, <1>9
      <3>2. PICK i \in 1..p : Rank(a[i]) = r BY <3>1 DEF RankedIn, p
      <3>3. i \in 1..p+q /\ c[i] = a[i] BY <3>2, <1>1, <1>2
      <3> QED BY <3>2, <3>3
   <2>2. CASE r > m
      <3>1. r \in m+1..hi BY <2>2, <1>9
      <3>2. PICK i \in 1..q : Rank(b[i]) = r BY <3>1 DEF RankedIn, q
      <3>3. p + i \in 1..p+q /\ c[p + i] = b[i] BY <3>2, <1>1, <1>3
      <3> QED BY <3>2, <3>3
   <2> QED BY <2>1, <2>2, <1>9
<1>10. RankedIn(c, lo, hi) BY <1>7, <1>8, <1>9, <1>1 DEF RankedIn
<1> QED BY <1>1, <1>10 DEF c

\* SendFunds takes txLock, lists, picks and sends, in that order.
LEMMA SendFundsScript ==
  ASSUME Utxo, TypeOK, NEW k \in KeyNames
  PROVE
  Well(UtxoSendFunds) /\ Ordered(Do(UtxoSendFunds, k)) /\ Whole(Do(UtxoSendFunds, k))
<1> DEFINE R(st, lo, hi) == st \in Seq(Names) /\ RankedIn(st, lo, hi)
<1>1. \A lo, m, hi \in Nat : lo <= m /\ m <= hi => \A a, b : R(a, lo, m) /\ R(b, m, hi) => R(a \o b, lo, hi)
    BY RankedCat
<1>2. /\ R(<<>>, 0, 0) /\ R(<<>>, 1, 1) /\ R(<<>>, 2, 2) /\ R(<<>>, 3, 3) /\ R(<<>>, 4, 4)
      /\ R(<<"load">>, 0, 0) /\ R(<<"load">>, 1, 1) /\ R(<<"load">>, 3, 3)
      /\ R(<<"unload">>, 2, 2) /\ R(<<"unload">>, 3, 3) /\ R(<<"unload">>, 4, 4)
   BY NamesAre DEF AllNames, RankedIn, Rank
<1>3. /\ R(Loads, 0, 0) /\ R(Loads, 1, 1) /\ R(Loads, 3, 3) /\ R(Unloads, 2, 2) /\ R(Unloads, 3, 3)
           /\ R(Unloads, 4, 4)
   BY <1>2 DEF Loads, Unloads
<1>4. /\ R(<<"forUse">>, 1, 1) /\ R(<<"forUse">>, 3, 3) /\ R(<<"listunspent">>, 1, 2)
           /\ R(<<"dumpprivkey">>, 3, 3)
      /\ R(<<"signrawtransaction">>, 3, 3) /\ R(<<"sendrawtransaction">>, 3, 4) /\ R(<<"wait">>, 4, 4)
   BY NamesAre DEF AllNames, RankedIn, Rank
<1>5. R(<<"forUse", "txLock">>, 0, 1) BY NamesAre DEF AllNames, RankedIn, Rank
<1>6. R(CreateRawTransaction, 2, 3) BY NamesAre DEF AllNames, RankedIn, Rank, CreateRawTransaction
<1> HIDE DEF R
<1>7. R(ListUnspent, 1, 2)
   <2>1. R(<<"forUse">> \o Loads, 1, 1) BY <1>1, <1>3, <1>4
   <2>2. R(<<"forUse">> \o Loads \o <<"listunspent">>, 1, 2) BY <2>1, <1>1, <1>4
   <2> QED BY <2>2, <1>1, <1>3 DEF ListUnspent
<1>8. R(SignRawTransaction, 3, 3)
   <2> DEFINE e == IF family = "utxoOld" THEN <<"dumpprivkey">> ELSE <<>>
   <2>1. R(e, 3, 3) BY <1>2, <1>4
   <2> HIDE DEF e
   <2>2. R(<<"forUse">> \o e, 3, 3) BY <2>1, <1>1, <1>4
   <2>3. R(<<"forUse">> \o e \o Loads, 3, 3) BY <2>2, <1>1, <1>3
   <2>4. R(<<"forUse">> \o e \o Loads \o <<"signrawtransaction">>, 3, 3) BY <2>3, <1>1, <1>4
   <2>5. R(<<"forUse">> \o e \o Loads \o <<"signrawtransaction">> \o Unloads, 3, 3) BY <2>4, <1>1, <1>3
   <2> QED BY <2>5 DEF SignRawTransaction, e
<1>9. R(UtxoSendFunds, 0, 4)
   <2>1. R(Loads \o <<"forUse", "txLock">>, 0, 1) BY <1>1, <1>3, <1>5
   <2>2. R(Loads \o <<"forUse", "txLock">> \o ListUnspent, 0, 2) BY <2>1, <1>1, <1>7
   <2>3. R(Loads \o <<"forUse", "txLock">> \o ListUnspent \o CreateRawTransaction, 0, 3)
       BY <2>2, <1>1, <1>6
   <2>4. R(Loads \o <<"forUse",
         "txLock">> \o ListUnspent \o CreateRawTransaction \o SignRawTransaction, 0, 3)
       BY <2>3, <1>1, <1>8
   <2>5. R(Loads \o <<"forUse",
         "txLock">> \o ListUnspent \o CreateRawTransaction \o SignRawTransaction \o <<"sendrawtransaction">>, 0, 4)
      BY <2>4, <1>1, <1>4
   <2>6. R(Loads \o <<"forUse",
         "txLock">> \o ListUnspent \o CreateRawTransaction \o SignRawTransaction \o <<"sendrawtransaction">>
           \o Unloads, 0, 4) BY <2>5, <1>1, <1>3
   <2>7. R(Loads \o <<"forUse",
         "txLock">> \o ListUnspent \o CreateRawTransaction \o SignRawTransaction \o <<"sendrawtransaction">>
           \o Unloads \o <<"wait">>, 0, 4) BY <2>6, <1>1, <1>4
   <2> QED BY <2>7 DEF UtxoSendFunds
<1>10. Well(UtxoSendFunds)
   <2>1. CASE Counts BY <2>1, SendFundsSteps
   <2>2. CASE ~Counts
      <3>1. Loads = <<>> /\ Unloads = <<>> BY <2>2 DEF Loads, Unloads, Counts
      <3>2. Well(Loads) /\ Well(Unloads) BY <3>1, WellEmpty
      <3>3. Well(CreateRawTransaction) BY Literals DEF CreateRawTransaction
      <3>4. Well(Loads \o <<"forUse", "txLock">>) BY <3>2, Literals, WellCat
      <3>5. Well(Loads \o <<"forUse", "txLock">> \o ListUnspent) BY <3>4, <2>2, WalletPieces, WellCat
      <3>6. Well(Loads \o <<"forUse", "txLock">> \o ListUnspent \o CreateRawTransaction)
          BY <3>3, <3>5, WellCat
      <3>7. Well(Loads \o <<"forUse",
            "txLock">> \o ListUnspent \o CreateRawTransaction \o SignRawTransaction)
         BY <3>6, <2>2, WalletPieces, WellCat
      <3>8. Well(Loads \o <<"forUse",
            "txLock">> \o ListUnspent \o CreateRawTransaction \o SignRawTransaction
                   \o <<"sendrawtransaction">>) BY <3>7, Literals, WellCat
      <3>9. Well(Loads \o <<"forUse",
            "txLock">> \o ListUnspent \o CreateRawTransaction \o SignRawTransaction
                   \o <<"sendrawtransaction">> \o Unloads) BY <3>8, <3>2, WellCat
      <3>10. Well(Loads \o <<"forUse",
            "txLock">> \o ListUnspent \o CreateRawTransaction \o SignRawTransaction
                   \o <<"sendrawtransaction">> \o Unloads \o <<"wait">>) BY <3>9, Literals, WellCat
      <3> QED BY <3>10 DEF UtxoSendFunds
   <2> QED BY <2>1, <2>2
<1>11. UtxoSendFunds \in Seq(Names) BY <1>10 DEF Well
<1>12. /\ DOMAIN Do(UtxoSendFunds, k) = 1..Len(UtxoSendFunds)
       /\ \A i \in 1..Len(UtxoSendFunds) : Do(UtxoSendFunds, k)[i][1] = UtxoSendFunds[i]
            /\ Do(UtxoSendFunds, k)[i][2] = k
    BY <1>11, DoFacts
<1>13. OneKey(Do(UtxoSendFunds, k)) BY <1>12 DEF OneKey
<1>14. Ranked(Do(UtxoSendFunds, k)) BY <1>9, <1>12 DEF R, RankedIn, Ranked
<1>15. \A r \in 1..4 : \E i \in DOMAIN Do(UtxoSendFunds, k) : Rank(Do(UtxoSendFunds, k)[i][1]) = r
   <2>1. \A r \in 0+1..4 : \E i \in 1..Len(UtxoSendFunds) : Rank(UtxoSendFunds[i]) = r
       BY <1>9 DEF R, RankedIn
   <2> TAKE r \in 1..4
   <2>2. r \in 0+1..4 OBVIOUS
   <2>3. PICK i \in 1..Len(UtxoSendFunds) : Rank(UtxoSendFunds[i]) = r BY <2>1, <2>2
   <2> QED BY <2>3, <1>12
<1>16. \A n : (Rank(n) = 1 => n = "txLock") /\ (Rank(n) = 2 => n = "listunspent") /\ (Rank(n) = 3 =>
      n = "createrawtransaction")
    BY DEF Rank
<1>17. Whole(Do(UtxoSendFunds, k))
   <2>1. Has(Do(UtxoSendFunds, k), "txLock") BY <1>15, <1>16 DEF Has
   <2>2. Has(Do(UtxoSendFunds, k), "listunspent") BY <1>15, <1>16 DEF Has
   <2>3. Has(Do(UtxoSendFunds, k), "createrawtransaction") BY <1>15, <1>16 DEF Has
   <2> QED BY <2>1, <2>2, <2>3 DEF Whole
<1> QED BY <1>10, <1>13, <1>14, <1>17 DEF Ordered

\* Paired, of the step names.
PairedN(st) == \A i \in 1..Len(st) : st[i] \in {"accountNew", "import"} => i + 1 \in 1..Len(st)
  /\ st[i+1] = "number"

\* Steps of a script that does not send.
Silent(st) == st \in Seq(Names) /\ (\A i \in 1..Len(st) : st[i] # "sendrawtransaction")
  /\ (family = "geth" => PairedN(st))

\* What a new script has: the shape, and more that only a whole script has.
Fit(s) == Sound(s) /\ Ordered(s) /\ Known(s) /\ Whole(s) /\ (family = "geth" => Paired(s))

\* Steps that are silent on their own.
Sendless == Names \ {"sendrawtransaction", "accountNew", "import"}

\* Silent steps in a row are silent.
LEMMA SilentCat == ASSUME NEW a, NEW b, Silent(a), Silent(b) PROVE Silent(a \o b)
<1> DEFINE c == a \o b  p == Len(a)  q == Len(b)
<1>1. c \in Seq(Names) /\ Len(c) = p + q /\ p \in Nat /\ q \in Nat BY CatFacts DEF Silent
<1>2. \A i \in 1..p : c[i] = a[i] BY CatFacts DEF Silent
<1>3. \A i \in 1..q : c[p + i] = b[i] BY CatFacts DEF Silent
<1> HIDE DEF c, p, q
<1>4. \A i \in 1..p : c[i] # "sendrawtransaction" BY <1>2 DEF Silent, p
<1>5. \A i \in 1..q : c[p + i] # "sendrawtransaction" BY <1>3 DEF Silent, q
<1>6. \A i \in 1..p+q : i \in 1..p \/ (i - p \in 1..q /\ p + (i - p) = i) BY <1>1
<1>7. ASSUME family = "geth", NEW i \in 1..p+q, c[i] \in {"accountNew", "import"}
      PROVE i + 1 \in 1..p+q /\ c[i+1] = "number"
   <2>1. PairedN(a) /\ PairedN(b) BY <1>7 DEF Silent
   <2>2. CASE i \in 1..p
      <3>1. a[i] \in {"accountNew", "import"} BY <2>2, <1>2, <1>7
      <3>2. i + 1 \in 1..p /\ a[i+1] = "number" BY <2>1, <2>2, <3>1 DEF PairedN, p
      <3> QED BY <3>2, <1>1, <1>2
   <2>3. CASE i - p \in 1..q /\ p + (i - p) = i
      <3>1. b[i-p] \in {"accountNew", "import"} BY <2>3, <1>3, <1>7
      <3>2. (i - p) + 1 \in 1..q /\ b[(i-p)+1] = "number" BY <2>1, <2>3, <3>1 DEF PairedN, q
      <3>3. c[p + ((i - p) + 1)] = "number" BY <3>2, <1>3
      <3>4. p + ((i - p) + 1) = i + 1 /\ i + 1 \in 1..p+q BY <3>2, <1>1
      <3> QED BY <3>3, <3>4
   <2> QED BY <2>2, <2>3, <1>6
<1>8. \A i \in 1..p+q : c[i] # "sendrawtransaction" BY <1>4, <1>5, <1>6
<1>9. family = "geth" => PairedN(c) BY <1>1, <1>7 DEF PairedN
<1>10. Silent(c) BY <1>1, <1>8, <1>9 DEF Silent
<1> QED BY <1>10 DEF c

\* The functions that do not send.
LEMMA SilentScripts ==
  /\ Silent(CreateWallet) /\ Silent(GetNewAddress) /\ Silent(SetAccount) /\ Silent(GetBalance)
       /\ Silent(SendToMwebAddress)
  /\ Silent(Loads \o <<"getwalletinfo">> \o Unloads)
  /\ \A n \in Sendless : Silent(<<n>>)
  /\ Silent(<<>>) /\ Silent(<<"go", "wait", "up">>)
  /\ GetBalance[1] = "keyOfAddress" /\ Len(GetBalance) > 0
<1>1. \A a, b : Silent(a) /\ Silent(b) => Silent(a \o b) BY SilentCat
<1>2. \A n \in Sendless : Silent(<<n>>) BY DEF Silent, PairedN, Sendless
<1>3. \A n, m \in Sendless : Silent(<<n, m>>) BY DEF Silent, PairedN, Sendless
<1>4. \A n, m, o \in Sendless : Silent(<<n, m, o>>) BY DEF Silent, PairedN, Sendless
<1>5. Silent(<<>>) BY DEF Silent, PairedN, Sendless
<1>6. /\ Silent(<<"load">>) /\ Silent(<<"unload">>) /\ Silent(<<"createwallet", "put">>)
           /\ Silent(<<"getnewaddress", "setAddress">>)
      /\ Silent(<<"forNewAddress">>) /\ Silent(<<"forSetAccount", "setaccount">>)
           /\ Silent(<<"keyOfAddress">>) /\ Silent(<<"forUse">>)
      /\ Silent(<<"getbalance">>) /\ Silent(<<"listunspent">>) /\ Silent(<<"getwalletinfo">>)
      /\ Silent(<<"txLock", "sendtoaddress", "txUnlock">>) /\ Silent(<<"go", "wait", "up">>)
   <2> DEFINE M == Sendless
   <2>1. /\ "load" \in M /\ "unload" \in M /\ "createwallet" \in M /\ "put" \in M
              /\ "getnewaddress" \in M /\ "setAddress" \in M
         /\ "forNewAddress" \in M /\ "forSetAccount" \in M /\ "setaccount" \in M
              /\ "keyOfAddress" \in M /\ "forUse" \in M
         /\ "getbalance" \in M /\ "listunspent" \in M /\ "getwalletinfo" \in M /\ "txLock" \in M
              /\ "sendtoaddress" \in M /\ "txUnlock" \in M
         /\ "go" \in M /\ "wait" \in M /\ "up" \in M BY NamesAre DEF AllNames, Sendless
   <2> HIDE DEF M
   <2>2. (\A n \in M : Silent(<<n>>)) /\ (\A n, m \in M : Silent(<<n, m>>))
         /\ \A n, m, o \in M : Silent(<<n, m, o>>)
      BY <1>2, <1>3, <1>4 DEF M
   <2> QED BY <2>1, <2>2
<1>7. Silent(Loads) /\ Silent(Unloads) BY <1>5, <1>6 DEF Loads, Unloads
<1>8. Silent(CreateWallet) BY <1>1, <1>5, <1>6, <1>7 DEF CreateWallet
<1>9. Silent(GetNewAddress) BY <1>1, <1>6, <1>7 DEF GetNewAddress
<1>10. Silent(SetAccount) BY <1>5, <1>6 DEF SetAccount
<1>11. Silent(Loads \o <<"getwalletinfo">> \o Unloads) BY <1>1, <1>6, <1>7
<1>12. Silent(SendToMwebAddress) BY <1>1, <1>6, <1>7 DEF SendToMwebAddress
<1>13. Silent(GetBalance) /\ GetBalance[1] = "keyOfAddress" /\ Len(GetBalance) > 0
   <2> DEFINE h == <<"keyOfAddress">>  r == IF family = "utxo" THEN Loads \o <<"getbalance">> \o Unloads ELSE ListUnspent
   <2>1. Silent(Loads \o <<"getbalance">> \o Unloads) BY <1>1, <1>6, <1>7
   <2>2. Silent(ListUnspent) BY <1>1, <1>6, <1>7 DEF ListUnspent
   <2>3. Silent(r) BY <2>1, <2>2
   <2>4. Silent(h) /\ Len(h) = 1 /\ h[1] = "keyOfAddress" BY <1>6
   <2> HIDE DEF h, r
   <2>5. h \in Seq(Names) /\ r \in Seq(Names) BY <2>3, <2>4 DEF Silent
   <2>6. Len(h \o r) = Len(h) + Len(r) /\ Len(r) \in Nat /\ \A i \in 1..Len(h) : (h \o r)[i] = h[i]
       BY <2>5, CatFacts
   <2>7. Len(h \o r) > 0 /\ (h \o r)[1] = "keyOfAddress" BY <2>6, <2>4
   <2>8. Silent(h \o r) BY <2>3, <2>4, <1>1
   <2>9. GetBalance = h \o r BY DEF GetBalance, h, r
   <2> QED BY <2>7, <2>8, <2>9
<1> QED BY <1>2, <1>5, <1>6, <1>8, <1>9, <1>10, <1>11, <1>12, <1>13

\* Their scripts fit.
LEMMA FitSilent ==
  ASSUME NEW st, Well(st), Silent(st), NEW k \in KeyNames,
         k \in Keys \/ (Len(st) > 0 /\ st[1] = "keyOfAddress")
  PROVE  Fit(Do(st, k))
<1>1. st \in Seq(Names) /\ Sound(Do(st, k)) BY DEF Well
<1>2. /\ DOMAIN Do(st, k) = 1..Len(st) /\ Len(st) \in Nat /\ Len(Do(st, k)) = Len(st)
      /\ \A i \in 1..Len(st) : Do(st, k)[i] = <<st[i], k>> /\ Do(st, k)[i][1] = st[i] /\ Do(st, k)[i][2] = k
    BY <1>1, DoFacts
<1>3. ~Has(Do(st, k), "sendrawtransaction") BY <1>2 DEF Has, Silent
<1>4. Known(Do(st, k))
   <2>1. CASE k \in Keys BY <2>1, <1>2 DEF Known
   <2>2. CASE k \notin Keys
      <3>1. k = Stranger BY <2>2 DEF KeyNames
      <3>2. 1 \in 1..Len(st) /\ Len(Do(st, k)) # 0 BY <2>2, <1>2
      <3>3. Do(st, k) # <<>> BY <3>2
      <3> QED BY <2>2, <3>1, <3>2, <3>3, <1>2, <1>3 DEF Known
   <2> QED BY <2>1, <2>2
<1>5. family = "geth" => Paired(Do(st, k)) BY <1>2 DEF Silent, PairedN, Paired
<1> QED BY <1>1, <1>3, <1>4, <1>5 DEF Fit, Ordered, Whole

\* The key names of the chain and of the test.
LEMMA KeyFacts ==
  /\ Faucet \in KeyNames /\ Mweb \in KeyNames /\ Stranger \in KeyNames
  /\ Faucet \in Keys /\ Mweb \in Keys /\ Keys \subseteq KeyNames /\ Stranger \notin Keys
  /\ \A f \in Families : Users[f] \subseteq Keys
BY WalletsAssumption DEF KeyNames, Keys, AllUsers

\* Every script of a utxo chain fits.
LEMMA UtxoScripts ==
  ASSUME Utxo, TypeOK
  PROVE
  /\ Fit(Do(Start, Faucet)) /\ \A b \in BOOLEAN : Fit(Do(UtxoStart(b), Faucet))
  /\ \A k \in KeyNames : Fit(Do(GetBalance, k))
  /\ \A k \in Keys : Fit(Do(UtxoBuildWallet, k)) /\ Fit(Do(UtxoSendFunds, k))
<1>1. Well(CreateWallet) /\ Well(GetNewAddress) /\ Well(GetBalance) /\ Well(SetAccount)
      /\ Well(CreateWallet \o (Loads \o <<"getwalletinfo">> \o Unloads)) BY WalletPieces
<1>2. Well(<<"getAddress">>) /\ Well(<<"go", "wait", "up">>) /\ Well(<<"start", "version">>) BY Literals
<1>3. Fit(Do(Start, Faucet))
   <2>1. Start = <<"start", "version">> BY DEF Start, Utxo
   <2>2. Silent(Start) BY <2>1, NamesAre DEF Silent, AllNames, Utxo
   <2> QED BY <2>1, <2>2, <1>2, KeyFacts, FitSilent
<1>4. ASSUME NEW b \in BOOLEAN PROVE Fit(Do(UtxoStart(b), Faucet))
   <2> DEFINE w == Loads \o <<"getwalletinfo">> \o Unloads  e == IF b THEN w ELSE <<>>
   <2>1. Well(CreateWallet \o e)
      <3>1. CASE b BY <3>1, <1>1
      <3>2. CASE ~b BY <3>2, <1>1, WellEmpty, WellCat
      <3> QED BY <3>1, <3>2
   <2>2. Silent(CreateWallet \o e)
      <3>1. Silent(e) BY SilentScripts
      <3> HIDE DEF e
      <3> QED BY <3>1, SilentScripts, SilentCat
   <2> DEFINE a == CreateWallet \o e
   <2>3. Well(a) /\ Silent(a) BY <2>1, <2>2
   <2>4. UtxoStart(b) = a \o GetNewAddress \o SetAccount \o <<"go", "wait", "up">> BY DEF UtxoStart
   <2> HIDE DEF a
   <2>5. Well(UtxoStart(b)) BY <2>3, <2>4, <1>1, <1>2, WellCat
   <2>6. Silent(UtxoStart(b)) BY <2>3, <2>4, SilentScripts, SilentCat
   <2> QED BY <2>5, <2>6, KeyFacts, FitSilent
<1>5. ASSUME NEW k \in KeyNames PROVE Fit(Do(GetBalance, k))
   BY <1>1, SilentScripts, FitSilent
<1>6. ASSUME NEW k \in Keys PROVE Fit(Do(UtxoBuildWallet, k))
   <2>1. Well(UtxoBuildWallet) BY <1>1, <1>2, WellCat DEF UtxoBuildWallet
   <2>2. Silent(<<"getAddress">>) BY NamesAre DEF Silent, AllNames, Utxo
   <2>3. Silent(UtxoBuildWallet) BY <2>2, SilentScripts, SilentCat DEF UtxoBuildWallet
   <2> QED BY <2>1, <2>3, KeyFacts, FitSilent
<1>7. ASSUME NEW k \in Keys PROVE Fit(Do(UtxoSendFunds, k))
   <2>1. k \in KeyNames BY KeyFacts
   <2>2. Well(UtxoSendFunds) /\ Ordered(Do(UtxoSendFunds, k)) /\ Whole(Do(UtxoSendFunds, k))
       BY <2>1, SendFundsScript
   <2>3. UtxoSendFunds \in Seq(Names) /\ Sound(Do(UtxoSendFunds, k)) BY <2>1, <2>2 DEF Well
   <2>4. Known(Do(UtxoSendFunds, k)) BY <2>1, <2>3, <1>7, DoFacts DEF Known
   <2> QED BY <2>2, <2>3, <2>4 DEF Fit, Utxo
<1> QED BY <1>3, <1>4, <1>5, <1>6, <1>7

\* Every script of geth and anvil fits.
LEMMA EthereumScripts ==
  ASSUME ~Utxo, TypeOK
  PROVE
  /\ Fit(Do(Start, Faucet))
  /\ \A op \in OpsOf(family) : \A k \in Keys : Fit(Do(Script(op, k), k))
<1> DEFINE W(st) == Well(st) /\ Silent(st)
<1>1. \A a, b : W(a) /\ W(b) => W(a \o b) BY WellCat, SilentCat
<1>2. W(EthereumStart)
   <2>1. Silent(EthereumStart) BY NamesAre DEF AllNames, Silent, PairedN, EthereumStart
   <2> QED BY <2>1, Literals
<1>3. ASSUME family = "geth" PROVE
      W(GethNewKey) /\ W(GethRecoverKey) /\ W(GethAddress) /\ W(<<"receipt", "receipt">>)
        /\ \A k : W(JavaScriptExecTx(k))
   <2>1. Silent(GethNewKey) /\ Silent(GethRecoverKey) /\ Silent(GethAddress)
         /\ Silent(<<"receipt", "receipt">>)
      BY NamesAre DEF AllNames, Silent, PairedN, GethNewKey, GethRecoverKey, GethAddress
   <2>2. W(<<"lookup">>) /\ W(<<"unlockAccount">>)
         /\ W(<<"txLock", "sendTransaction", "wait", "txUnlock">>) /\ W(<<>>)
      BY <1>3, Literals, WellEmpty, NamesAre DEF AllNames, Silent, PairedN
   <2>3. W(GethNewKey) /\ W(GethRecoverKey) /\ W(GethAddress) /\ W(<<"receipt", "receipt">>)
       BY <1>3, <2>1, Literals
   <2> HIDE DEF W
   <2>4. ASSUME NEW k PROVE W(JavaScriptExecTx(k))
      <3> DEFINE e == IF k = Faucet THEN <<>> ELSE <<"unlockAccount">>
      <3>1. W(e) BY <2>2
      <3> HIDE DEF e
      <3>2. W(<<"lookup">> \o e \o <<"txLock", "sendTransaction", "wait", "txUnlock">>)
          BY <3>1, <2>2, <1>1
      <3> QED BY <3>2 DEF JavaScriptExecTx, e
   <2> QED BY <2>3, <2>4
<1>4. ASSUME family = "anvil" PROVE W(AnvilNewKey) /\ W(AnvilRecoverKey) /\ W(AnvilAddress)
      /\ W(AnvilSendFunds)
   <2>1. Silent(AnvilNewKey) /\ Silent(AnvilRecoverKey) /\ Silent(AnvilAddress) /\ Silent(AnvilSendFunds)
      BY <1>4, NamesAre DEF AllNames, Silent, AnvilNewKey, AnvilRecoverKey, AnvilAddress, AnvilSendFunds
   <2> QED BY <1>4, <2>1, Literals
<1>5. \A st : \A k \in Keys : W(st) => Fit(Do(st, k)) BY FitSilent, KeyFacts
<1> HIDE DEF W
<1>6. family = "geth" \/ family = "anvil" BY WalletsAssumption DEF TypeOK, Utxo
<1>7. W(Start)
   <2>1. CASE family = "geth" BY <2>1, <1>2 DEF Start
   <2>2. CASE family = "anvil"
      <3>1. W(AnvilRecoverKey \o AnvilAddress \o EthereumStart) BY <2>2, <1>1, <1>2, <1>4
      <3> QED BY <2>2, <3>1 DEF Start
   <2> QED BY <2>1, <2>2, <1>6
<1>8. ASSUME NEW op \in OpsOf(family), NEW k \in Keys PROVE W(Script(op, k))
   <2>1. CASE family = "geth"
      <3>1. W(GethNewKey \o GethAddress) /\ W(GethRecoverKey \o GethAddress) /\ W(JavaScriptExecTx(k))
            /\ W(JavaScriptExecTx(k) \o <<"receipt", "receipt">>) BY <2>1, <1>1, <1>3
      <3>2. op \in {"BuildWallet", "RecoverWallet", "SendFunds", "DeployContract"}
          BY <2>1, <1>8 DEF OpsOf
      <3> QED BY <2>1, <3>1, <3>2 DEF Script
   <2>2. CASE family = "anvil"
      <3>1. W(AnvilNewKey \o AnvilAddress) /\ W(AnvilRecoverKey \o AnvilAddress) /\ W(AnvilSendFunds)
          BY <2>2, <1>1, <1>4
      <3>2. op \in {"BuildWallet", "RecoverWallet", "SendFunds"} BY <2>2, <1>8 DEF OpsOf
      <3> QED BY <2>2, <3>1, <3>2 DEF Script
   <2> QED BY <2>1, <2>2, <1>6
<1> QED BY <1>5, <1>7, <1>8, KeyFacts

\* Whatever Start or the test calls, its script fits.
LEMMA CallScripts ==
  ASSUME TypeOK
  PROVE
  /\ Fit(Do(Start, Faucet))
  /\ \A op \in OpsOf(family), k \in Users[family] \cup {Faucet, Stranger} :
       (k = Stranger => op = "GetBalance") => Fit(Do(Script(op, k), k))
<1>1. CASE Utxo
   <2>1. ASSUME NEW op \in OpsOf(family), NEW k \in Users[family] \cup {Faucet, Stranger},
         k = Stranger => op = "GetBalance"
         PROVE Fit(Do(Script(op, k), k))
      <3>1. op \in {"BuildWallet", "SendFunds", "GetBalance"} BY <1>1, <2>1 DEF OpsOf, Utxo
      <3>2. k \in KeyNames /\ (op # "GetBalance" => k \in Keys) BY <2>1, KeyFacts DEF TypeOK
      <3>3. Script(op,
            k) = IF op = "BuildWallet" THEN UtxoBuildWallet ELSE IF op = "SendFunds" THEN UtxoSendFunds ELSE GetBalance
         BY <3>1, <1>1 DEF Script, Utxo
      <3> QED BY <1>1, <3>1, <3>2, <3>3, UtxoScripts
   <2> QED BY <1>1, <2>1, UtxoScripts
<1>2. CASE ~Utxo
   <2>1. family = "geth" \/ family = "anvil" BY <1>2, WalletsAssumption DEF TypeOK, Utxo
   <2>2. "GetBalance" \notin OpsOf(family) BY <2>1 DEF OpsOf
   <2>3. \A k \in Users[family] \cup {Faucet, Stranger} : k = Stranger \/ k \in Keys
       BY KeyFacts DEF TypeOK
   <2> QED BY <1>2, <2>2, <2>3, EthereumScripts
<1> QED BY <1>1, <1>2

\* So does the mining goroutine's mweb transaction.
LEMMA MwebFits == ASSUME TypeOK, litecoin PROVE Fit(MwebScript)
<1> DEFINE a == Do(CreateWallet \o GetNewAddress, Mweb)  b == Do(SendToMwebAddress, Faucet)
<1>1. Utxo /\ family = "utxo" BY DEF TypeOK, Utxo
<1>2. Well(CreateWallet \o GetNewAddress) /\ Well(SendToMwebAddress) BY <1>1, WalletPieces, WellCat
<1>3. Silent(CreateWallet \o GetNewAddress) /\ Silent(SendToMwebAddress) BY SilentScripts, SilentCat
<1>4. Fit(a) /\ Fit(b) BY <1>2, <1>3, FitSilent, KeyFacts
<1>5. Sound(a) /\ Sound(b) BY <1>4 DEF Fit
<1>6. /\ \A i \in DOMAIN a : a[i][1] # "sendrawtransaction" /\ a[i][2] \in Keys
      /\ \A i \in DOMAIN b : b[i][1] # "sendrawtransaction" /\ b[i][2] \in Keys
   <2>1. ASSUME NEW st, Silent(st), NEW k \in Keys
         PROVE \A i \in DOMAIN Do(st, k) : Do(st, k)[i][1] # "sendrawtransaction"
         /\ Do(st, k)[i][2] \in Keys
      <3>1. st \in Seq(Names) /\ k \in KeyNames BY <2>1, KeyFacts DEF Silent
      <3>2. DOMAIN Do(st, k) = 1..Len(st) /\ \A i \in 1..Len(st) : Do(st, k)[i][1] = st[i]
            /\ Do(st, k)[i][2] = k
          BY <3>1, DoFacts
      <3> QED BY <3>2, <2>1 DEF Silent
   <2> QED BY <1>3, <2>1, KeyFacts
<1>7. a \in Scripts /\ b \in Scripts BY <1>5 DEF Sound
<1> HIDE DEF a, b
<1>8. \A i \in DOMAIN (a \o b) : (a \o b)[i][1] # "sendrawtransaction" /\ (a \o b)[i][2] \in Keys
   <2> TAKE i \in DOMAIN (a \o b)
   <2>1. CASE i \in DOMAIN a BY <2>1, <1>6, <1>7, Concat
   <2>2. CASE i - Len(a) \in DOMAIN b
      <3>1. (a \o b)[Len(a) + (i - Len(a))] = b[i - Len(a)] BY <2>2, <1>7, Concat
      <3>2. a \o b \in Scripts /\ Len(a) \in Nat BY <1>7, Concat
      <3>3. i \in Nat BY ONLY <3>2, ScriptFacts, i \in DOMAIN (a \o b)
      <3>4. Len(a) + (i - Len(a)) = i BY <3>2, <3>3
      <3> QED BY <2>2, <3>1, <3>4, <1>6
   <2> QED BY <2>1, <2>2, <1>7, Concat
<1>9. Sound(a \o b) BY <1>5, SoundCat
<1>10. Fit(a \o b) BY <1>1, <1>8, <1>9 DEF Fit, Ordered, Whole, Has, Known
<1> QED BY <1>10 DEF MwebScript, a, b

----------------------------------------------------------------------------
(* What the steps do, one part of the state at a time. *)

\* The first step left of a busy goroutine.
LEMMA HeadFacts ==
  ASSUME Base, NEW t \in Procs, Busy(t)
  PROVE
  /\ pc[t] \in Scripts /\ pc[t] # <<>> /\ Len(pc[t]) \in Nat /\ Len(pc[t]) > 0 /\ 1 \in DOMAIN pc[t]
  /\ Step(t) \in Names /\ Step(t) \notin Foreign /\ Key(t) \in KeyNames
  /\ pc[t][1] = <<Step(t), Key(t)>>
  /\ Step(t) # "keyOfAddress" => Key(t) \in Keys /\ Entry(t) \in Nat /\ (Entry(t) # 0 =>
       Entry(t) \in DOMAIN obj /\ obj[Entry(t)].key = Key(t))
<1>1. pc[t] \in Scripts /\ pc[t] # <<>> BY DEF Base, TypeOK, Busy
<1>2. Len(pc[t]) \in Nat /\ Len(pc[t]) > 0 /\ 1 \in DOMAIN pc[t] BY <1>1, ScriptFacts
<1>3. pc[t][1][1] \in Names /\ pc[t][1][2] \in KeyNames /\ pc[t][1] = <<pc[t][1][1], pc[t][1][2]>>
    BY <1>1, <1>2, ScriptFacts
<1>4. Linked(pc[t], FALSE) /\ Known(pc[t]) BY DEF Base, Shaped, Shape
<1>5. pc[t][1][1] \notin Foreign BY <1>2, <1>4 DEF Linked
<1>6. pc[t][1][1] # "keyOfAddress" => pc[t][1][2] \in Keys BY <1>2, <1>3, <1>4 DEF Known
<1>7. Step(t) # "keyOfAddress" => Key(t) \in Keys /\ Entry(t) \in Nat /\ (Entry(t) # 0 =>
      Entry(t) \in DOMAIN obj /\ obj[Entry(t)].key = Key(t))
   BY <1>6 DEF Base, TypeOK, Mapped, Entry, Key, Step
<1> QED BY <1>1, <1>2, <1>3, <1>5, <1>7 DEF Step, Key

\* What a step does to its goroutine's script: the step is done; the call ends;
\* the step is turned into another; a new script is given.
Tailed(t) == pc' = [pc EXCEPT ![t] = Tail(pc[t])]
Dropped(t) == pc' = [pc EXCEPT ![t] = <<>>]
Renames(t) == \E n : <<Step(t), n>> \in Turned /\ pc' = [pc EXCEPT ![t] = Renamed(pc[t], n)]
Given(t) == \E s : Fit(s) /\ pc' = [pc EXCEPT ![t] = s]

\* Wallet w became x although the step is not about it: only the end of t's call
\* releases what t held.
Rest(w, x, t) ==
  /\ x \in NodeWallet /\ x.key = w.key /\ x.acct = w.acct /\ x.ready = w.ready /\ x.loadCount = w.loadCount
  /\ x.mu = w.mu \/ (w.mu = t /\ pc'[t] = <<>>)
  /\ x.txLock = w.txLock \/ (w.txLock = t /\ pc'[t] = <<>>)

\* The types of a wallet's fields.
LEMMA Fields ==
  ASSUME NEW w \in NodeWallet
  PROVE
  w.key \in Keys /\ w.acct \in Nat /\ w.ready \in BOOLEAN /\ w.loadCount \in Nat
    /\ w.mu \in Procs \cup {None} /\ w.txLock \in Procs \cup {None}
BY DEF NodeWallet

\* Deferred unlocks release what t held and nothing else.
LEMMA ReleasedFacts ==
  ASSUME NEW o \in Seq(NodeWallet), NEW t \in Procs, pc'[t] = <<>>
  PROVE
  /\ Released(o, t) \in Seq(NodeWallet) /\ DOMAIN Released(o, t) = DOMAIN o /\ Len(Released(o, t)) = Len(o)
  /\ \A i \in DOMAIN o : Rest(o[i], Released(o, t)[i], t)
<1> DEFINE r == Released(o, t)
<1>1. DOMAIN o = 1..Len(o) /\ Len(o) \in Nat /\ \A i \in 1..Len(o) : o[i] \in NodeWallet OBVIOUS
<1>2. DOMAIN r = 1..Len(o) BY <1>1 DEF Released
<1>3. ASSUME NEW i \in DOMAIN o PROVE r[i] \in NodeWallet /\ Rest(o[i], r[i], t)
   <2>1. r[i] = [o[i] EXCEPT !.mu = IF @ = t THEN None ELSE @, !.txLock = IF @ = t THEN None ELSE @]
       BY <1>3 DEF Released
   <2>2. o[i] \in NodeWallet BY <1>1, <1>3
   <2> QED BY <2>1, <2>2 DEF NodeWallet, Rest
<1>4. r \in [1..Len(o) -> NodeWallet] BY <1>1, <1>2, <1>3 DEF Released
<1>5. r \in Seq(NodeWallet) /\ Len(r) = Len(o) BY <1>1, <1>2, <1>4, LenProperties
<1> QED BY <1>1, <1>2, <1>3, <1>5

\* The last step leaves an empty script.
LEMMA TailEnds == ASSUME TypeOK, NEW t \in Procs, Busy(t), Len(pc[t]) = 1 PROVE Tail(pc[t]) = <<>>
<1>1. pc[t] \in Scripts /\ pc[t] # <<>> BY DEF TypeOK, Busy
<1>2. Tail(pc[t]) \in Scripts /\ Len(Tail(pc[t])) = 0 BY <1>1, TailFacts
<1> DEFINE r == Tail(pc[t])
<1>3. r \in Seq(Names \X KeyNames) /\ Len(r) = 0 BY <1>2 DEF Scripts
<1> HIDE DEF r
<1>4. r = <<>> BY <1>3, EmptySeq
<1> QED BY <1>4 DEF r

\* What success of a step does.
LEMMA GoOnFacts ==
  ASSUME TypeOK, NEW t \in Procs, Busy(t), NEW o \in Seq(NodeWallet), GoOn(t, o)
  PROVE
  /\ Tailed(t) /\ UNCHANGED <<failed, mining>>
  /\ obj' \in Seq(NodeWallet) /\ Len(obj') = Len(o) /\ DOMAIN obj' = DOMAIN o
  /\ \A i \in DOMAIN o : Rest(o[i], obj'[i], t)
<1>1. Tailed(t) /\ UNCHANGED <<failed, mining>> BY DEF GoOn, Tailed
<1>2. CASE Len(pc[t]) = 1
   <2>1. obj' = Released(o, t) BY <1>2 DEF GoOn
   <2>2. pc'[t] = <<>> BY <1>1, <1>2, TailEnds DEF Tailed, TypeOK
   <2> QED BY <1>1, <2>1, <2>2, ReleasedFacts
<1>3. CASE Len(pc[t]) # 1
   <2>1. obj' = o BY <1>3 DEF GoOn
   <2> QED BY <1>1, <2>1 DEF Rest
<1> QED BY <1>2, <1>3

\* What an error does.
LEMMA FailFacts ==
  ASSUME TypeOK, NEW t \in Procs, Fail(t)
  PROVE
  /\ Dropped(t) /\ pc'[t] = <<>> /\ failed' = failed \cup {Key(t)}
  /\ mapAccess' = IF mapAccess = t THEN None ELSE mapAccess
  /\ obj' \in Seq(NodeWallet) /\ Len(obj') = Len(obj) /\ DOMAIN obj' = DOMAIN obj
  /\ \A i \in DOMAIN obj : Rest(obj[i], obj'[i], t)
<1>1. Dropped(t) /\ pc'[t] = <<>> BY DEF Fail, Dropped, TypeOK
<1> QED BY <1>1, ReleasedFacts DEF Fail, TypeOK

\* Setting one wallet.
LEMMA SetField ==
  ASSUME NEW o \in Seq(NodeWallet), NEW p \in Nat, NEW w \in NodeWallet
  PROVE
  /\ [o EXCEPT ![p] = w] \in Seq(NodeWallet) /\ DOMAIN [o EXCEPT ![p] = w] = DOMAIN o
  /\ \A i \in DOMAIN o : [o EXCEPT ![p] = w][i] = IF i = p THEN w ELSE o[i]
<1>1. o \in [1..Len(o) -> NodeWallet] /\ Len(o) \in Nat OBVIOUS
<1> DEFINE r == [o EXCEPT ![p] = w]
<1>2. r \in [1..Len(o) -> NodeWallet] /\ DOMAIN r = 1..Len(o) BY <1>1
<1>3. r \in Seq(NodeWallet) BY <1>1, <1>2
<1> QED BY <1>1, <1>2, <1>3

\* A step of a goroutine.
ProcStep(t) == Acquire(t) \/ Advance(t) \/ Errors(t)

\* The step enters a new wallet in the map; the step sets wallet p to w.
Makes(t, acct, count) ==
  wallet' = [wallet EXCEPT ![Key(t)] = Len(obj) + 1] /\ GoOn(t, Append(obj, NewWallet(Key(t), acct, count)))
Sets(t, p, w) == GoOn(t, [obj EXCEPT ![p] = w]) /\ UNCHANGED wallet

\* The steps that change a wallet or the map when they succeed.
Changing == {"put", "setAddress", "number", "txLock", "txUnlock", "load", "unload", "loading",
  "unloading", "setaccount"}

\* What a step of t does to the scripts, the wallets and the map, whichever action
\* it is: the cases the invariants have to look at.
Outcome(t) ==
  \/ Fail(t) /\ UNCHANGED wallet
       /\ Step(t) \notin {"setAddress", "put", "number", "txLock", "txUnlock", "keyOfAddress"}
  \/ GoOn(t, obj) /\ UNCHANGED wallet /\ Step(t) \notin Changing /\ (Step(t) = "forNewAddress" =>
       family = "utxo")
     /\ (Step(t) = "keyOfAddress" => HasAddress(Key(t)))
  \/ Step(t) = "put" /\ mapAccess = None /\ Makes(t, IF family = "utxo" THEN 0 ELSE got[t], 1)
  \/ Step(t) = "forNewAddress" /\ family = "utxoOld" /\ mapAccess = None /\ Entry(t) = 0 /\ Makes(t, 0, 0)
  \/ Step(t) = "number" /\ Makes(t, IF family = "geth" THEN nextAcctNum ELSE got[t], 0)
  \/ Step(t) = "setAddress"
       /\ Sets(t, Entry(t), [obj[Entry(t)] EXCEPT !.acct = got[t], !.ready = (family = "utxo")])
  \/ Step(t) = "setaccount" /\ Sets(t, ptr[t], [obj[ptr[t]] EXCEPT !.ready = TRUE])
  \/ Step(t) = "txLock" /\ obj[ptr[t]].txLock = None /\ Sets(t, ptr[t], [obj[ptr[t]] EXCEPT !.txLock = t])
  \/ Step(t) = "txUnlock" /\ Sets(t, ptr[t], [obj[ptr[t]] EXCEPT !.txLock = None])
  \/ Step(t) \in {"load", "unload"} /\ mapAccess = None /\ Entry(t) # 0 /\ Own(t).mu = None
       /\ HasCommand(t) /\ UNCHANGED wallet
     /\ obj' = [obj EXCEPT ![Entry(t)] = [obj[Entry(t)] EXCEPT !.mu = t]]
          /\ Turn(t, IF Step(t) = "load" THEN "loading" ELSE "unloading")
     /\ UNCHANGED failed
  \/ Step(t) \in {"load", "unload"} /\ mapAccess = None /\ Entry(t) # 0 /\ Own(t).mu = None
       /\ ~HasCommand(t)
     /\ GoOn(t, Counted(t)) /\ UNCHANGED wallet
  \/ Step(t) \in {"loading", "unloading"} /\ GoOn(t, [Counted(t) EXCEPT ![Entry(t)].mu = None])
       /\ UNCHANGED wallet
  \/ Step(t) \in {"dial", "wait"} /\ Turn(t, IF Step(t) = "dial" THEN "redial" ELSE "waiting")
       /\ UNCHANGED <<obj, wallet, failed>>
  \/ Step(t) = "keyOfAddress" /\ ~HasAddress(Key(t)) /\ Dropped(t) /\ UNCHANGED <<obj, wallet, failed>>
  \/ Step(t) = "readAccount" /\ UNCHANGED <<pc, obj, wallet, failed>>
  \/ Step(t) = "version" /\ Utxo
       /\ (\E b \in BOOLEAN : pc' = [pc EXCEPT ![t] = Do(UtxoStart(b), Faucet)])
       /\ UNCHANGED <<obj, wallet, failed>>
  \/ Step(t) = "go" /\ Tailed(t) /\ UNCHANGED <<obj, wallet, failed>>

\* Every step of a goroutine has one of the outcomes.
LEMMA Outcomes == ASSUME Base, NEW t \in Procs, ProcStep(t) PROVE Busy(t) /\ Outcome(t)
<1> DEFINE St(n) == Step(t) = n
<1>1. CASE Look(t)
   <2>1. Busy(t) /\ Step(t) \in LookSteps /\ mapAccess = None BY <1>1 DEF Look, At
   <2>2. CASE Refused(t)
      <3>1. Fail(t) /\ UNCHANGED wallet BY <1>1, <2>2 DEF Look
      <3>2. Step(t) \notin {"setAddress", "put"} BY <2>2 DEF Refused
      <3> QED BY <2>1, <3>1, <3>2 DEF Outcome, LookSteps
   <2>3. CASE ~Refused(t)
      <3>1. Looked(t) BY <1>1, <2>3 DEF Look
      <3>2. CASE Step(t) = "put"
         <4>1. Makes(t, IF family = "utxo" THEN 0 ELSE got[t], 1) BY <3>1, <3>2 DEF Looked, Makes
         <4> QED BY <4>1, <2>1, <3>2 DEF Outcome
      <3>3. CASE Step(t) = "forNewAddress" /\ family = "utxoOld"
         <4>1. Makes(t, 0, 0) BY <3>1, <3>3 DEF Looked, Makes
         <4>2. Entry(t) = 0 BY <2>3, <3>3 DEF Refused
         <4> QED BY <4>1, <4>2, <2>1, <3>3 DEF Outcome
      <3>4. CASE Step(t) = "setAddress"
         <4>1. [[obj EXCEPT ![Entry(t)].acct = got[t]] EXCEPT ![Entry(t)].ready = (family = "utxo")] =
               [obj EXCEPT ![Entry(t)] = [obj[Entry(t)] EXCEPT !.acct = got[t],
                 !.ready = (family = "utxo")]]
            OBVIOUS
         <4>2. GoOn(t, [obj EXCEPT ![Entry(t)].acct = got[t],
               ![Entry(t)].ready = (family = "utxo")]) /\ UNCHANGED wallet
            BY <3>1, <3>4 DEF Looked
         <4> QED BY <2>1, <3>4, <4>1, <4>2 DEF Outcome, Sets
      <3>5. CASE Step(t) \notin {"put", "setAddress"} /\ ~(Step(t) = "forNewAddress" /\ family = "utxoOld")
         <4>1. GoOn(t, obj) /\ UNCHANGED wallet BY <3>1, <3>5 DEF Looked
         <4>2. Step(t) = "forNewAddress" => family = "utxo"
            BY <2>1, <3>5, HeadFacts DEF Foreign, Utxo
         <4> QED BY <2>1, <3>5, <4>1, <4>2 DEF Outcome, LookSteps, Changing
      <3> QED BY <3>2, <3>3, <3>4, <3>5
   <2> QED BY <2>2, <2>3
<1>2. CASE KeyOfAddress(t) BY <1>2 DEF KeyOfAddress, At, Outcome, Dropped, Changing
<1>3. CASE MapLock(t) BY <1>3 DEF MapLock, At, Outcome, Changing
<1>4. CASE TxLock(t)
   <2>1. [obj EXCEPT ![ptr[t]].txLock = t] = [obj EXCEPT ![ptr[t]] = [obj[ptr[t]] EXCEPT !.txLock = t]] OBVIOUS
   <2> QED BY <1>4, <2>1 DEF TxLock, At, Outcome, Sets
<1>5. CASE MuLock(t)
   <2>1. Busy(t) /\ Step(t) \in {"load", "unload"} /\ mapAccess = None BY <1>5 DEF MuLock, At
   <2>2. CASE Entry(t) = 0
      <3>1. Fail(t) /\ UNCHANGED wallet BY <1>5, <2>2 DEF MuLock
      <3> QED BY <2>1, <3>1 DEF Outcome
   <2>3. CASE Entry(t) # 0 /\ HasCommand(t)
      <3>1. [obj EXCEPT ![Entry(t)].mu = t] = [obj EXCEPT ![Entry(t)] = [obj[Entry(t)] EXCEPT !.mu = t]] OBVIOUS
      <3> QED BY <1>5, <2>1, <2>3, <3>1 DEF MuLock, Outcome
   <2>4. CASE Entry(t) # 0 /\ ~HasCommand(t) BY <1>5, <2>1, <2>4 DEF MuLock, Outcome
   <2> QED BY <2>2, <2>3, <2>4
<1>6. CASE Go(t) BY <1>6 DEF Go, At, Outcome, Tailed, mapVars, history
<1>7. CASE MapUnlock(t) \/ Up(t) \/ Waited(t) BY <1>7 DEF MapUnlock, Up, Waited, At, Outcome, Changing
<1>8. CASE Number(t) BY <1>8 DEF Number, At, Outcome, Makes
<1>9. CASE TxUnlock(t)
   <2>1. [obj EXCEPT ![ptr[t]].txLock = None] = [obj EXCEPT ![ptr[t]] = [obj[ptr[t]] EXCEPT !.txLock = None]] OBVIOUS
   <2> QED BY <1>9, <2>1 DEF TxUnlock, At, Outcome, Sets
<1>10. CASE Exec(t)
   <2>1. Busy(t) /\ Step(t) \in Commands /\ Store(t) BY <1>10 DEF Exec, At
   <2>2. CASE Step(t) \in {"loading", "unloading"} BY <2>1, <2>2 DEF Store, Outcome, localVars
   <2>3. CASE Step(t) = "setaccount"
      <3>1. [obj EXCEPT ![ptr[t]].ready = TRUE] = [obj EXCEPT ![ptr[t]] = [obj[ptr[t]] EXCEPT !.ready = TRUE]] OBVIOUS
      <3> QED BY <2>1, <2>3, <3>1 DEF Store, Outcome, Sets
   <2>4. CASE Step(t) \notin {"loading", "unloading", "setaccount"}
      <3>1. GoOn(t, obj) /\ UNCHANGED wallet BY <2>1, <2>4 DEF Store
      <3> QED BY <2>1, <2>4, <3>1 DEF Outcome, Commands, WalletCommands, PlainCommands, Changing
   <2> QED BY <2>2, <2>3, <2>4
<1>11. CASE Rejected(t) BY <1>11 DEF Rejected, At, Outcome, Commands, WalletCommands, PlainCommands
<1>12. CASE Undefined(t) BY <1>12 DEF Undefined, At, Outcome
<1>13. CASE Version(t)
   <2>1. Utxo BY <1>13, HeadFacts DEF Version, At, Foreign
   <2> QED BY <1>13, <2>1 DEF Version, At, Outcome
<1>14. CASE Wait(t) BY <1>14 DEF Wait, At, Outcome, mapVars, history
<1>15. CASE Faulty(t) BY <1>15 DEF Faulty, At, Outcome, Commands, WalletCommands, PlainCommands
<1>16. CASE DialAgain(t) BY <1>16 DEF DialAgain, At, Outcome, mapVars
<1>17. CASE WaitFails(t) BY <1>17 DEF WaitFails, At, Outcome, Changing
<1> QED BY <1>1, <1>2, <1>3, <1>4, <1>5, <1>6, <1>7, <1>8, <1>9, <1>10, <1>11, <1>12, <1>13, <1>14,
           <1>15, <1>16, <1>17
      DEF ProcStep, Acquire, Advance, Errors

\* LoadWallet and UnloadWallet count in the key name's wallet.
LEMMA OwnFacts ==
  ASSUME Base, NEW t \in Procs, Busy(t), Entry(t) # 0, Step(t) # "keyOfAddress"
  PROVE
  /\ obj \in Seq(NodeWallet) /\ Entry(t) \in DOMAIN obj /\ Own(t) \in NodeWallet /\ Own(t).loadCount \in Nat
  /\ Counted(t) = [obj EXCEPT ![Entry(t)] = [Own(t) EXCEPT !.loadCount = IF Step(t) \in {"load",
       "loading"} THEN Own(t).loadCount + 1
                        ELSE IF Own(t).loadCount > 0 THEN Own(t).loadCount - 1 ELSE 0]]
  /\ [Counted(t) EXCEPT ![Entry(t)].mu = None] =
        [obj EXCEPT ![Entry(t)] = [Own(t) EXCEPT !.loadCount = IF Step(t) \in {"load",
          "loading"} THEN Own(t).loadCount + 1
                        ELSE IF Own(t).loadCount > 0 THEN Own(t).loadCount - 1 ELSE 0, !.mu = None]]
<1>1. obj \in Seq(NodeWallet) /\ Entry(t) \in DOMAIN obj BY HeadFacts DEF Base, TypeOK
<1>2. Own(t) \in NodeWallet BY <1>1 DEF Own
<1>3. Own(t).loadCount \in Nat BY <1>2, Fields
<1> DEFINE c == IF Step(t) \in {"load", "loading"} THEN Own(t).loadCount + 1
                        ELSE IF Own(t).loadCount > 0 THEN Own(t).loadCount - 1 ELSE 0
<1>4. Counted(t) = [obj EXCEPT ![Entry(t)] = [Own(t) EXCEPT !.loadCount = c]] BY DEF Counted, Own
<1> HIDE DEF c
<1>5. [Counted(t) EXCEPT ![Entry(t)].mu = None] = [obj EXCEPT ![Entry(t)] = [Own(t) EXCEPT !.loadCount = c, !.mu = None]]
    BY <1>4, <1>1
<1> QED BY <1>1, <1>2, <1>3, <1>4, <1>5 DEF c

\* What any step of t does to wallet i, field by field.
ObjStep(t, i) ==
  LET w == obj[i]
      x == obj'[i]
  IN /\ i \in DOMAIN obj' /\ x.key = w.key
     /\ x.acct = w.acct \/ (Step(t) = "setAddress" /\ i = Entry(t) /\ x.acct = got[t])
     /\ \/ x.txLock = w.txLock
        \/ w.txLock = t /\ pc'[t] = <<>>
        \/ Step(t) = "txUnlock" /\ i = ptr[t]
        \/ Step(t) = "txLock" /\ i = ptr[t] /\ w.txLock = None
     /\ (Step(t) = "txLock" /\ i = ptr[t] => x.txLock = t \/ pc'[t] = <<>>)
     /\ \/ x.loadCount = w.loadCount /\ (x.mu = w.mu \/ (w.mu = t /\ pc'[t] = <<>>))
        \/ Step(t) \in {"load", "unload", "loading", "unloading"} /\ i = Entry(t)

\* What a new wallet is.
NewObj(t, w) ==
  /\ w.key = Key(t) /\ w.mu = None /\ w.txLock = None
  /\ \/ Step(t) = "put" /\ w.acct = (IF family = "utxo" THEN 0 ELSE got[t]) /\ w.loadCount = 1
     \/ Step(t) = "forNewAddress" /\ family = "utxoOld" /\ w.acct = 0 /\ w.loadCount = 0
     \/ Step(t) = "number" /\ w.acct = (IF family = "geth" THEN nextAcctNum ELSE got[t]) /\ w.loadCount = 0
Makers == {"put", "forNewAddress", "number"}

\* A step that enters a wallet in the map.
Grown(t) ==
  /\ Tailed(t) /\ Step(t) \in Makers /\ (Step(t) = "forNewAddress" => family = "utxoOld"
       /\ Entry(t) = 0) /\ (Step(t) # "number" => mapAccess = None)
  /\ wallet' = [wallet EXCEPT ![Key(t)] = Len(obj) + 1] /\ Len(obj') = Len(obj) + 1
       /\ Len(obj) + 1 \in DOMAIN obj'
  /\ NewObj(t, obj'[Len(obj) + 1])

\* A step that sets a wallet leaves the others to Rest.
LEMMA SetsFacts ==
  ASSUME Base, NEW t \in Procs, Busy(t), NEW p \in Nat, NEW w,
         p \in DOMAIN obj => w \in NodeWallet, Sets(t, p, w)
  PROVE
  /\ Tailed(t) /\ obj' \in Seq(NodeWallet) /\ Len(obj') = Len(obj) /\ DOMAIN obj' = DOMAIN obj
       /\ UNCHANGED <<wallet, failed>>
  /\ \A i \in DOMAIN obj : Rest(IF i = p THEN w ELSE obj[i], obj'[i], t)
<1> DEFINE o == [obj EXCEPT ![p] = w]
<1>1. obj \in Seq(NodeWallet) /\ TypeOK BY DEF Base, TypeOK
<1>2. o \in Seq(NodeWallet) /\ DOMAIN o = DOMAIN obj
      /\ \A i \in DOMAIN obj : o[i] = IF i = p THEN w ELSE obj[i]
   <2>1. CASE p \in DOMAIN obj BY <2>1, <1>1, SetField
   <2>2. CASE p \notin DOMAIN obj
      <3>1. o = obj BY <2>2, <1>1
      <3> QED BY <3>1, <2>2, <1>1
   <2> QED BY <2>1, <2>2
<1>3. GoOn(t, o) /\ UNCHANGED wallet BY DEF Sets
<1> HIDE DEF o
<1>4. Len(o) = Len(obj) BY <1>1, <1>2
<1>5. Tailed(t) /\ UNCHANGED failed /\ obj' \in Seq(NodeWallet) /\ Len(obj') = Len(o)
      /\ DOMAIN obj' = DOMAIN o
      /\ \A i \in DOMAIN o : Rest(o[i], obj'[i], t) BY <1>1, <1>2, <1>3, GoOnFacts
<1> QED BY <1>2, <1>3, <1>4, <1>5

\* A step that makes a wallet leaves the old ones to Rest.
LEMMA MakesFacts ==
  ASSUME Base, NEW t \in Procs, Busy(t), Step(t) \in Makers, NEW a \in Nat, NEW n \in Nat,
         Makes(t, a, n)
  PROVE
  /\ Tailed(t) /\ obj' \in Seq(NodeWallet) /\ Len(obj') = Len(obj) + 1 /\ Len(obj) + 1 \in DOMAIN obj'
  /\ wallet' = [wallet EXCEPT ![Key(t)] = Len(obj) + 1] /\ UNCHANGED failed
  /\ obj'[Len(obj) + 1].key = Key(t) /\ obj'[Len(obj) + 1].acct = a /\ obj'[Len(obj) + 1].loadCount = n
  /\ obj'[Len(obj) + 1].mu = None /\ obj'[Len(obj) + 1].txLock = None
  /\ \A i \in DOMAIN obj : i \in DOMAIN obj' /\ Rest(obj[i], obj'[i], t)
<1> DEFINE w == NewWallet(Key(t), a, n)  o == Append(obj, w)  m == Len(obj) + 1
<1>1. obj \in Seq(NodeWallet) /\ TypeOK BY DEF Base, TypeOK
<1>2. Key(t) \in Keys BY HeadFacts DEF Makers
<1>3. w \in NodeWallet /\ w.key = Key(t) /\ w.acct = a /\ w.loadCount = n /\ w.mu = None /\ w.txLock = None
   BY <1>2 DEF NewWallet, NodeWallet
<1> HIDE DEF w
<1>4. o \in Seq(NodeWallet) /\ Len(o) = m /\ (\A i \in 1..Len(obj) : o[i] = obj[i]) /\ o[m] = w
    BY <1>1, <1>3, AppendProperties
<1>5. GoOn(t, o) /\ wallet' = [wallet EXCEPT ![Key(t)] = m] BY DEF Makes, w
<1> HIDE DEF o
<1>6. Tailed(t) /\ UNCHANGED failed /\ obj' \in Seq(NodeWallet) /\ Len(obj') = Len(o)
      /\ DOMAIN obj' = DOMAIN o
      /\ \A i \in DOMAIN o : Rest(o[i], obj'[i], t) BY <1>1, <1>4, <1>5, GoOnFacts
<1>7. Len(obj) \in Nat /\ DOMAIN obj = 1..Len(obj) /\ DOMAIN o = 1..m BY <1>1, <1>4
<1>8. m \in DOMAIN o /\ \A i \in DOMAIN obj : i \in DOMAIN o /\ o[i] = obj[i] BY <1>4, <1>7
<1>9. Rest(w, obj'[m], t) BY <1>4, <1>6, <1>8
<1>10. None # t BY WalletsAssumption
<1>11. obj'[m].key = Key(t) /\ obj'[m].acct = a /\ obj'[m].loadCount = n /\ obj'[m].mu = None
      /\ obj'[m].txLock = None
   BY <1>3, <1>9, <1>10 DEF Rest
<1> QED BY <1>4, <1>5, <1>6, <1>8, <1>11

\* What every step does to the wallets and the map.
LEMMA ObjSteps ==
  ASSUME Base, NEW t \in Procs, ProcStep(t)
  PROVE
  /\ obj' \in Seq(NodeWallet)
  /\ \A i \in DOMAIN obj : ObjStep(t, i)
  /\ (wallet' = wallet /\ DOMAIN obj' = DOMAIN obj) \/ Grown(t)
<1> DEFINE Same == \A i \in DOMAIN obj : i \in DOMAIN obj' /\ Rest(obj[i], obj'[i], t)
           Goal == /\ obj' \in Seq(NodeWallet)
                   /\ \A i \in DOMAIN obj : ObjStep(t, i)
                   /\ (wallet' = wallet /\ DOMAIN obj' = DOMAIN obj) \/ Grown(t)
<1> SUFFICES Goal OBVIOUS
<1>1. Busy(t) /\ Outcome(t) /\ TypeOK /\ obj \in Seq(NodeWallet) BY Outcomes DEF Base, TypeOK
<1>2. ASSUME Same, Step(t) # "txLock" PROVE \A i \in DOMAIN obj : ObjStep(t, i)
    BY <1>2 DEF Rest, ObjStep
<1>3. ASSUME UNCHANGED <<obj, wallet>>, Step(t) # "txLock" PROVE Goal
   <2>1. Same BY <1>1, <1>3 DEF Rest
   <2> QED BY <2>1, <1>1, <1>2, <1>3
<1>4. ASSUME Fail(t), UNCHANGED wallet, Step(t) # "txLock" PROVE Goal
   <2>1. Same /\ DOMAIN obj' = DOMAIN obj /\ obj' \in Seq(NodeWallet) BY <1>1, <1>4, FailFacts
   <2> QED BY <2>1, <1>2, <1>4
<1>5. ASSUME GoOn(t, obj), UNCHANGED wallet, Step(t) # "txLock" PROVE Goal
   <2>1. Same /\ DOMAIN obj' = DOMAIN obj /\ obj' \in Seq(NodeWallet) BY <1>1, <1>5, GoOnFacts
   <2> QED BY <2>1, <1>2, <1>5
<1>6. ASSUME NEW a \in Nat, NEW n \in Nat, Makes(t, a, n), Step(t) \in Makers PROVE
        /\ Tailed(t) /\ obj' \in Seq(NodeWallet) /\ (\A i \in DOMAIN obj : ObjStep(t, i))
        /\ Len(obj') = Len(obj) + 1 /\ Len(obj) + 1 \in DOMAIN obj'
             /\ wallet' = [wallet EXCEPT ![Key(t)] = Len(obj) + 1]
        /\ LET w == obj'[Len(obj) + 1] IN w.key = Key(t) /\ w.mu = None /\ w.txLock = None
             /\ w.acct = a /\ w.loadCount = n
   <2>1. Same BY <1>1, <1>6, MakesFacts
   <2>2. Step(t) # "txLock" BY <1>6 DEF Makers
   <2> QED BY <2>1, <2>2, <1>1, <1>2, <1>6, MakesFacts
<1>7. got[t] \in Nat /\ nextAcctNum \in Nat /\ ptr[t] \in Nat BY <1>1 DEF TypeOK
<1>8. CASE Step(t) = "put" /\ mapAccess = None /\ Makes(t, IF family = "utxo" THEN 0 ELSE got[t], 1)
   <2>1. (IF family = "utxo" THEN 0 ELSE got[t]) \in Nat /\ Step(t) \in Makers BY <1>7, <1>8 DEF Makers
   <2> QED BY <1>6, <1>8, <2>1 DEF Grown, NewObj
<1>9. CASE Step(t) = "forNewAddress" /\ family = "utxoOld" /\ mapAccess = None /\ Entry(t) = 0
      /\ Makes(t, 0, 0)
   <2>1. Step(t) \in Makers BY <1>9 DEF Makers
   <2> QED BY <1>6, <1>9, <2>1 DEF Grown, NewObj
<1>10. CASE Step(t) = "number" /\ Makes(t, IF family = "geth" THEN nextAcctNum ELSE got[t], 0)
   <2>1. (IF family = "geth" THEN nextAcctNum ELSE got[t]) \in Nat /\ Step(t) \in Makers
       BY <1>7, <1>10 DEF Makers
   <2> QED BY <1>6, <1>10, <2>1 DEF Grown, NewObj
<1>11. CASE Step(t) = "setAddress"
      /\ Sets(t, Entry(t), [obj[Entry(t)] EXCEPT !.acct = got[t], !.ready = (family = "utxo")])
   <2> DEFINE w == [obj[Entry(t)] EXCEPT !.acct = got[t], !.ready = (family = "utxo")]
   <2>1. Entry(t) \in Nat BY <1>1, <1>11, HeadFacts
   <2>2. Entry(t) \in DOMAIN obj => obj[Entry(t)] \in NodeWallet BY <1>1
   <2>3. Entry(t) \in DOMAIN obj => w \in NodeWallet /\ w.key = obj[Entry(t)].key /\ w.acct = got[t]
         /\ w.loadCount = obj[Entry(t)].loadCount
             /\ w.mu = obj[Entry(t)].mu /\ w.txLock = obj[Entry(t)].txLock BY <2>2, <1>7 DEF NodeWallet
   <2>4. Sets(t, Entry(t), w) BY <1>11
   <2> HIDE DEF w
   <2>5. /\ obj' \in Seq(NodeWallet) /\ DOMAIN obj' = DOMAIN obj /\ UNCHANGED wallet
         /\ \A i \in DOMAIN obj : Rest(IF i = Entry(t) THEN w ELSE obj[i], obj'[i], t)
       BY <1>1, <2>1, <2>3, <2>4, SetsFacts
   <2> QED BY <2>3, <2>5, <1>11 DEF Rest, ObjStep
<1>12. CASE Step(t) = "setaccount" /\ Sets(t, ptr[t], [obj[ptr[t]] EXCEPT !.ready = TRUE])
   <2> DEFINE w == [obj[ptr[t]] EXCEPT !.ready = TRUE]
   <2>1. ptr[t] \in DOMAIN obj => obj[ptr[t]] \in NodeWallet BY <1>1
   <2>2. ptr[t] \in DOMAIN obj => w \in NodeWallet /\ w.key = obj[ptr[t]].key
         /\ w.acct = obj[ptr[t]].acct /\ w.loadCount = obj[ptr[t]].loadCount
             /\ w.mu = obj[ptr[t]].mu /\ w.txLock = obj[ptr[t]].txLock BY <2>1 DEF NodeWallet
   <2>3. Sets(t, ptr[t], w) BY <1>12
   <2> HIDE DEF w
   <2>4. /\ obj' \in Seq(NodeWallet) /\ DOMAIN obj' = DOMAIN obj /\ UNCHANGED wallet
         /\ \A i \in DOMAIN obj : Rest(IF i = ptr[t] THEN w ELSE obj[i], obj'[i], t)
       BY <1>1, <1>7, <2>2, <2>3, SetsFacts
   <2> QED BY <2>2, <2>4, <1>12 DEF Rest, ObjStep
<1>13. ASSUME NEW v \in Procs \cup {None}, Sets(t, ptr[t], [obj[ptr[t]] EXCEPT !.txLock = v]),
              \/ Step(t) = "txLock" /\ v = t /\ obj[ptr[t]].txLock = None
              \/ Step(t) = "txUnlock"
       PROVE Goal
   <2> DEFINE w == [obj[ptr[t]] EXCEPT !.txLock = v]
   <2>1. ptr[t] \in DOMAIN obj => obj[ptr[t]] \in NodeWallet BY <1>1
   <2>2. ptr[t] \in DOMAIN obj => w \in NodeWallet /\ w.key = obj[ptr[t]].key
         /\ w.acct = obj[ptr[t]].acct /\ w.loadCount = obj[ptr[t]].loadCount
             /\ w.mu = obj[ptr[t]].mu /\ w.txLock = v BY <2>1, <1>13 DEF NodeWallet
   <2>3. Sets(t, ptr[t], w) BY <1>13
   <2> HIDE DEF w
   <2>4. /\ obj' \in Seq(NodeWallet) /\ DOMAIN obj' = DOMAIN obj /\ UNCHANGED wallet
         /\ \A i \in DOMAIN obj : Rest(IF i = ptr[t] THEN w ELSE obj[i], obj'[i], t)
       BY <1>1, <1>7, <2>2, <2>3, SetsFacts
   <2>5. \A i \in DOMAIN obj : ObjStep(t, i) BY <2>2, <2>4, <1>13 DEF Rest, ObjStep
   <2> QED BY <2>4, <2>5
<1>14. CASE Step(t) = "txLock" /\ obj[ptr[t]].txLock = None
      /\ Sets(t, ptr[t], [obj[ptr[t]] EXCEPT !.txLock = t])
    BY <1>13, <1>14
<1>15. CASE Step(t) = "txUnlock" /\ Sets(t, ptr[t], [obj[ptr[t]] EXCEPT !.txLock = None])
    BY <1>13, <1>15
<1>16. ASSUME Step(t) \in {"load", "unload", "loading", "unloading"}, Entry(t) # 0, NEW w, w \in NodeWallet,
              w.key = Own(t).key, w.acct = Own(t).acct, w.txLock = Own(t).txLock, Sets(t, Entry(t),
                w) PROVE Goal
   <2>1. Entry(t) \in Nat BY <1>1, <1>16, HeadFacts
   <2>2. /\ obj' \in Seq(NodeWallet) /\ DOMAIN obj' = DOMAIN obj /\ UNCHANGED wallet
         /\ \A i \in DOMAIN obj : Rest(IF i = Entry(t) THEN w ELSE obj[i], obj'[i], t)
       BY <1>1, <2>1, <1>16, SetsFacts
   <2>3. \A i \in DOMAIN obj : ObjStep(t, i) BY <2>2, <1>16 DEF Rest, ObjStep, Own
   <2> QED BY <2>2, <2>3
<1>17. CASE Step(t) \in {"load", "unload"} /\ Entry(t) # 0 /\ UNCHANGED wallet
              /\ obj' = [obj EXCEPT ![Entry(t)] = [obj[Entry(t)] EXCEPT !.mu = t]]
   <2>1. Own(t) \in NodeWallet /\ Entry(t) \in DOMAIN obj /\ Entry(t) \in Nat
       BY <1>1, <1>17, OwnFacts, HeadFacts
   <2> DEFINE w == [obj[Entry(t)] EXCEPT !.mu = t]
   <2>2. w \in NodeWallet /\ w.key = Own(t).key /\ w.acct = Own(t).acct /\ w.txLock = Own(t).txLock
       BY <2>1 DEF NodeWallet, Own
   <2>3. obj' = [obj EXCEPT ![Entry(t)] = w] BY <1>17
   <2> HIDE DEF w
   <2>4. obj' \in Seq(NodeWallet) /\ DOMAIN obj' = DOMAIN obj
         /\ \A i \in DOMAIN obj : obj'[i] = IF i = Entry(t) THEN w ELSE obj[i]
      BY <1>1, <2>1, <2>2, <2>3, SetField
   <2>5. \A i \in DOMAIN obj : ObjStep(t, i) BY <2>2, <2>4, <1>17 DEF ObjStep, Own
   <2> QED BY <2>4, <2>5, <1>17
<1>18. CASE Step(t) \in {"load", "unload"} /\ Entry(t) # 0 /\ GoOn(t, Counted(t)) /\ UNCHANGED wallet
   <2> DEFINE c == IF Step(t) \in {"load", "loading"} THEN Own(t).loadCount + 1
                        ELSE IF Own(t).loadCount > 0 THEN Own(t).loadCount - 1 ELSE 0
              w == [Own(t) EXCEPT !.loadCount = c]
   <2>1. Own(t) \in NodeWallet /\ Own(t).loadCount \in Nat /\ Counted(t) = [obj EXCEPT ![Entry(t)] = w]
       BY <1>1, <1>18, OwnFacts
   <2>2. c \in Nat BY <2>1
   <2>3. w \in NodeWallet /\ w.key = Own(t).key /\ w.acct = Own(t).acct /\ w.txLock = Own(t).txLock
       BY <2>1, <2>2 DEF NodeWallet
   <2>4. Sets(t, Entry(t), w) BY <1>18, <2>1 DEF Sets
   <2> QED BY <2>3, <2>4, <1>16, <1>18
<1>19. CASE Step(t) \in {"loading", "unloading"} /\ Entry(t) # 0
      /\ GoOn(t, [Counted(t) EXCEPT ![Entry(t)].mu = None]) /\ UNCHANGED wallet
   <2> DEFINE c == IF Step(t) \in {"load", "loading"} THEN Own(t).loadCount + 1
                        ELSE IF Own(t).loadCount > 0 THEN Own(t).loadCount - 1 ELSE 0
              w == [Own(t) EXCEPT !.loadCount = c, !.mu = None]
   <2>1. Own(t) \in NodeWallet /\ Own(t).loadCount \in Nat
         /\ [Counted(t) EXCEPT ![Entry(t)].mu = None] = [obj EXCEPT ![Entry(t)] = w]
      BY <1>1, <1>19, OwnFacts
   <2>2. c \in Nat BY <2>1
   <2>3. w \in NodeWallet /\ w.key = Own(t).key /\ w.acct = Own(t).acct /\ w.txLock = Own(t).txLock
       BY <2>1, <2>2 DEF NodeWallet
   <2>4. Sets(t, Entry(t), w) BY <1>19, <2>1 DEF Sets
   <2> QED BY <2>3, <2>4, <1>16, <1>19
<1>20. CASE Step(t) \in {"loading", "unloading"} /\ Entry(t) = 0
      /\ GoOn(t, [Counted(t) EXCEPT ![Entry(t)].mu = None]) /\ UNCHANGED wallet
   <2>1. 0 \notin DOMAIN obj BY <1>1
   <2>2. Counted(t) = obj /\ [Counted(t) EXCEPT ![Entry(t)].mu = None] = obj
       BY <2>1, <1>20, <1>1 DEF Counted
   <2> QED BY <2>2, <1>5, <1>20
<1> HIDE DEF Goal, Same
<1> QED BY <1>1, <1>3, <1>4, <1>5, <1>8, <1>9, <1>10, <1>11, <1>12, <1>14, <1>15, <1>17, <1>18, <1>19,
           <1>20 DEF Outcome, Changing

\* What a step of t does to its script.
Moves(t) ==
  \/ Tailed(t) /\ (Step(t) = "keyOfAddress" => Key(t) \in Keys)
  \/ Dropped(t) /\ (failed' = failed \cup {Key(t)} \/ (Step(t) = "keyOfAddress" /\ UNCHANGED failed))
  \/ Renames(t) /\ UNCHANGED failed
  \/ pc' = pc /\ Step(t) = "readAccount"
  \/ Step(t) = "version" /\ Utxo /\ Given(t) /\ UNCHANGED failed

\* What every step does to the scripts; failures are remembered.
LEMMA Moving ==
  ASSUME Base, NEW t \in Procs, ProcStep(t)
  PROVE  Moves(t) /\ failed \subseteq failed' /\ (Tailed(t) => Dropped(t) \/ UNCHANGED failed)
<1>1. Busy(t) /\ Outcome(t) /\ TypeOK BY Outcomes DEF Base
<1>2. \A o \in Seq(NodeWallet) : GoOn(t, o) => Tailed(t) /\ UNCHANGED failed BY DEF GoOn, Tailed
<1>3. \A n, a : GoOn(t, n) => Tailed(t) /\ UNCHANGED failed BY DEF GoOn, Tailed
<1>4. \A p, w : Sets(t, p, w) => Tailed(t) /\ UNCHANGED failed BY <1>3 DEF Sets
<1>5. \A a, n : Makes(t, a, n) => Tailed(t) /\ UNCHANGED failed BY <1>3 DEF Makes
<1>6. \A n : Turn(t, n) => pc' = [pc EXCEPT ![t] = Renamed(pc[t], n)] BY DEF Turn, Renamed
<1>7. Fail(t) => Dropped(t) /\ failed' = failed \cup {Key(t)} BY DEF Fail, Dropped
<1>8. CASE Fail(t) BY <1>7, <1>8 DEF Moves
<1>9. ASSUME Tailed(t), UNCHANGED failed, Step(t) # "keyOfAddress" \/ HasAddress(Key(t))
      PROVE Moves(t) /\ failed \subseteq failed'
   BY <1>9 DEF Moves, HasAddress
<1>10. CASE Step(t) = "version" /\ Utxo
      /\ (\E b \in BOOLEAN : pc' = [pc EXCEPT ![t] = Do(UtxoStart(b), Faucet)])
      /\ UNCHANGED <<obj, wallet, failed>>
   <2>1. \A b \in BOOLEAN : Fit(Do(UtxoStart(b), Faucet)) BY <1>1, <1>10, UtxoScripts
   <2> QED BY <1>10, <2>1 DEF Moves, Given
<1>11. CASE Step(t) \in {"load", "unload"}
      /\ Turn(t, IF Step(t) = "load" THEN "loading" ELSE "unloading") /\ UNCHANGED failed
   <2>1. <<Step(t), IF Step(t) = "load" THEN "loading" ELSE "unloading">> \in Turned BY <1>11 DEF Turned
   <2> QED BY <1>6, <1>11, <2>1 DEF Moves, Renames
<1>12. CASE Step(t) \in {"dial", "wait"}
      /\ Turn(t, IF Step(t) = "dial" THEN "redial" ELSE "waiting") /\ UNCHANGED <<obj, wallet, failed>>
   <2>1. <<Step(t), IF Step(t) = "dial" THEN "redial" ELSE "waiting">> \in Turned BY <1>12 DEF Turned
   <2> QED BY <1>6, <1>12, <2>1 DEF Moves, Renames
<1>13. CASE Step(t) = "keyOfAddress" /\ ~HasAddress(Key(t)) /\ Dropped(t)
      /\ UNCHANGED <<obj, wallet, failed>>
    BY <1>13 DEF Moves
<1>14. CASE Step(t) = "readAccount" /\ UNCHANGED <<pc, obj, wallet, failed>> BY <1>14 DEF Moves
<1>15. Moves(t) /\ failed \subseteq failed'
    BY <1>1, <1>3, <1>4, <1>5, <1>8, <1>9, <1>10, <1>11, <1>12, <1>13, <1>14 DEF Outcome
<1>16. Tailed(t) => Dropped(t) \/ UNCHANGED failed BY <1>1, <1>3, <1>4, <1>5, <1>7 DEF Outcome
<1> QED BY <1>15, <1>16

\* A script that fits is in shape.
LEMMA FitShape == ASSUME NEW s, Fit(s) PROVE s \in Scripts /\ Shape(s) /\ Known(s)
BY DEF Fit, Sound, Shape, Linked, Nested

\* The shape depends on the configuration only.
LEMMA ShapeStable == ASSUME UNCHANGED config PROVE \A s : Shape(s)' <=> Shape(s)
<1>1. family' = family /\ unloadAfterUse' = unloadAfterUse BY DEF config
<1>2. Counts' <=> Counts BY <1>1 DEF Counts
<1>3. Foreign' = Foreign /\ Followers' = Followers BY <1>1, <1>2 DEF Foreign, Followers, Utxo
<1>4. \A n : Before(n)' = Before(n) BY <1>1 DEF Before
<1>5. \A s : Linked(s, FALSE)' <=> Linked(s, FALSE) BY <1>3, <1>4 DEF Linked
<1>6. \A s : (Paired(s)' <=> Paired(s)) /\ (Nested(s, FALSE)' <=> Nested(s, FALSE)) /\ (Ordered(s)'
      <=> Ordered(s)) OBVIOUS
<1> QED BY <1>1, <1>2, <1>5, <1>6 DEF Shape

\* Every step of a goroutine leaves all scripts in shape.
LEMMA Shapes ==
  ASSUME Base, NEW t \in Procs, Busy(t), Moves(t), UNCHANGED config
  PROVE
  /\ pc' \in [Procs -> Scripts] /\ Shaped'
  /\ \A u \in Procs : u # t => pc'[u] = pc[u]
<1> DEFINE s == pc[t]
<1>1. s \in Scripts /\ s # <<>> /\ pc \in [Procs -> Scripts] /\ Shape(s) /\ Known(s) /\ 1 \in DOMAIN s
   BY HeadFacts DEF Base, TypeOK, Shaped
<1> DEFINE Goal(r) == r \in Scripts /\ Shape(r) /\ Known(r)
<1>2. ASSUME NEW r, Goal(r), pc' = [pc EXCEPT ![t] = r] PROVE pc' \in [Procs -> Scripts] /\ Shaped'
      /\ \A u \in Procs : u # t => pc'[u] = pc[u]
   <2>1. pc' \in [Procs -> Scripts] /\ (\A u \in Procs : pc'[u] = IF u = t THEN r ELSE pc[u])
       BY <1>1, <1>2
   <2>2. \A u \in Procs : Shape(pc'[u]) /\ Known(pc'[u]) BY <2>1, <1>2 DEF Base, Shaped
   <2>3. \A u \in Procs : Shape(pc[u])'
      <3> TAKE u \in Procs
      <3>1. \A x : Shape(x)' <=> Shape(x) BY ShapeStable
      <3> QED BY <2>2, <3>1
   <2>4. \A u \in Procs : Known(pc[u])' BY <2>2 DEF Known
   <2> QED BY <2>1, <2>3, <2>4 DEF Shaped
<1>3. CASE Tailed(t) /\ (Step(t) = "keyOfAddress" => Key(t) \in Keys)
   <2>1. Tail(s) \in Scripts /\ \A i \in DOMAIN Tail(s) : i + 1 \in DOMAIN s /\ Tail(s)[i] = s[i+1]
       BY <1>1, TailFacts
   <2>2. Shape(Tail(s)) BY <1>1, LinkedTail, OrderedTail, NestedTail, PairedTail DEF Shape
   <2>3. Known(Tail(s))
      <3>1. \A i \in DOMAIN s : s[i][2] \in Keys
         <4>1. s[1] # <<"keyOfAddress", Stranger>> BY <1>3, KeyFacts DEF Step, Key
         <4> QED BY <4>1, <1>1 DEF Known
      <3> QED BY <3>1, <2>1 DEF Known
   <2> QED BY <1>2, <1>3, <2>1, <2>2, <2>3 DEF Tailed
<1>4. CASE Dropped(t)
   <2>1. <<>> \in Scripts /\ DOMAIN <<>> = {} BY EmptySeq DEF Scripts
   <2>2. Shape(<<>>) /\ Known(<<>>) BY <2>1 DEF Shape, Linked, Ordered, Has, Nested, Paired, Known
   <2> QED BY <1>2, <1>4, <2>1, <2>2 DEF Dropped
<1>5. CASE Renames(t)
   <2>1. PICK n : <<Step(t), n>> \in Turned /\ pc' = [pc EXCEPT ![t] = Renamed(s, n)]
       BY <1>5 DEF Renames
   <2>2. <<s[1][1], n>> \in Turned BY <2>1 DEF Step
   <2>3. n \in Names /\ Shape(Renamed(s, n))
       BY <1>1, <2>2, LinkedRenamed, OrderedRenamed, NestedRenamed, PairedRenamed DEF Shape
   <2>4. Renamed(s, n) \in Scripts /\ DOMAIN Renamed(s, n) = DOMAIN s /\ Renamed(s, n)[1] = <<n, s[1][2]>>
         /\ \A i \in DOMAIN s : i > 1 => Renamed(s, n)[i] = s[i] BY <1>1, <2>3, RenamedFacts
   <2>5. Known(Renamed(s, n))
      <3>1. s[1] # <<"keyOfAddress", Stranger>> BY <2>2 DEF Turned
      <3>2. \A i \in DOMAIN s : s[i][2] \in Keys BY <3>1, <1>1 DEF Known
      <3>3. \A i \in DOMAIN s : i = 1 \/ i > 1 BY <1>1, ScriptFacts
      <3> DEFINE r == Renamed(s, n)
      <3>4. r[1][2] = s[1][2] BY <2>4
      <3>5. \A i \in DOMAIN r : r[i][2] \in Keys BY <3>2, <3>3, <3>4, <2>4
      <3> QED BY <3>5 DEF Known
   <2> QED BY <1>2, <2>1, <2>3, <2>4, <2>5
<1>6. CASE pc' = pc
   <2>1. pc' = [pc EXCEPT ![t] = s] BY <1>1, <1>6
   <2> QED BY <1>1, <1>2, <2>1
<1>7. CASE Given(t)
   <2>1. PICK r : Fit(r) /\ pc' = [pc EXCEPT ![t] = r] BY <1>7 DEF Given
   <2> QED BY <1>2, <2>1, FitShape
<1> QED BY <1>3, <1>4, <1>5, <1>6, <1>7 DEF Moves

\* What a step of t does to the node: a command is answered, or takes effect and its
\* answer is lost, or nothing happens there.
NodeStep(t) ==
  \/ Exec(t)
  \/ /\ Step(t) \in HasEffect /\ Accepts(t) /\ Effect(t) /\ Fail(t) /\ lost' = lost \cup {Key(t)}
     /\ UNCHANGED <<got, listed, inputs, wallet, ptr, nextAcctNum>>
  \/ /\ UNCHANGED <<created, loaded, accts, spent, lost, got, listed, inputs>>
     /\ Step(t) \in Commands \ {"dial", "readAccount"} => pc'[t] = <<>>

\* An error ends the call.
LEMMA FailEnds == ASSUME Base, NEW t \in Procs, Fail(t) PROVE pc'[t] = <<>>
BY DEF Base, TypeOK, Fail

\* What every step does to the node.
LEMMA NodeSteps == ASSUME Base, NEW t \in Procs, ProcStep(t) PROVE NodeStep(t) /\ UNCHANGED config
<1>1. CASE Look(t)
    BY <1>1 DEF Look, At, NodeStep, LookSteps, Commands, WalletCommands, PlainCommands, nodeVars, config
<1>2. CASE KeyOfAddress(t)
    BY <1>2 DEF KeyOfAddress, At, NodeStep, Commands, WalletCommands, PlainCommands, nodeVars,
       localVars, config
<1>3. CASE MapLock(t)
    BY <1>3 DEF MapLock, At, NodeStep, Commands, WalletCommands, PlainCommands, nodeVars, localVars,
       config
<1>4. CASE TxLock(t)
    BY <1>4 DEF TxLock, At, NodeStep, Commands, WalletCommands, PlainCommands, nodeVars, localVars,
       config
<1>5. CASE MuLock(t)
    BY <1>5 DEF MuLock, At, NodeStep, Commands, WalletCommands, PlainCommands, nodeVars, localVars,
       config
<1>6. CASE Go(t)
    BY <1>6 DEF Go, At, NodeStep, Commands, WalletCommands, PlainCommands, nodeVars, localVars,
       history, config
<1>7. CASE MapUnlock(t)
    BY <1>7 DEF MapUnlock, At, NodeStep, Commands, WalletCommands, PlainCommands, nodeVars, localVars,
       config
<1>8. CASE Number(t)
    BY <1>8 DEF Number, At, NodeStep, Commands, WalletCommands, PlainCommands, nodeVars, localVars,
       config
<1>9. CASE TxUnlock(t)
    BY <1>9 DEF TxUnlock, At, NodeStep, Commands, WalletCommands, PlainCommands, nodeVars, localVars,
       config
<1>10. CASE Exec(t) BY <1>10 DEF NodeStep, Exec, config
<1>11. CASE Rejected(t)
   <2>1. pc'[t] = <<>> BY <1>11, FailEnds DEF Rejected
   <2> QED BY <1>11, <2>1 DEF Rejected, NodeStep, nodeVars, localVars, config
<1>12. CASE Undefined(t) BY <1>12 DEF Undefined, At, NodeStep, nodeVars, config
<1>13. CASE Version(t)
    BY <1>13 DEF Version, At, NodeStep, Commands, WalletCommands, PlainCommands, nodeVars, localVars,
       config
<1>14. CASE Up(t)
    BY <1>14 DEF Up, At, NodeStep, Commands, WalletCommands, PlainCommands, nodeVars, localVars, config
<1>15. CASE Wait(t)
    BY <1>15 DEF Wait, At, NodeStep, Commands, WalletCommands, PlainCommands, nodeVars, localVars,
       history, config
<1>16. CASE Waited(t)
    BY <1>16 DEF Waited, At, NodeStep, Commands, WalletCommands, PlainCommands, nodeVars, localVars,
       config
<1>17. CASE Faulty(t)
   <2>1. pc'[t] = <<>> BY <1>17, FailEnds DEF Faulty
   <2> QED BY <1>17, <2>1 DEF Faulty, NodeStep, nodeVars, localVars, config
<1>18. CASE DialAgain(t) BY <1>18 DEF DialAgain, At, NodeStep, nodeVars, localVars, config
<1>19. CASE WaitFails(t)
    BY <1>19 DEF WaitFails, At, NodeStep, Commands, WalletCommands, PlainCommands, nodeVars, localVars,
       config
<1> QED BY <1>1, <1>2, <1>3, <1>4, <1>5, <1>6, <1>7, <1>8, <1>9, <1>10, <1>11, <1>12, <1>13, <1>14,
           <1>15, <1>16, <1>17, <1>18, <1>19
      DEF ProcStep, Acquire, Advance, Errors

\* What a step of t does to MapAccess, geth's count and the pointers.
MapStep(t) ==
  /\ \/ mapAccess' = mapAccess
     \/ Step(t) \in {"reserveName", "mapLock", "keyOfAddress"} /\ mapAccess = None /\ mapAccess' = t
     \/ Step(t) = "mapUnlock" /\ mapAccess' = None
     \/ mapAccess = t /\ mapAccess' = None /\ pc'[t] = <<>>
  /\ Step(t) \in {"reserveName", "mapLock"} /\ pc'[t] # <<>> => mapAccess' = t
  /\ Step(t) = "reserveName" /\ pc'[t] # <<>> => Entry(t) = 0
  /\ nextAcctNum' = IF Step(t) = "number" /\ family = "geth" THEN nextAcctNum + 1 ELSE nextAcctNum
  /\ ptr' = ptr \/ \E p \in Nat : ptr' = [ptr EXCEPT ![t] = p]
  /\ ptr' = ptr \/ Step(t) \in LookSteps \cup {"reserveName", "mapLock"}
  /\ Step(t) = "forUse" /\ pc'[t] # <<>> => Entry(t) # 0 /\ ptr'[t] = Entry(t)
  /\ Step(t) = "forNewAddress" /\ family = "utxo" /\ pc'[t] # <<>> => Entry(t) # 0

\* What every step does to MapAccess and the pointers.
LEMMA MapSteps == ASSUME Base, NEW t \in Procs, ProcStep(t) PROVE MapStep(t)
<1> USE DEF MapStep, At
<1>1. Fail(t) => pc'[t] = <<>> /\ mapAccess' = IF mapAccess = t THEN None ELSE mapAccess
    BY FailEnds DEF Fail
<1>2. ptr \in [Procs -> Nat] BY DEF Base, TypeOK
<1>3. CASE Look(t)
   <2>1. Busy(t) /\ Step(t) \in LookSteps /\ UNCHANGED nextAcctNum BY <1>3 DEF Look
   <2>2. CASE Refused(t)
      <3>1. Fail(t) /\ UNCHANGED ptr BY <1>3, <2>2 DEF Look
      <3> QED BY <1>1, <2>1, <3>1 DEF LookSteps
   <2>3. CASE ~Refused(t)
      <3>1. Looked(t) /\ UNCHANGED mapAccess BY <1>3, <2>3 DEF Look
      <3>2. obj \in Seq(NodeWallet) /\ Len(obj) + 1 \in Nat BY DEF Base, TypeOK
      <3>3. Entry(t) \in Nat BY <2>1, HeadFacts DEF LookSteps
      <3>4. ptr' = ptr \/ ptr' = [ptr EXCEPT ![t] = Len(obj) + 1] \/ ptr' = [ptr EXCEPT ![t] = Entry(t)]
          BY <3>1 DEF Looked
      <3>5. Step(t) = "forUse" => Entry(t) # 0 /\ ptr' = [ptr EXCEPT ![t] = Entry(t)]
          BY <2>3, <3>1 DEF Looked, Refused
      <3>6. Step(t) \notin {"reserveName", "mapLock", "number"} BY <2>1 DEF LookSteps
      <3>7. Step(t) = "forNewAddress" /\ family = "utxo" => Entry(t) # 0 BY <2>3 DEF Refused
      <3> QED BY <1>2, <2>1, <3>1, <3>2, <3>3, <3>4, <3>5, <3>6, <3>7
   <2> QED BY <2>2, <2>3
<1>4. CASE KeyOfAddress(t) BY <1>4 DEF KeyOfAddress, localVars
<1>5. CASE MapLock(t)
   <2>1. Step(t) \in {"reserveName", "mapLock"} /\ mapAccess = None /\ UNCHANGED nextAcctNum /\ Busy(t)
       BY <1>5 DEF MapLock
   <2>2. Entry(t) \in Nat BY <2>1, HeadFacts
   <2> QED BY <1>1, <1>5, <2>1, <2>2 DEF MapLock
<1>6. CASE TxLock(t) BY <1>6 DEF TxLock, localVars
<1>7. CASE MuLock(t) BY <1>7, <1>1 DEF MuLock, localVars
<1>8. CASE Go(t) BY <1>8 DEF Go, localVars, mapVars
<1>9. CASE MapUnlock(t) BY <1>9 DEF MapUnlock, localVars
<1>10. CASE Number(t) BY <1>10 DEF Number, localVars
<1>11. CASE TxUnlock(t) BY <1>11 DEF TxUnlock, localVars
<1>12. CASE Exec(t)
   <2>1. UNCHANGED <<mapAccess, ptr, nextAcctNum>> /\ Step(t) \in Commands
       BY <1>12 DEF Exec, Store, localVars
   <2> QED BY <2>1 DEF Commands, WalletCommands, PlainCommands
<1>13. CASE Rejected(t)
   <2>1. Fail(t) /\ UNCHANGED <<ptr, nextAcctNum>> /\ Step(t) \in Commands
       BY <1>13 DEF Rejected, localVars
   <2> QED BY <1>1, <2>1 DEF Commands, WalletCommands, PlainCommands
<1>14. CASE Undefined(t) BY <1>1, <1>14 DEF Undefined
<1>15. CASE Version(t) BY <1>1, <1>15 DEF Version, localVars
<1>16. CASE Up(t) BY <1>16 DEF Up, localVars
<1>17. CASE Wait(t) BY <1>17 DEF Wait, localVars, mapVars
<1>18. CASE Waited(t) BY <1>18 DEF Waited, localVars
<1>19. CASE Faulty(t)
   <2>1. Fail(t) /\ UNCHANGED <<ptr, nextAcctNum>> /\ Step(t) \in Commands
       BY <1>19 DEF Faulty, localVars
   <2> QED BY <1>1, <2>1 DEF Commands, WalletCommands, PlainCommands
<1>20. CASE DialAgain(t) BY <1>20 DEF DialAgain, localVars, mapVars
<1>21. CASE WaitFails(t) BY <1>1, <1>21 DEF WaitFails, localVars
<1> QED BY <1>3, <1>4, <1>5, <1>6, <1>7, <1>8, <1>9, <1>10, <1>11, <1>12, <1>13, <1>14, <1>15, <1>16,
           <1>17, <1>18, <1>19, <1>20, <1>21
      DEF ProcStep, Acquire, Advance, Errors

\* Start is the first call.
Fresh == calls \in Nat /\ (calls = 0 => ~started /\ \A t \in Procs : pc[t] = <<>>)

\* The other steps: the test, the chain and the mining goroutine's timer.
EnvStep == CallStart \/ NewBlock \/ MiningFails \/ Appears \/ Stop \/ (\E t \in Threads : Call(t))
  \/ UNCHANGED vars

\* An idle goroutine was given a script.
Begun == \E t \in Procs : pc[t] = <<>> /\ Given(t)

\* The other steps touch no wallet, lock or node, and give scripts that fit.
LEMMA EnvSteps ==
  ASSUME Base, Fresh, EnvStep
  PROVE
  /\ UNCHANGED <<config, mapAccess, wallet, obj, nextAcctNum, ptr, got, listed, inputs, created,
       loaded, accts, spent, failed, lost>>
  /\ pc' = pc \/ Begun
  /\ Fresh'
<1>1. TypeOK /\ Threads \subseteq Procs /\ Miner \in Procs /\ 1 \in Procs
    BY WalletsAssumption DEF Base, Procs
<1> USE DEF Fresh, Begun, Given
<1>2. CASE CallStart
   <2>1. Fit(Do(Start, Faucet)) BY <1>1, CallScripts
   <2>2. pc[1] = <<>> BY <1>1, <1>2 DEF CallStart
   <2>3. UNCHANGED <<config, mapAccess, wallet, obj, nextAcctNum, ptr, got, listed, inputs, created,
         loaded, accts, spent, failed, lost>>
      BY <1>2 DEF CallStart, mapVars, localVars, nodeVars, history
   <2>4. Begun BY <1>1, <1>2, <2>1, <2>2 DEF CallStart
   <2>5. Fresh' BY <1>2 DEF CallStart
   <2> QED BY <2>3, <2>4, <2>5
<1>3. CASE NewBlock
   <2>1. UNCHANGED <<config, mapAccess, wallet, obj, nextAcctNum, ptr, got, listed, inputs, created,
         loaded, accts, spent, failed, lost>>
      BY <1>3 DEF NewBlock, mapVars, localVars, nodeVars, history
   <2>2. pc' = pc \/ (litecoin /\ started /\ pc' = [pc EXCEPT ![Miner] = MwebScript])
       BY <1>3 DEF NewBlock
   <2>3. CASE litecoin /\ started /\ pc' = [pc EXCEPT ![Miner] = MwebScript]
      <3>1. Fit(MwebScript) BY <1>1, <2>3, MwebFits
      <3>2. pc[Miner] = <<>> BY <1>1, <1>3, <2>3 DEF NewBlock, TypeOK, Utxo, Busy
      <3>3. Begun BY <1>1, <2>3, <3>1, <3>2
      <3>4. Fresh' BY <1>3, <2>3 DEF NewBlock
      <3> QED BY <2>1, <3>3, <3>4
   <2>4. CASE pc' = pc
      <3>1. Fresh' BY <1>3, <2>4 DEF NewBlock
      <3> QED BY <2>1, <2>4, <3>1
   <2> QED BY <2>2, <2>3, <2>4
<1>4. CASE MiningFails \/ Stop BY <1>4 DEF MiningFails, Stop, mapVars, localVars, nodeVars, history
<1>5. CASE Appears BY <1>5 DEF Appears, mapVars, localVars, chainVars, history
<1>6. ASSUME NEW t \in Threads, Call(t) PROVE
        /\ UNCHANGED <<config, mapAccess, wallet, obj, nextAcctNum, ptr, got, listed, inputs, created,
             loaded, accts, spent, failed, lost>>
        /\ Begun /\ Fresh'
   <2>1. PICK op \in OpsOf(family), k \in Users[family] \cup {Faucet, Stranger} :
           (k = Stranger => op = "GetBalance") /\ pc' = [pc EXCEPT ![t] = Do(Script(op, k), k)]
       BY <1>6 DEF Call
   <2>2. Fit(Do(Script(op, k), k)) BY <1>1, <2>1, CallScripts
   <2>3. UNCHANGED <<config, mapAccess, wallet, obj, nextAcctNum, ptr, got, listed, inputs, created,
         loaded, accts, spent, failed, lost>>
      BY <1>6 DEF Call, mapVars, localVars, nodeVars, history
   <2>4. pc[t] = <<>> BY <1>6 DEF Call, Busy
   <2>5. Begun BY <1>1, <2>1, <2>2, <2>4
   <2>6. Fresh' BY <1>6 DEF Call
   <2> QED BY <2>3, <2>5, <2>6
<1>7. CASE UNCHANGED vars BY <1>7 DEF vars, config, mapVars, localVars, chainVars, nodeVars, history
<1> QED BY <1>2, <1>3, <1>4, <1>5, <1>6, <1>7 DEF EnvStep

\* Only Start and Call count calls.
LEMMA CallsKept == ASSUME NEW t \in Procs, ProcStep(t) PROVE calls' = calls
<1>1. Acquire(t) => calls' = calls BY DEF Acquire, Look, KeyOfAddress, MapLock, TxLock, MuLock, Go
<1>2. Advance(t) => calls' = calls
   BY DEF Advance, MapUnlock, Number, TxUnlock, Exec, Rejected, Undefined, Version, Up, Wait, Waited
<1>3. Errors(t) => calls' = calls BY DEF Errors, Faulty, DialAgain, WaitFails
<1> QED BY <1>1, <1>2, <1>3 DEF ProcStep

----------------------------------------------------------------------------
(* The first layer is inductive. *)

\* The node's state and the answers keep their types.
LEMMA NodeTypes ==
  ASSUME Base, NEW t \in Procs, ProcStep(t)
  PROVE
  /\ got' \in [Procs -> Nat] /\ listed' \in [Procs -> SUBSET Outputs]
       /\ inputs' \in [Procs -> SUBSET Outputs]
  /\ accts' \in Seq(Keys \X {"new", "import"})
  /\ created' \in SUBSET Keys /\ loaded' \in SUBSET Keys /\ lost' \in SUBSET Keys
  /\ spent' \in [Keys -> SUBSET Outputs]
<1>1. TypeOK /\ Busy(t) /\ NodeStep(t) BY Outcomes, NodeSteps DEF Base
<1> DEFINE N == /\ accts' \in Seq(Keys \X {"new", "import"}) /\ created' \in SUBSET Keys /\ loaded' \in SUBSET Keys
                /\ spent' \in [Keys -> SUBSET Outputs]
           L == got' \in [Procs -> Nat] /\ listed' \in [Procs -> SUBSET Outputs]
             /\ inputs' \in [Procs -> SUBSET Outputs]
<1>2. ASSUME Step(t) \in Commands, Effect(t) PROVE N /\ Key(t) \in Keys
   <2>1. Key(t) \in Keys BY <1>1, <1>2, HeadFacts DEF Commands, WalletCommands, PlainCommands
   <2>2. \A how \in {"new", "import"} : Append(accts, <<Key(t), how>>) \in Seq(Keys \X {"new", "import"})
      BY <1>1, <2>1 DEF TypeOK
   <2>3. \A x \in SUBSET Outputs : [spent EXCEPT ![Key(t)] = @ \cup x] \in [Keys -> SUBSET Outputs]
       BY <1>1, <2>1 DEF TypeOK
   <2>4. inputs[t] \in SUBSET Outputs /\ {} \in SUBSET Outputs /\ Unspent(Key(t)) \in SUBSET Outputs
       BY <1>1, <2>1 DEF TypeOK, Unspent
   <2>5. CASE Step(t) \in {"getnewaddress", "accountNew", "import"}
       BY <1>1, <1>2, <2>1, <2>2, <2>5 DEF Effect, TypeOK
   <2>6. CASE Step(t) \in {"createwallet", "loading", "unloading"}
       BY <1>1, <1>2, <2>1, <2>6 DEF Effect, TypeOK
   <2>7. CASE Step(t) = "sendrawtransaction" BY <1>1, <1>2, <2>1, <2>3, <2>4, <2>7 DEF Effect, TypeOK
   <2>8. CASE Step(t) = "sendtoaddress"
      <3>1. PICK chosen \in {{}, Unspent(Key(t))} : spent' = [spent EXCEPT ![Key(t)] = @ \cup chosen]
          BY <1>2, <2>8 DEF Effect
      <3>2. UNCHANGED <<created, loaded, accts>> BY <1>2, <2>8 DEF Effect
      <3>3. spent' \in [Keys -> SUBSET Outputs] BY <2>3, <2>4, <3>1
      <3>4. accts \in Seq(Keys \X {"new", "import"}) /\ created \in SUBSET Keys /\ loaded \in SUBSET Keys
          BY <1>1 DEF TypeOK
      <3>5. N BY <3>2, <3>3, <3>4
      <3> QED BY <2>1, <3>5
   <2>9. CASE Step(t) \notin HasEffect BY <1>1, <1>2, <2>1, <2>9 DEF Effect, TypeOK, nodeVars, HasEffect
   <2> QED BY <2>5, <2>6, <2>7, <2>8, <2>9 DEF HasEffect
<1>3. ASSUME Step(t) \in Commands, Store(t) PROVE L
   <2>1. Key(t) \in Keys BY <1>1, <1>3, HeadFacts DEF Commands, WalletCommands, PlainCommands
   <2>2. Len(accts) + 1 \in Nat BY <1>1 DEF TypeOK
   <2>3. CASE Step(t) \in {"getnewaddress", "accountNew", "import"}
       BY <1>1, <1>3, <2>2, <2>3 DEF Store, TypeOK
   <2>4. CASE Step(t) = "listunspent"
      <3>1. Unspent(Key(t)) \in SUBSET Outputs BY <1>1, <2>1 DEF TypeOK, Unspent
      <3> QED BY <1>1, <1>3, <2>4, <3>1 DEF Store, TypeOK
   <2>5. CASE Step(t) = "createrawtransaction"
      <3>1. PICK last \in listed[t] : inputs' = [inputs EXCEPT ![t] = {o \in listed[t] : o <= last}]
          BY <1>3, <2>5 DEF Store
      <3>2. {o \in listed[t] : o <= last} \in SUBSET Outputs BY <1>1 DEF TypeOK
      <3> QED BY <1>1, <1>3, <2>5, <3>1, <3>2 DEF Store, TypeOK
   <2>6. CASE Step(t) \notin {"getnewaddress", "accountNew", "import", "listunspent",
         "createrawtransaction"}
      BY <1>1, <1>3, <2>6 DEF Store, TypeOK, localVars
   <2> QED BY <2>3, <2>4, <2>5, <2>6
<1>4. CASE Exec(t)
   <2>1. Step(t) \in Commands /\ Effect(t) /\ Store(t) /\ lost' = lost BY <1>4 DEF Exec, At
   <2> QED BY <1>1, <1>2, <1>3, <2>1 DEF TypeOK
<1>5. CASE Step(t) \in HasEffect /\ Effect(t) /\ lost' = lost \cup {Key(t)}
      /\ UNCHANGED <<got, listed, inputs>>
   <2>1. Step(t) \in Commands BY <1>5 DEF HasEffect, Commands, WalletCommands
   <2> QED BY <1>1, <1>2, <1>5, <2>1 DEF TypeOK
<1>6. CASE UNCHANGED <<created, loaded, accts, spent, lost, got, listed, inputs>>
    BY <1>1, <1>6 DEF TypeOK
<1> QED BY <1>1, <1>4, <1>5, <1>6 DEF NodeStep

\* The first layer, under a step of a goroutine.
LEMMA BaseProc == ASSUME Base, NEW t \in Procs, ProcStep(t) PROVE Base'
<1>1. TypeOK /\ Busy(t) /\ UNCHANGED config /\ MapStep(t) /\ Moves(t)
    BY Outcomes, NodeSteps, MapSteps, Moving DEF Base
<1>2. pc' \in [Procs -> Scripts] /\ Shaped' BY <1>1, Shapes
<1>3. /\ obj' \in Seq(NodeWallet) /\ (\A i \in DOMAIN obj : ObjStep(t, i))
      /\ (wallet' = wallet /\ DOMAIN obj' = DOMAIN obj) \/ Grown(t) BY ObjSteps
<1>4. Grown(t) => Key(t) \in Keys BY <1>1, HeadFacts DEF Grown, Makers
<1>5. obj \in Seq(NodeWallet) /\ Len(obj) + 1 \in Nat /\ wallet \in [Keys -> Nat] BY <1>1 DEF TypeOK
<1>6. wallet' \in [Keys -> Nat] BY <1>3, <1>4, <1>5 DEF Grown
<1>7. nextAcctNum' \in Nat /\ ptr' \in [Procs -> Nat] /\ mapAccess' \in Procs \cup {None}
   <2>1. ptr \in [Procs -> Nat] /\ nextAcctNum \in Nat /\ mapAccess \in Procs \cup {None}
       BY <1>1 DEF TypeOK
   <2>2. nextAcctNum' \in Nat BY <1>1, <2>1 DEF MapStep
   <2>3. ptr' \in [Procs -> Nat] BY <1>1, <2>1 DEF MapStep
   <2>4. mapAccess' \in Procs \cup {None} BY <1>1, <2>1 DEF MapStep
   <2> QED BY <2>2, <2>3, <2>4
<1>8. TypeOK'
    BY <1>1, <1>2, <1>3, <1>6, <1>7, NodeTypes DEF TypeOK, config, Scripts, Names, KeyNames, NodeWallet
<1>9. ASSUME NEW k \in Keys, wallet'[k] # 0 PROVE wallet'[k] \in DOMAIN obj' /\ obj'[wallet'[k]].key = k
   <2>1. CASE wallet'[k] = wallet[k]
      <3>1. wallet[k] \in DOMAIN obj /\ obj[wallet[k]].key = k BY <1>9, <2>1 DEF Base, Mapped
      <3> QED BY <1>3, <2>1, <3>1 DEF ObjStep
   <2>2. CASE wallet'[k] # wallet[k]
      <3>1. Grown(t) BY <1>3, <2>2
      <3>2. k = Key(t) /\ wallet'[k] = Len(obj) + 1 BY <1>4, <1>5, <2>2, <3>1 DEF Grown
      <3> QED BY <3>1, <3>2 DEF Grown, NewObj
   <2> QED BY <2>1, <2>2
<1>10. Mapped' BY <1>9 DEF Mapped
<1> QED BY <1>2, <1>8, <1>10 DEF Base

\* Under the others.
LEMMA BaseEnv == ASSUME Base, Fresh, EnvStep PROVE Base'
<1>1. /\ UNCHANGED <<config, mapAccess, wallet, obj, nextAcctNum, ptr, got, listed, inputs, created,
           loaded, accts, spent, failed, lost>>
      /\ pc' = pc \/ Begun BY EnvSteps
<1>2. TypeOK /\ Mapped /\ Shaped BY DEF Base
<1>3. pc' \in [Procs -> Scripts] /\ \A u \in Procs : Shape(pc'[u]) /\ Known(pc'[u])
   <2>1. CASE pc' = pc BY <1>2, <2>1 DEF TypeOK, Shaped
   <2>2. CASE Begun
      <3>1. PICK t \in Procs : pc[t] = <<>> /\ Given(t) BY <2>2 DEF Begun
      <3>2. PICK s : Fit(s) /\ pc' = [pc EXCEPT ![t] = s] BY <3>1 DEF Given
      <3>3. s \in Scripts /\ Shape(s) /\ Known(s) BY <3>2, FitShape
      <3> QED BY <1>2, <3>2, <3>3 DEF TypeOK, Shaped
   <2> QED BY <1>1, <2>1, <2>2
<1>4. \A u \in Procs : Shape(pc[u])'
   <2> TAKE u \in Procs
   <2>1. \A x : Shape(x)' <=> Shape(x) BY <1>1, ShapeStable
   <2> QED BY <1>3, <2>1
<1>5. Shaped' BY <1>3, <1>4 DEF Shaped, Known
<1>6. TypeOK' BY <1>1, <1>2, <1>3 DEF TypeOK, config, Scripts, Names, KeyNames, NodeWallet
<1>7. Mapped' BY <1>1, <1>2 DEF Mapped
<1> QED BY <1>5, <1>6, <1>7 DEF Base

\* Initially.
LEMMA BaseInit == ASSUME Init PROVE Base /\ Fresh
<1>1. Faucet \in Keys /\ Faucet \in KeyNames BY KeyFacts
<1>2. <<>> \in Scripts /\ DOMAIN <<>> = {} BY EmptySeq DEF Scripts
<1>3. \A t \in Procs : pc[t] = <<>> BY DEF Init
<1>4. Shape(<<>>) /\ Known(<<>>) BY <1>2 DEF Shape, Linked, Ordered, Has, Nested, Paired, Known
<1>5. Shaped BY <1>3, <1>4 DEF Shaped
<1>6. NewWallet(Faucet, 1, 0) \in NodeWallet /\ NewWallet(Faucet, 1, 0).key = Faucet
    BY <1>1 DEF NewWallet, NodeWallet
<1>7. obj \in Seq(NodeWallet) BY <1>6 DEF Init
<1>8. accts \in Seq(Keys \X {"new", "import"})
   <2>1. <<Faucet, "new">> \in Keys \X {"new", "import"} BY <1>1
   <2>2. CASE family = "geth"
      <3>1. accts = <<<<Faucet, "new">>>> BY <2>2 DEF Init
      <3> DEFINE p == <<Faucet, "new">>  S == Keys \X {"new", "import"}
      <3>2. p \in S BY <2>1
      <3> HIDE DEF p, S
      <3>3. <<p>> \in Seq(S) BY <3>2
      <3>4. accts \in Seq(S) BY <3>1, <3>3 DEF p
      <3> QED BY <3>4 DEF S
   <2>3. CASE family # "geth"
      <3>1. accts = <<>> BY <2>3 DEF Init
      <3> QED BY <3>1
   <2> QED BY <2>2, <2>3
<1>9. /\ family \in Families /\ unloadAfterUse \in BOOLEAN /\ litecoin \in BOOLEAN
      /\ (litecoin \/ unloadAfterUse => family = "utxo")
   <2>1. family \in Families BY DEF Init
   <2>2. PICK c \in IF family = "utxo" THEN UtxoConfigs ELSE {<<FALSE,
         FALSE>>} : unloadAfterUse = c[1] /\ litecoin = c[2]
       BY DEF Init
   <2>3. CASE family = "utxo"
      <3>1. c \in BOOLEAN \X BOOLEAN BY <2>2, <2>3, WalletsAssumption
      <3> QED BY <2>1, <2>2, <2>3, <3>1
   <2>4. CASE family # "utxo"
      <3>1. c = <<FALSE, FALSE>> BY <2>2, <2>4
      <3>2. c[1] = FALSE /\ c[2] = FALSE BY <3>1
      <3> QED BY <2>1, <2>2, <3>2
   <2> QED BY <2>3, <2>4
<1>10. /\ mapAccess \in Procs \cup {None} /\ nextAcctNum \in Nat /\ wallet \in [Keys -> Nat]
            /\ pc \in [Procs -> Scripts]
       /\ ptr \in [Procs -> Nat] /\ got \in [Procs -> Nat] /\ listed \in [Procs -> SUBSET Outputs]
            /\ inputs \in [Procs -> SUBSET Outputs]
       /\ created \in SUBSET Keys /\ loaded \in SUBSET Keys /\ lost \in SUBSET Keys
            /\ spent \in [Keys -> SUBSET Outputs]
   BY <1>2 DEF Init
<1>11. TypeOK BY <1>7, <1>8, <1>9, <1>10 DEF TypeOK
<1>12. Mapped
   <2> SUFFICES ASSUME NEW k \in Keys, wallet[k] # 0 PROVE wallet[k] \in DOMAIN obj
         /\ obj[wallet[k]].key = k
       BY DEF Mapped
   <2>1. family = "geth" /\ k = Faucet /\ wallet[k] = 1 /\ obj = <<NewWallet(Faucet, 1, 0)>> BY DEF Init
   <2> QED BY <1>6, <2>1
<1>13. Fresh BY DEF Init, Fresh
<1> QED BY <1>5, <1>11, <1>12, <1>13 DEF Base

\* Calls are counted before any step runs.
LEMMA FreshProc == ASSUME Base, Fresh, NEW t \in Procs, ProcStep(t) PROVE Fresh'
BY Outcomes, CallsKept DEF Fresh, Busy

----------------------------------------------------------------------------
(* The second layer: accounts. *)

\* When a follower becomes the first step, its predecessor has just been done.
LEMMA NewHead ==
  ASSUME Base, NEW t \in Procs, ProcStep(t), pc'[t] # <<>>,
         pc'[t][1][1] \in Followers \ {"loading", "unloading"}
  PROVE
  \/ Tailed(t) /\ 2 \in DOMAIN pc[t] /\ pc'[t][1] = pc[t][2] /\ Step(t) \in Before(pc'[t][1][1])
       /\ Key(t) = pc'[t][1][2]
  \/ pc' = pc /\ Step(t) = "readAccount"
<1> DEFINE s == pc[t]
<1>1. Busy(t) /\ Moves(t) /\ pc \in [Procs -> Scripts] BY Outcomes, Moving DEF Base, TypeOK
<1>2. s \in Scripts /\ s # <<>> /\ 1 \in DOMAIN s /\ Linked(s, FALSE)
    BY <1>1, HeadFacts DEF Base, Shaped, Shape
<1>3. CASE Tailed(t)
   <2>1. pc'[t] = Tail(s) BY <1>1, <1>3 DEF Tailed
   <2>2. Tail(s) \in Scripts /\ 1 \in DOMAIN Tail(s) BY <1>2, <2>1, TailFacts, ScriptFacts
   <2>3. 2 \in DOMAIN s /\ Tail(s)[1] = s[2] BY <1>2, <2>2, TailFacts
   <2>4. LinkedAt(s, FALSE, 2) BY <1>2, <2>3 DEF Linked, LinkedAt
   <2>5. s[1] \in Before(s[2][1]) \X {s[2][2]} BY <2>1, <2>3, <2>4 DEF LinkedAt
   <2>6. s[1][1] \in Before(s[2][1]) /\ s[1][2] = s[2][2] BY <2>5
   <2> QED BY <1>3, <2>1, <2>3, <2>6 DEF Step, Key
<1>4. CASE Dropped(t) BY <1>1, <1>4 DEF Dropped
<1>5. CASE Renames(t)
   <2>1. PICK n : <<Step(t), n>> \in Turned /\ pc' = [pc EXCEPT ![t] = Renamed(s, n)]
       BY <1>5 DEF Renames
   <2>2. n \in Names BY <2>1 DEF Turned, Names, Commands, PlainCommands
   <2>3. Renamed(s, n)[1] = <<n, s[1][2]>> BY <1>2, <2>2, RenamedFacts
   <2>4. pc'[t][1][1] = n BY <1>1, <2>1, <2>3
   <2>5. n \notin Followers \ {"loading", "unloading"} BY <2>1 DEF Turned, Followers, WalletCommands
   <2> QED BY <2>4, <2>5
<1>6. CASE Given(t)
   <2>1. PICK r : Fit(r) /\ pc' = [pc EXCEPT ![t] = r] BY <1>6 DEF Given
   <2>2. r \in Scripts /\ Linked(r, TRUE) /\ pc'[t] = r BY <1>1, <2>1 DEF Fit, Sound
   <2>3. 1 \in DOMAIN r BY <2>2, ScriptFacts
   <2> QED BY <2>2, <2>3 DEF Linked
<1> QED BY <1>1, <1>3, <1>4, <1>5, <1>6 DEF Moves

\* No script starts with a follower.
LEMMA BegunHead ==
  ASSUME Base, pc' = pc \/ Begun, NEW u \in Procs, pc'[u] # <<>>, pc'[u][1][1] \in Followers
  PROVE  pc'[u] = pc[u]
<1>1. CASE Begun
   <2>1. PICK t \in Procs : \E r : Fit(r) /\ pc' = [pc EXCEPT ![t] = r] BY <1>1 DEF Begun, Given
   <2>2. PICK r : Fit(r) /\ pc' = [pc EXCEPT ![t] = r] BY <2>1
   <2>3. r \in Scripts /\ Linked(r, TRUE) /\ pc \in [Procs -> Scripts]
       BY <2>2 DEF Fit, Sound, Base, TypeOK
   <2>4. CASE u = t
      <3>1. pc'[u] = r /\ 1 \in DOMAIN r BY <2>2, <2>3, <2>4, ScriptFacts
      <3> QED BY <2>3, <3>1 DEF Linked
   <2> QED BY <2>2, <2>3, <2>4
<1> QED BY <1>1

\* What a step does to the accounts and to what a call got.
LEMMA Answers ==
  ASSUME Base, NEW t \in Procs, ProcStep(t)
  PROVE
  /\ accts' = accts \/ (\E how : Step(t) \in {"getnewaddress", "accountNew", "import"}
       /\ accts' = Append(accts, <<Key(t), how>>))
  /\ lost \subseteq lost' /\ \A u \in Procs : u # t => got'[u] = got[u]
  /\ Step(t) \in Commands \ {"dial", "readAccount"} /\ pc'[t] # <<>> => Exec(t)
  /\ accts' # accts => Exec(t) \/ lost' # {}
<1>1. NodeStep(t) /\ Base /\ got \in [Procs -> Nat] BY NodeSteps DEF Base, TypeOK
<1>2. Effect(t) => accts' = accts \/ (\E how : Step(t) \in {"getnewaddress", "accountNew", "import"}
      /\ accts' = Append(accts, <<Key(t), how>>))
   BY DEF Effect, nodeVars
<1>3. CASE Exec(t)
   <2>1. Effect(t) /\ Store(t) /\ lost' = lost BY <1>3 DEF Exec
   <2>2. got' = got \/ got' = [got EXCEPT ![t] = Len(accts) + 1] BY <2>1 DEF Store, localVars
   <2> QED BY <1>1, <1>2, <1>3, <2>1, <2>2
<1>4. CASE Step(t) \in HasEffect /\ Effect(t) /\ Fail(t) /\ lost' = lost \cup {Key(t)} /\ got' = got
   <2>1. pc'[t] = <<>> BY <1>1, <1>4, FailEnds
   <2> QED BY <1>2, <1>4, <2>1
<1>5. CASE /\ UNCHANGED <<accts, lost, got>>
           /\ Step(t) \in Commands \ {"dial", "readAccount"} => pc'[t] = <<>>
   BY <1>5
<1> QED BY <1>1, <1>3, <1>4, <1>5 DEF NodeStep

\* An account stays its key name's.
LEMMA Accounted ==
  ASSUME Base, NEW t \in Procs, ProcStep(t), NEW a, NEW k, AccountOf(a, k)
  PROVE  AccountOf(a, k)'
<1>1. accts \in Seq(Keys \X {"new", "import"}) BY DEF Base, TypeOK
<1>2. accts' = accts \/ \E x : accts' = Append(accts, x) BY Answers
<1>3. ASSUME NEW x, accts' = Append(accts, x) PROVE a \in DOMAIN accts' /\ accts'[a] = accts[a]
   <2>1. a \in 1..Len(accts) BY <1>1 DEF AccountOf
   <2> QED BY <1>1, <1>3, <2>1
<1> QED BY <1>2, <1>3 DEF AccountOf

\* The account a command makes is the step's key name's.
LEMMA NewAccount ==
  ASSUME Base, NEW t \in Procs, Exec(t),
         Step(t) \in {"getnewaddress", "accountNew", "import"}
  PROVE
  /\ got'[t] = Len(accts) + 1 /\ Len(accts) + 1 \in DOMAIN accts'
       /\ accts'[Len(accts) + 1][1] = Key(t) /\ Len(accts') = Len(accts) + 1 /\ Len(accts) \in Nat
<1>1. accts \in Seq(Keys \X {"new", "import"}) /\ got \in [Procs -> Nat] BY DEF Base, TypeOK
<1>2. Effect(t) /\ Store(t) BY DEF Exec
<1>3. \E how : accts' = Append(accts, <<Key(t), how>>) BY <1>2 DEF Effect
<1>4. got'[t] = Len(accts) + 1 BY <1>1, <1>2 DEF Store
<1>5. \A x : LET r == Append(accts, x) IN Len(r) = Len(accts) + 1 /\ Len(accts) + 1 \in DOMAIN r
      /\ r[Len(accts) + 1] = x /\ Len(accts) \in Nat
   BY <1>1
<1>6. PICK how : accts' = Append(accts, <<Key(t), how>>) BY <1>3
<1>7. Len(accts') = Len(accts) + 1 /\ Len(accts) + 1 \in DOMAIN accts'
      /\ accts'[Len(accts) + 1] = <<Key(t), how>> /\ Len(accts) \in Nat
   BY <1>5, <1>6
<1>8. Len(accts) + 1 \in DOMAIN accts' /\ accts'[Len(accts) + 1][1] = Key(t) BY <1>7
<1> QED BY <1>4, <1>7, <1>8 DEF AccountOf

\* A call's account is its own: only its own commands set it.
LEMMA GotOwnStep == ASSUME Base, OwnInv, NEW t \in Procs, ProcStep(t) PROVE GotOwn'
<1> SUFFICES ASSUME NEW u \in Procs, At(u, {"number", "setAddress", "put"})', (Step(u) = "put" =>
      family # "utxo")'
             PROVE AccountOf(got[u], Key(u))' BY DEF GotOwn
<1>1. UNCHANGED config /\ (\A v \in Procs : v # t => pc'[v] = pc[v] /\ got'[v] = got[v]) /\ Busy(t)
   BY Outcomes, NodeSteps, Moving, Shapes, Answers
<1>2. pc'[u] # <<>> /\ pc'[u][1][1] \in {"number", "setAddress", "put"} /\ (pc'[u][1][1] = "put" =>
      family # "utxo")
   BY <1>1 DEF At, Busy, Step, config
<1>3. CASE u # t
   <2>1. AccountOf(got[u], Key(u)) BY <1>1, <1>2, <1>3 DEF OwnInv, GotOwn, At, Busy, Step
   <2>2. got'[u] = got[u] /\ Key(u)' = Key(u) BY <1>1, <1>3 DEF Key
   <2>3. \A a, k : AccountOf(a, k) => a \in DOMAIN accts' /\ accts'[a][1] = k BY Accounted DEF AccountOf
   <2> QED BY <2>1, <2>2, <2>3 DEF AccountOf
<1>4. CASE u = t
   <2>1. pc'[t][1][1] \in Followers BY <1>2, <1>4 DEF Followers
   <2>2. CASE pc' = pc /\ Step(t) = "readAccount" BY <1>2, <1>4, <2>2 DEF Step
   <2>3. CASE Step(t) \in Before(pc'[t][1][1]) /\ Key(t) = pc'[t][1][2]
      <3>1. Step(t) \in {"accountNew", "import", "getnewaddress"} BY <1>2, <1>4, <2>3 DEF Before
      <3>2. Exec(t) BY <1>2, <1>4, <3>1, Answers DEF Commands, WalletCommands
      <3> QED BY <1>4, <2>3, <3>1, <3>2, NewAccount DEF AccountOf, Key
   <2> QED BY <1>2, <1>4, <2>1, <2>2, <2>3, NewHead
<1> QED BY <1>3, <1>4

\* geth's steps under MapAccess.
MapUsers == {"accountNew", "import", "number", "readAccount", "mapUnlock"}

\* MapAccess stays with the call that made an account until the number is given.
LEMMA MapHeldStep == ASSUME Base, OwnInv, NEW t \in Procs, ProcStep(t) PROVE MapHeld'
<1> SUFFICES ASSUME family' = "geth", NEW u \in Procs, At(u, MapUsers)' PROVE mapAccess' = u
    BY DEF MapHeld, MapUsers
<1>1. UNCHANGED config /\ (\A v \in Procs : v # t => pc'[v] = pc[v]) /\ Busy(t) /\ MapStep(t)
   BY Outcomes, NodeSteps, Moving, Shapes, MapSteps
<1>2. family = "geth" /\ pc'[u] # <<>> /\ pc'[u][1][1] \in MapUsers /\ None \notin Procs
   BY <1>1, WalletsAssumption DEF At, Busy, Step, config, MapUsers
<1>3. \A v \in Procs : At(v, MapUsers) => mapAccess = v BY <1>2 DEF OwnInv, MapHeld, MapUsers
<1>4. CASE u # t
   <2>1. mapAccess = u BY <1>1, <1>2, <1>3, <1>4 DEF At, Busy, Step
   <2>2. Step(t) # "mapUnlock" BY <1>1, <1>3, <1>4, <2>1 DEF At, MapUsers
   <2> QED BY <1>1, <1>2, <1>4, <2>1, <2>2 DEF MapStep
<1>5. CASE u = t
   <2>1. pc'[t][1][1] \in Followers \ {"loading", "unloading"} BY <1>2, <1>5 DEF Followers, MapUsers
   <2>2. CASE pc' = pc /\ Step(t) = "readAccount"
      <3>1. mapAccess = t BY <1>1, <1>3, <2>2 DEF At, MapUsers
      <3> QED BY <1>1, <1>2, <1>5, <2>2, <3>1 DEF MapStep
   <2>3. CASE Step(t) \in Before(pc'[t][1][1])
      <3>1. Step(t) \in {"reserveName", "mapLock", "accountNew", "import", "number", "readAccount"}
          BY <1>2, <1>5, <2>3 DEF Before, MapUsers
      <3>2. Step(t) \in {"reserveName", "mapLock"} \/ mapAccess = t BY <1>1, <1>3, <3>1 DEF At, MapUsers
      <3> QED BY <1>1, <1>2, <1>5, <3>1, <3>2 DEF MapStep
   <2> QED BY <1>2, <1>5, <2>1, <2>2, <2>3, NewHead
<1> QED BY <1>4, <1>5

\* An unused name that a call reserved stays unused: entries are made under MapAccess.
LEMMA ReservedStep == ASSUME Base, OwnInv, NEW t \in Procs, ProcStep(t) PROVE Reserved'
<1> DEFINE Held == Reserving \cup {"mapUnlock"}
<1> SUFFICES ASSUME ~Utxo', NEW u \in Procs, At(u, Reserving \cup {"mapUnlock"})'
             PROVE mapAccess' = u /\ (At(u, Reserving)' => Entry(u)' = 0)
   <2>1. \A u \in Procs : At(u, Reserving)' => At(u, Reserving \cup {"mapUnlock"})' BY DEF At
   <2> QED BY <2>1 DEF Reserved
<1>1. UNCHANGED config /\ (\A v \in Procs : v # t => pc'[v] = pc[v]) /\ Busy(t) /\ MapStep(t)
   BY Outcomes, NodeSteps, Moving, Shapes, MapSteps
<1>2. /\ ~Utxo /\ (family = "geth" \/ family = "anvil") /\ None \notin Procs
      /\ pc'[u] # <<>> /\ pc'[u][1][1] \in Held
      /\ (At(u, Reserving)' => pc'[u][1][1] \in Reserving)
   BY <1>1, WalletsAssumption DEF At, Busy, Step, config, Utxo, Base, TypeOK, Reserving
<1>3. \A v \in Procs : (At(v, Held) => mapAccess = v) /\ (At(v, Reserving) => Entry(v) = 0)
   BY <1>2 DEF OwnInv, Reserved
<1>4. (wallet' = wallet \/ Grown(t)) /\ wallet \in [Keys -> Nat] BY ObjSteps DEF Base, TypeOK
<1>5. CASE u # t
   <2>1. At(u, Held) /\ (At(u, Reserving)' => At(u, Reserving)) BY <1>1, <1>2, <1>5 DEF At, Busy, Step
   <2>2. mapAccess = u /\ Step(t) # "mapUnlock" /\ Step(t) # "number"
      BY <1>1, <1>3, <1>5, <2>1 DEF At, Reserving
   <2>3. mapAccess' = u BY <1>1, <1>2, <1>5, <2>2 DEF MapStep
   <2>4. wallet' = wallet BY <1>2, <1>4, <2>2 DEF Grown
   <2> QED BY <1>1, <1>3, <1>5, <2>1, <2>3, <2>4 DEF Entry, Key
<1>6. CASE u = t
   <2>1. pc'[t][1][1] \in Followers \ {"loading", "unloading"} BY <1>2, <1>6 DEF Followers, Reserving
   <2>2. CASE pc' = pc /\ Step(t) = "readAccount"
      <3>1. Step(t) \in Held BY <1>2, <1>6, <2>2 DEF Step
      <3> QED BY <2>2, <3>1 DEF Reserving
   <2>3. CASE Step(t) \in Before(pc'[t][1][1]) /\ Key(t) = pc'[t][1][2]
      <3>1. /\ Step(t) \in {"reserveName", "readAccount"} \cup Reserving
            /\ pc'[t][1][1] \in Reserving => Step(t) \in {"reserveName"} \cup Reserving
            /\ Step(t) = "readAccount" => family = "geth"
            /\ pc'[t][1][1] \in Reserving => Step(t) # "number"
          BY <1>2, <1>6, <2>3 DEF Before, Reserving
      <3>2. Step(t) = "reserveName" \/ mapAccess = t
          BY <1>1, <1>3, <3>1 DEF At, OwnInv, MapHeld
      <3>3. mapAccess' = t BY <1>1, <1>2, <1>6, <3>1, <3>2 DEF MapStep, Reserving
      <3>4. ASSUME pc'[t][1][1] \in Reserving PROVE wallet'[Key(t)] = 0
         <4>1. Entry(t) = 0 BY <1>1, <1>2, <1>3, <1>6, <3>1, <3>4 DEF At, MapStep
         <4>2. Step(t) \notin Makers BY <3>1, <3>4 DEF Makers, Reserving
         <4> QED BY <1>4, <4>1, <4>2 DEF Grown, Entry
      <3> QED BY <1>2, <1>6, <2>3, <3>3, <3>4 DEF Entry, Key
   <2> QED BY <1>2, <1>6, <2>1, <2>2, <2>3, NewHead
<1> QED BY <1>5, <1>6

\* geth's count and the node's agree: nobody else makes an account in between.
LEMMA NumberedStep == ASSUME Base, OwnInv, NEW t \in Procs, ProcStep(t) PROVE Numbered'
<1> SUFFICES ASSUME family' = "geth", lost' = {} PROVE
      /\ \A u \in Procs : At(u, {"number"})' => Len(accts') = nextAcctNum'
           /\ AccountOf(nextAcctNum, Key(u))'
      /\ (\A u \in Procs : ~At(u, {"number"})') => Len(accts') + 1 = nextAcctNum' BY DEF Numbered
<1>1. UNCHANGED config /\ (\A v \in Procs : v # t => pc'[v] = pc[v]) /\ Busy(t) /\ MapStep(t)
   BY Outcomes, NodeSteps, Moving, Shapes, MapSteps
<1>2. family = "geth" /\ lost = {} /\ nextAcctNum \in Nat /\ Len(accts) \in Nat
    BY <1>1, Answers DEF config, Base, TypeOK
<1>3. \A v \in Procs : At(v, MapUsers) => mapAccess = v BY <1>2 DEF OwnInv, MapHeld, MapUsers
<1>4. \A u \in Procs : u # t => (At(u, {"number"})' <=> At(u, {"number"})) /\ Key(u)' = Key(u)
    BY <1>1 DEF At, Busy, Step, Key
<1>5. \A u, v \in Procs : At(u, {"number"}) /\ At(v, MapUsers) => u = v BY <1>3 DEF At, MapUsers
<1>6. At(t, {"number"})' => /\ Step(t) \in {"accountNew", "import"} /\ Key(t)' = Key(t) /\ Exec(t)
   <2> SUFFICES ASSUME At(t, {"number"})' PROVE Step(t) \in {"accountNew", "import"}
         /\ Key(t)' = Key(t) /\ Exec(t) OBVIOUS
   <2>1. pc'[t] # <<>> /\ pc'[t][1][1] = "number" BY DEF At, Busy, Step
   <2>2. pc'[t][1][1] \in Followers BY <2>1 DEF Followers
   <2>3. ~(pc' = pc /\ Step(t) = "readAccount") BY <2>1 DEF Step
   <2>4. Step(t) \in Before(pc'[t][1][1]) /\ Key(t) = pc'[t][1][2] BY <2>1, <2>2, <2>3, NewHead
   <2>5. Step(t) \in {"accountNew", "import"} BY <2>1, <2>4 DEF Before
   <2>6. Exec(t) BY <2>1, <2>5, Answers DEF Commands
   <2> QED BY <2>4, <2>5, <2>6 DEF Key
<1>7. CASE Step(t) = "number"
   <2>1. At(t, {"number"}) /\ At(t, MapUsers) BY <1>1, <1>7 DEF At, MapUsers
   <2>2. Len(accts) = nextAcctNum BY <1>2, <2>1 DEF OwnInv, Numbered
   <2>3. accts' = accts BY <1>7, Answers
   <2>4. nextAcctNum' = nextAcctNum + 1 BY <1>1, <1>2, <1>7 DEF MapStep
   <2>5. \A u \in Procs : ~At(u, {"number"})' BY <1>4, <1>5, <1>6, <1>7, <2>1
   <2> QED BY <1>2, <2>2, <2>3, <2>4, <2>5
<1>8. CASE Step(t) \in {"accountNew", "import"} /\ Exec(t)
   <2>1. At(t, MapUsers) /\ ~At(t, {"number"}) BY <1>1, <1>8 DEF At, MapUsers
   <2>2. \A u \in Procs : ~At(u, {"number"}) BY <1>5, <2>1
   <2>3. Len(accts) + 1 = nextAcctNum BY <1>2, <2>2 DEF OwnInv, Numbered
   <2>4. Len(accts') = Len(accts) + 1 /\ Len(accts) + 1 \in DOMAIN accts'
         /\ accts'[Len(accts) + 1][1] = Key(t)
       BY <1>8, NewAccount
   <2>5. nextAcctNum' = nextAcctNum BY <1>1, <1>8 DEF MapStep
   <2>6. At(t, {"number"})'
      <3> DEFINE s == pc[t]
      <3>1. s \in Scripts /\ s # <<>> /\ 1 \in DOMAIN s /\ Paired(s)
          BY <1>1, <1>2, HeadFacts DEF Base, Shaped, Shape
      <3>2. 1 + 1 \in DOMAIN s /\ s[1+1][1] = "number" BY <1>8, <3>1 DEF Paired, Step
      <3>3. 2 \in DOMAIN s /\ s[2][1] = "number" BY <3>2
      <3>4. Tailed(t) BY <1>8 DEF Exec, Store, GoOn, Tailed
      <3>5. pc'[t] = Tail(s) BY <3>4 DEF Tailed, Base, TypeOK
      <3>6. 2 - 1 \in DOMAIN Tail(s) /\ Tail(s)[2-1] = s[2] BY <3>1, <3>3, TailFacts
      <3>7. 1 \in DOMAIN Tail(s) /\ Tail(s)[1] = s[2] BY <3>6
      <3>8. Tail(s) # <<>>
         <4>1. DOMAIN <<>> = {} OBVIOUS
         <4> QED BY <3>7, <4>1
      <3> QED BY <3>3, <3>5, <3>7, <3>8 DEF At, Busy, Step
   <2>7. \A u \in Procs : At(u, {"number"})' => u = t BY <1>4, <2>2
   <2>8. Key(t)' = Key(t) BY <1>6, <2>6
   <2> QED BY <2>3, <2>4, <2>5, <2>6, <2>7, <2>8 DEF AccountOf
<1>9. CASE Step(t) # "number" /\ ~(Step(t) \in {"accountNew", "import"} /\ Exec(t))
   <2>1. \A u \in Procs : (At(u, {"number"})' <=> At(u, {"number"})) /\ (At(u, {"number"})' =>
         Key(u)' = Key(u))
      <3>1. ~At(t, {"number"}) /\ ~At(t, {"number"})' BY <1>6, <1>9 DEF At
      <3> QED BY <1>4, <3>1
   <2>2. nextAcctNum' = nextAcctNum BY <1>1, <1>9 DEF MapStep
   <2>3. accts' = accts
      <3>1. Step(t) # "getnewaddress" BY <1>1, <1>2, HeadFacts DEF Foreign, Utxo
      <3> QED BY <1>9, <3>1, Answers
   <2> QED BY <1>2, <2>1, <2>2, <2>3 DEF OwnInv, Numbered, AccountOf
<1> QED BY <1>7, <1>8, <1>9

\* An entry gets its account from setAddress, put or number, each with its own.
LEMMA KeyOwnsStep == ASSUME Base, OwnInv, NEW t \in Procs, ProcStep(t) PROVE AccountMadeFor'
<1>1. UNCHANGED config /\ Busy(t) /\ lost \subseteq lost' BY Outcomes, NodeSteps, Answers
<1>2. SUFFICES ASSUME family = "geth" =>
      lost' = {}, NEW k \in Keys, wallet'[k] # 0, obj'[wallet'[k]].acct # 0
      PROVE obj'[wallet'[k]].acct \in DOMAIN accts' /\ accts'[obj'[wallet'[k]].acct][1] = k
   BY <1>1 DEF AccountMadeFor, config
<1>3. /\ obj' \in Seq(NodeWallet) /\ (\A i \in DOMAIN obj : ObjStep(t, i))
      /\ (wallet' = wallet /\ DOMAIN obj' = DOMAIN obj) \/ Grown(t) BY ObjSteps
<1>4. family = "geth" => lost = {} BY <1>1, <1>2
<1>5. \A a : AccountOf(a, k) => a \in DOMAIN accts' /\ accts'[a][1] = k BY Accounted DEF AccountOf
<1>6. wallet \in [Keys -> Nat] BY DEF Base, TypeOK
<1>7. CASE wallet'[k] = wallet[k]
   <2> DEFINE i == wallet[k]
   <2>1. i # 0 /\ i \in DOMAIN obj /\ obj[i].key = k BY <1>2, <1>7 DEF Base, Mapped
   <2>2. CASE obj'[i].acct = obj[i].acct
      <3>1. AccountOf(obj[i].acct, k)
          BY <1>2, <1>4, <1>7, <2>1, <2>2 DEF OwnInv, AccountMadeFor, AccountOf
      <3> QED BY <1>5, <1>7, <2>2, <3>1
   <2>3. CASE Step(t) = "setAddress" /\ i = Entry(t) /\ obj'[i].acct = got[t]
      <3>1. Key(t) = k BY <1>1, <2>1, <2>3, HeadFacts
      <3>2. AccountOf(got[t], k) BY <1>1, <2>3, <3>1 DEF OwnInv, GotOwn, At
      <3> QED BY <1>5, <1>7, <2>3, <3>2
   <2> QED BY <1>3, <2>1, <2>2, <2>3 DEF ObjStep
<1>8. CASE wallet'[k] # wallet[k]
   <2>1. Grown(t) BY <1>3, <1>8
   <2>2. k = Key(t) /\ wallet'[k] = Len(obj) + 1 BY <1>6, <1>8, <2>1 DEF Grown
   <2> DEFINE w == obj'[Len(obj) + 1]
   <2>3. NewObj(t, w) BY <2>1 DEF Grown
   <2>4. w.acct # 0 BY <1>2, <2>2
   <2>5. \/ Step(t) = "number" /\ family = "geth" /\ w.acct = nextAcctNum
         \/ Step(t) = "number" /\ family # "geth" /\ w.acct = got[t]
         \/ Step(t) = "put" /\ family # "utxo" /\ w.acct = got[t] BY <2>3, <2>4 DEF NewObj
   <2>6. AccountOf(w.acct, k) BY <1>1, <1>4, <2>2, <2>5 DEF OwnInv, GotOwn, Numbered, At
   <2> QED BY <1>5, <2>2, <2>6
<1> QED BY <1>7, <1>8

\* The other steps leave the second layer alone.
LEMMA OwnEnv == ASSUME Base, Fresh, OwnInv, EnvStep PROVE OwnInv'
<1>1. /\ UNCHANGED <<config, mapAccess, wallet, obj, nextAcctNum, ptr, got, listed, inputs, created,
           loaded, accts, spent, failed, lost>>
      /\ pc' = pc \/ Begun BY EnvSteps
<1>2. UNCHANGED <<family, mapAccess, wallet, obj, nextAcctNum, got, accts, lost>> BY <1>1 DEF config
<1>3. \A u \in Procs : pc'[u] # <<>> /\ pc'[u][1][1] \in Followers => pc'[u] = pc[u] BY <1>1, BegunHead
<1>4. \A u \in Procs : At(u, {"number", "setAddress", "put"})' \/ (family = "geth"
      /\ At(u, MapUsers)') => pc'[u] = pc[u]
   BY <1>3 DEF At, Busy, Step, Followers, MapUsers
<1>5. GotOwn' BY <1>2, <1>4 DEF GotOwn, OwnInv, AccountOf, At, Busy, Step, Key
<1>6. MapHeld' BY <1>2, <1>4 DEF MapHeld, OwnInv, At, Busy, Step, MapUsers
<1>7. AccountMadeFor' BY <1>2 DEF AccountMadeFor, OwnInv
<1>11. Reserved'
   <2>1. \A u \in Procs : ~Utxo /\ At(u, Reserving \cup {"mapUnlock"})' => pc'[u] = pc[u]
      BY <1>2, <1>3, WalletsAssumption DEF At, Busy, Step, Followers, Reserving, Utxo, Base, TypeOK
   <2> QED BY <1>2, <2>1 DEF Reserved, OwnInv, At, Busy, Step, Entry, Key, Reserving, Utxo
<1>8. \A u \in Procs : At(u, {"number"}) => At(u, {"number"})'
   <2>1. CASE pc' = pc BY <2>1 DEF At, Busy, Step
   <2>2. CASE Begun
      <3>1. PICK t \in Procs : \E r : pc[t] = <<>> /\ pc' = [pc EXCEPT ![t] = r]
          BY <2>2 DEF Begun, Given
      <3>2. PICK r : pc[t] = <<>> /\ pc' = [pc EXCEPT ![t] = r] BY <3>1
      <3> QED BY <3>2 DEF At, Busy, Step
   <2> QED BY <1>1, <2>1, <2>2
<1>9. \A u \in Procs : At(u, {"number"})' => pc'[u] = pc[u] BY <1>4 DEF At
<1>10. Numbered'
   <2> SUFFICES ASSUME family = "geth", lost = {} PROVE
         /\ \A u \in Procs : At(u, {"number"})' => Len(accts) = nextAcctNum
              /\ AccountOf(nextAcctNum, pc'[u][1][2])
         /\ (\A u \in Procs : ~At(u, {"number"})') => Len(accts) + 1 = nextAcctNum
       BY <1>2 DEF Numbered, AccountOf, Key
   <2>1. \A u \in Procs : At(u, {"number"})' => At(u, {"number"}) /\ pc'[u] = pc[u]
       BY <1>9 DEF At, Busy, Step
   <2> QED BY <1>8, <2>1 DEF OwnInv, Numbered, Key
<1> QED BY <1>5, <1>6, <1>7, <1>10, <1>11 DEF OwnInv

\* The second layer, initially.
LEMMA OwnInit == ASSUME Init PROVE OwnInv
<1>1. \A t \in Procs : pc[t] = <<>> BY DEF Init
<1>2. GotOwn /\ MapHeld /\ Reserved BY <1>1 DEF GotOwn, MapHeld, Reserved, At, Busy
<1>3. family = "geth" => accts = <<<<Faucet, "new">>>> /\ nextAcctNum = 2 BY DEF Init
<1>4. family = "geth" => Len(accts) = 1 /\ accts[1][1] = Faucet BY <1>3
<1>5. family = "geth" => nextAcctNum = 2 BY DEF Init
<1>6. \A t \in Procs : ~At(t, {"number"}) BY <1>1 DEF At, Busy
<1>7. family = "geth" => Len(accts) + 1 = nextAcctNum
   <2> SUFFICES ASSUME family = "geth" PROVE Len(accts) + 1 = nextAcctNum OBVIOUS
   <2>1. Len(accts) = 1 BY <1>4
   <2>2. nextAcctNum = 2 BY <1>5
   <2>3. Len(accts) + 1 = 1 + 1 BY <2>1
   <2> QED BY <2>2, <2>3
<1>8. Numbered BY <1>6, <1>7 DEF Numbered
<1>9. AccountMadeFor
   <2> SUFFICES ASSUME NEW k \in Keys, wallet[k] # 0 PROVE obj[wallet[k]].acct \in DOMAIN accts
         /\ accts[obj[wallet[k]].acct][1] = k
      BY DEF AccountMadeFor
   <2>1. family = "geth" /\ k = Faucet /\ wallet[k] = 1 /\ obj = <<NewWallet(Faucet, 1, 0)>> BY DEF Init
   <2>2. obj[1].acct = 1 BY <2>1 DEF NewWallet
   <2> QED BY <1>3, <1>4, <2>1, <2>2
<1> QED BY <1>2, <1>8, <1>9 DEF OwnInv

\* On geth and anvil an entry is made for a name without one, except by anvil's RecoverKey.
LEMMA EntryStays ==
  ASSUME Base, OwnInv, ~Utxo, NEW t \in Procs, ProcStep(t), NEW k \in Keys, HasAddress(k), ~Replaces(k)
  PROVE  wallet'[k] # 0 /\ obj'[wallet'[k]].acct = obj[wallet[k]].acct
<1>1. /\ \A i \in DOMAIN obj : ObjStep(t, i)
      /\ (wallet' = wallet \/ Grown(t)) /\ Busy(t) /\ wallet \in [Keys -> Nat]
   BY Outcomes, ObjSteps DEF Base, TypeOK
<1>2. wallet[k] # 0 /\ wallet[k] \in DOMAIN obj BY DEF HasAddress, Base, Mapped
<1>3. Step(t) \notin {"setAddress", "forNewAddress"} /\ (Step(t) = "put" => family = "anvil")
   <2>1. Step(t) \notin Foreign /\ (family = "geth" \/ family = "anvil")
      BY <1>1, HeadFacts, WalletsAssumption DEF Base, TypeOK, Utxo
   <2> QED BY <2>1 DEF Foreign
<1>4. wallet'[k] = wallet[k] => obj'[wallet'[k]].acct = obj[wallet[k]].acct BY <1>1, <1>2, <1>3 DEF ObjStep
<1>5. CASE wallet'[k] # wallet[k]
   <2>1. Grown(t) /\ k = Key(t) BY <1>1, <1>5 DEF Grown
   <2>2. Step(t) # "number" BY <1>1, <1>2, <2>1 DEF OwnInv, Reserved, Reserving, At, Entry
   <2>3. Step(t) = "put" BY <1>3, <2>1, <2>2 DEF Grown, Makers
   <2>4. pc'[t] # pc[t]
      <3>1. pc[t] \in Scripts /\ pc[t] # <<>> BY <1>1, HeadFacts
      <3>2. pc'[t] = Tail(pc[t]) BY <2>1 DEF Grown, Tailed, Base, TypeOK
      <3>3. Len(Tail(pc[t])) = Len(pc[t]) - 1 /\ Len(pc[t]) \in Nat BY <3>1 DEF Scripts
      <3>4. ASSUME pc'[t] = pc[t] PROVE FALSE
         <4> DEFINE m == Len(pc[t])
         <4>1. m \in Nat /\ m = m - 1 BY <3>2, <3>3, <3>4
         <4> HIDE DEF m
         <4> QED BY <4>1
      <3> QED BY <3>4
   <2> QED BY <1>1, <1>3, <2>1, <2>3, <2>4 DEF Replaces, At
<1> QED BY <1>2, <1>4, <1>5

----------------------------------------------------------------------------
(* The third layer: outputs. *)

\* What a step does to the outputs: spent, listed and picked.
LEMMA SpentSteps ==
  ASSUME Base, NEW t \in Procs, ProcStep(t)
  PROVE
  /\ created \subseteq created'
  /\ Step(t) = "createwallet" /\ pc'[t] # <<>> => Key(t) \notin created /\ Key(t) \in created'
  /\ spent' = spent \/ (Step(t) \in {"sendrawtransaction", "sendtoaddress"}
       /\ \E x : spent' = [spent EXCEPT ![Key(t)] = x])
  /\ \A u \in Procs : u # t => listed'[u] = listed[u] /\ inputs'[u] = inputs[u]
  /\ listed'[t] = listed[t] \/ Step(t) = "listunspent"
  /\ inputs'[t] = inputs[t] \/ Step(t) = "createrawtransaction"
  /\ Step(t) = "listunspent" /\ pc'[t] # <<>> => listed'[t] = Unspent(Key(t))
  /\ Step(t) = "createrawtransaction" /\ pc'[t] # <<>> => inputs'[t] \subseteq listed[t]
<1>1. NodeStep(t) /\ listed \in [Procs -> SUBSET Outputs] /\ inputs \in [Procs -> SUBSET Outputs]
    BY NodeSteps DEF Base, TypeOK
<1>2. ASSUME Effect(t) PROVE
        /\ created \subseteq created'
        /\ spent' = spent \/ (Step(t) \in {"sendrawtransaction", "sendtoaddress"}
             /\ \E x : spent' = [spent EXCEPT ![Key(t)] = x])
   <2>1. created \subseteq created' BY <1>2 DEF Effect, nodeVars
   <2>2. CASE Step(t) = "sendrawtransaction" BY <1>2, <2>1, <2>2 DEF Effect
   <2>3. CASE Step(t) = "sendtoaddress"
      <3>1. PICK y : spent' = [spent EXCEPT ![Key(t)] = @ \cup y] BY <1>2, <2>3 DEF Effect
      <3> QED BY <2>1, <2>3, <3>1
   <2>4. CASE Step(t) \notin {"sendrawtransaction", "sendtoaddress"}
       BY <1>2, <2>1, <2>4 DEF Effect, nodeVars
   <2> QED BY <2>2, <2>3, <2>4
<1>3. CASE Exec(t)
   <2>1. Effect(t) /\ Store(t) /\ Accepts(t) /\ Step(t) \in Commands BY <1>3 DEF Exec, At
   <2>2. Step(t) = "createwallet" => Key(t) \notin created /\ Key(t) \in created'
      <3> SUFFICES ASSUME Step(t) = "createwallet" PROVE Key(t) \notin created
            /\ Key(t) \in created' OBVIOUS
      <3>1. Key(t) \notin created BY <2>1 DEF Accepts, WalletCommands
      <3>2. created' = created \cup {Key(t)} BY <2>1 DEF Effect
      <3> QED BY <3>1, <3>2
   <2>3. CASE Step(t) = "listunspent"
      <3>1. listed' = [listed EXCEPT ![t] = Unspent(Key(t))] /\ inputs' = inputs BY <2>1, <2>3 DEF Store
      <3> QED BY <1>1, <1>2, <2>1, <2>3, <3>1
   <2>4. CASE Step(t) = "createrawtransaction"
      <3>1. PICK last \in listed[t] : inputs' = [inputs EXCEPT ![t] = {o \in listed[t] : o <= last}]
          BY <2>1, <2>4 DEF Store
      <3>2. listed' = listed BY <2>1, <2>4 DEF Store
      <3> QED BY <1>1, <1>2, <2>1, <2>4, <3>1, <3>2
   <2>5. CASE Step(t) \notin {"listunspent", "createrawtransaction"}
      <3>1. UNCHANGED <<listed, inputs>> BY <2>1, <2>5 DEF Store, localVars
      <3> QED BY <1>2, <2>1, <2>2, <2>5, <3>1
   <2> QED BY <2>3, <2>4, <2>5
<1>4. CASE Step(t) \in HasEffect /\ Effect(t) /\ Fail(t) /\ UNCHANGED <<listed, inputs>>
   <2>1. pc'[t] = <<>> BY <1>4, FailEnds
   <2> QED BY <1>2, <1>4, <2>1
<1>5. CASE /\ UNCHANGED <<created, spent, listed, inputs>>
           /\ Step(t) \in Commands \ {"dial", "readAccount"} => pc'[t] = <<>>
   <2>1. Step(t) \in {"createwallet", "listunspent", "createrawtransaction"} => pc'[t] = <<>>
       BY <1>5 DEF Commands, WalletCommands
   <2> QED BY <1>5, <2>1
<1> QED BY <1>1, <1>3, <1>4, <1>5 DEF NodeStep

\* On a utxo chain an entry of the map is never replaced.
LEMMA EntryKept ==
  ASSUME Base, Utxo, OnePut, NEW t \in Procs, ProcStep(t), NEW k \in Keys,
         wallet'[k] # wallet[k]
  PROVE
  Grown(t) /\ k = Key(t) /\ wallet[k] = 0 /\ (Step(t) = "put" \/ (Step(t) = "forNewAddress"
    /\ family = "utxoOld"))
<1>1. Grown(t) BY ObjSteps
<1>2. wallet \in [Keys -> Nat] /\ Busy(t) BY Outcomes DEF Base, TypeOK
<1>3. k = Key(t) BY <1>1, <1>2 DEF Grown
<1>4. Step(t) # "number" BY <1>2, HeadFacts DEF Foreign
<1>5. CASE Step(t) = "put" BY <1>1, <1>2, <1>3, <1>5 DEF OnePut, At
<1>6. CASE Step(t) = "forNewAddress" BY <1>1, <1>3, <1>6 DEF Grown, Entry
<1> QED BY <1>1, <1>4, <1>5, <1>6 DEF Grown, Makers

\* OnePut is kept: createwallet succeeds once per name.
LEMMA OnePutStep == ASSUME Base, Utxo, OnePut, NEW t \in Procs, ProcStep(t) PROVE OnePut'
<1>1. UNCHANGED config /\ (\A v \in Procs : v # t => pc'[v] = pc[v]) /\ Busy(t)
      /\ created \subseteq created'
   BY Outcomes, NodeSteps, Moving, Shapes, SpentSteps
<1>2. \A v \in Procs : At(v, {"put"}) => family = "utxo" /\ Key(v) \in Keys
   <2> SUFFICES ASSUME NEW v \in Procs, At(v, {"put"}) PROVE family = "utxo" /\ Key(v) \in Keys OBVIOUS
   <2>1. Busy(v) /\ Step(v) = "put" BY DEF At
   <2> QED BY <2>1, HeadFacts DEF Foreign, Utxo
<1>3. At(t, {"put"})' => /\ Key(t)' = Key(t) /\ Key(t) \in Keys /\ wallet'[Key(t)] = 0 /\ Key(t) \in created' /\ Key(t) \notin created
   <2> SUFFICES ASSUME At(t, {"put"})'
       PROVE /\ Key(t)' = Key(t) /\ Key(t) \in Keys /\ wallet'[Key(t)] = 0 /\ Key(t) \in created' /\ Key(t) \notin created OBVIOUS
   <2>1. pc'[t] # <<>> /\ pc'[t][1][1] = "put" BY DEF At, Busy, Step
   <2>2. pc'[t][1][1] \in Followers BY <2>1 DEF Followers
   <2>3. ~(pc' = pc /\ Step(t) = "readAccount") BY <2>1 DEF Step
   <2>4. Step(t) \in Before(pc'[t][1][1]) /\ Key(t) = pc'[t][1][2] BY <2>1, <2>2, <2>3, NewHead
   <2>5. family = "utxo"
      <3>1. Base' BY BaseProc
      <3>2. pc'[t] \in Scripts /\ 1 \in DOMAIN pc'[t] BY <2>1, <3>1, ScriptFacts DEF Base, TypeOK
      <3>3. \A i \in DOMAIN pc'[t] : pc'[t][i][1] \notin Foreign'
          BY <3>1 DEF Base, Shaped, Shape, Linked
      <3>4. "put" \notin Foreign' BY <2>1, <3>2, <3>3
      <3>5. family' = family BY <1>1 DEF config
      <3> QED BY <3>4, <3>5 DEF Foreign, Utxo
   <2>6. Step(t) = "createwallet" BY <2>1, <2>4, <2>5 DEF Before
   <2>7. Key(t) \notin created /\ Key(t) \in created' BY <2>1, <2>6, SpentSteps
   <2>8. Key(t) \in Keys BY <1>1, <2>6, HeadFacts
   <2>9. wallet[Key(t)] = 0 BY <2>5, <2>7, <2>8 DEF OnePut
   <2>10. wallet'[Key(t)] = wallet[Key(t)] BY <2>6, <2>8, EntryKept
   <2> QED BY <2>4, <2>7, <2>8, <2>9, <2>10 DEF Key
<1>4. \A u \in Procs : u # t => (At(u, {"put"})' <=> At(u, {"put"})) /\ Key(u)' = Key(u)
    BY <1>1 DEF At, Busy, Step, Key
<1>5. ASSUME NEW u \in Procs, At(u, {"put"})' PROVE wallet'[Key(u)'] = 0 /\ Key(u)' \in created'
   <2>1. CASE u = t BY <1>3, <1>5, <2>1
   <2>2. CASE u # t
      <3>1. At(u, {"put"}) /\ Key(u)' = Key(u) /\ wallet[Key(u)] = 0 /\ Key(u) \in created
            /\ Key(u) \in Keys /\ family = "utxo"
         BY <1>2, <1>4, <1>5, <2>2 DEF OnePut
      <3>2. wallet'[Key(u)] = wallet[Key(u)]
         <4> SUFFICES ASSUME wallet'[Key(u)] # wallet[Key(u)] PROVE FALSE OBVIOUS
         <4>1. Key(u) = Key(t) /\ Step(t) = "put" BY <3>1, EntryKept
         <4>2. At(t, {"put"}) BY <1>1, <4>1 DEF At
         <4> QED BY <2>2, <3>1, <4>1, <4>2 DEF OnePut
      <3> QED BY <1>1, <3>1, <3>2
   <2> QED BY <2>1, <2>2
<1>6. ASSUME NEW u \in Procs, NEW v \in Procs, At(u, {"put"})', At(v, {"put"})',
      Key(u)' = Key(v)' PROVE u = v
   <2>1. u # t /\ v # t => u = v BY <1>4, <1>6 DEF OnePut
   <2>2. u = t /\ v # t => FALSE BY <1>3, <1>4, <1>6 DEF OnePut
   <2>3. v = t /\ u # t => FALSE BY <1>3, <1>4, <1>6 DEF OnePut
   <2> QED BY <2>1, <2>2, <2>3
<1>7. ASSUME NEW k \in Keys, wallet'[k] # 0, family = "utxo" PROVE k \in created'
   <2>1. CASE wallet'[k] = wallet[k] BY <1>1, <1>7, <2>1 DEF OnePut
   <2>2. CASE wallet'[k] # wallet[k]
      <3>1. k = Key(t) /\ Step(t) = "put" BY <1>7, <2>2, EntryKept
      <3> QED BY <1>1, <3>1 DEF OnePut, At
   <2> QED BY <2>1, <2>2
<1> QED BY <1>1, <1>5, <1>6, <1>7 DEF OnePut, config

\* A txLock stays with its holder through everybody's steps.
LEMMA HoldingKept ==
  ASSUME Base, Utxo, OnePut, Pointed, NEW t \in Procs, ProcStep(t), NEW u \in Procs,
         NEW k \in Keys, wallet[k] # 0, obj[wallet[k]].txLock = u,
         u # t \/ (pc'[t] # <<>> /\ Step(t) # "txUnlock")
  PROVE  wallet'[k] = wallet[k] /\ obj'[wallet[k]].txLock = u
<1>1. wallet'[k] = wallet[k] BY EntryKept
<1>2. wallet[k] \in DOMAIN obj /\ None \notin Procs /\ Busy(t)
    BY Outcomes, WalletsAssumption DEF Base, Mapped
<1>3. ObjStep(t, wallet[k]) BY <1>2, ObjSteps
<1> DEFINE x == obj'[wallet[k]]  w == obj[wallet[k]]
<1>4. \/ x.txLock = w.txLock
      \/ w.txLock = t /\ pc'[t] = <<>>
      \/ Step(t) = "txUnlock" /\ wallet[k] = ptr[t]
      \/ Step(t) = "txLock" /\ wallet[k] = ptr[t] /\ w.txLock = None BY <1>3 DEF ObjStep
<1>5. ~(w.txLock = t /\ pc'[t] = <<>>) OBVIOUS
<1>6. ~(Step(t) = "txLock" /\ wallet[k] = ptr[t] /\ w.txLock = None) BY <1>2
<1>7. ~(Step(t) = "txUnlock" /\ wallet[k] = ptr[t])
   <2> SUFFICES ASSUME Step(t) = "txUnlock", wallet[k] = ptr[t] PROVE u = t OBVIOUS
   <2>1. At(t, {"txLock", "sendtoaddress", "txUnlock"}) /\ At(t, {"sendtoaddress", "txUnlock"})
       BY <1>2 DEF At
   <2>2. HasPtr(t) /\ Holding(t) BY <2>1 DEF Pointed
   <2> QED BY <2>2 DEF HasPtr, Holding
<1> QED BY <1>1, <1>4, <1>5, <1>6, <1>7

\* Where a LoadWallet in front of txLock comes from: sendToMwebAddress.
LEMMA LockNext ==
  ASSUME Base, NEW t \in Procs, ProcStep(t), pc'[t] # <<>>, pc'[t][1][1] \in Begins,
         2 \in DOMAIN pc'[t], pc'[t][2][1] = "txLock"
  PROVE
    \/ Step(t) = "forUse" /\ Key(t) = pc'[t][1][2]
    \/ Step(t) \in Begins /\ 2 \in DOMAIN pc[t] /\ pc[t][2][1] = "txLock" /\ Key(t) = pc'[t][1][2]
<1> DEFINE s == pc[t]
<1>1. Busy(t) /\ Moves(t) /\ pc \in [Procs -> Scripts] BY Outcomes, Moving DEF Base, TypeOK
<1>2. s \in Scripts /\ s # <<>> /\ 1 \in DOMAIN s /\ Linked(s, FALSE)
    BY <1>1, HeadFacts DEF Base, Shaped, Shape
<1>3. Utxo => "txLock" \in Followers BY DEF Followers
<1>4. CASE Tailed(t)
   <2>1. pc'[t] = Tail(s) BY <1>1, <1>4 DEF Tailed
   <2>2. 2 + 1 \in DOMAIN s /\ Tail(s)[2] = s[2+1] BY <1>2, <2>1, TailFacts
   <2>3. Tail(s) \in Scripts /\ 1 \in DOMAIN Tail(s) BY <1>2, <2>1, TailFacts, ScriptFacts
   <2>4. 1 + 1 \in DOMAIN s /\ Tail(s)[1] = s[1+1] BY <1>2, <2>3, TailFacts
   <2>5. 3 \in DOMAIN s /\ s[3][1] = "txLock" /\ s[2] = pc'[t][1] /\ s[2][1] \in Begins
       BY <2>1, <2>2, <2>4
   <2>6. LinkedAt(s, FALSE, 3) BY <1>2, <2>5 DEF Linked, LinkedAt
   <2>7. 3 > 1 /\ 3 # 2 /\ 3 - 1 = 2 /\ 3 - 2 = 1 /\ 3 # 1 OBVIOUS
   <2>8. s[1] = <<"forUse", s[3][2]>> BY <2>5, <2>6, <2>7 DEF LinkedAt
   <2>9. s[2][2] = s[3][2]
      <3>1. "txLock" \in Followers
         <4>1. s[2][1] \notin Foreign BY <1>2, <2>4 DEF Linked
         <4>2. Counts BY <2>5, <4>1 DEF Foreign
         <4> QED BY <1>3, <4>2 DEF Counts, Utxo
      <3>2. s[2] \in Before(s[3][1]) \X {s[3][2]} BY <2>5, <2>6, <2>7, <3>1 DEF LinkedAt
      <3> QED BY <3>2
   <2>10. Step(t) = "forUse" /\ Key(t) = s[3][2] BY <2>8 DEF Step, Key
   <2> QED BY <2>5, <2>9, <2>10
<1>5. CASE Dropped(t) BY <1>1, <1>5 DEF Dropped
<1>6. CASE Renames(t)
   <2>1. PICK n : <<Step(t), n>> \in Turned /\ pc' = [pc EXCEPT ![t] = Renamed(s, n)]
       BY <1>6 DEF Renames
   <2>2. n \in Names BY <2>1 DEF Turned, Names, Commands, PlainCommands
   <2>3. Renamed(s, n)[1] = <<n, s[1][2]>> /\ DOMAIN Renamed(s, n) = DOMAIN s
         /\ \A i \in DOMAIN s : i > 1 => Renamed(s, n)[i] = s[i]
      BY <1>2, <2>2, RenamedFacts
   <2>4. pc'[t] = Renamed(s, n) BY <1>1, <2>1
   <2>5. n \in Begins /\ Key(t) = pc'[t][1][2] BY <2>3, <2>4 DEF Key
   <2>6. Step(t) \in Begins BY <2>1, <2>5 DEF Turned, Begins
   <2>7. 2 \in DOMAIN s /\ s[2] = pc'[t][2] BY <2>3, <2>4
   <2> QED BY <2>5, <2>6, <2>7
<1>7. CASE pc' = pc /\ Step(t) = "readAccount" BY <1>7 DEF Step, Begins
<1>8. CASE Given(t)
   <2>1. PICK r : Fit(r) /\ pc' = [pc EXCEPT ![t] = r] BY <1>8 DEF Given
   <2>2. r \in Scripts /\ Linked(r, TRUE) /\ pc'[t] = r BY <1>1, <2>1 DEF Fit, Sound
   <2>3. 2 > 1 /\ 2 - 1 = 1 OBVIOUS
   <2> QED BY <2>2, <2>3 DEF Linked
<1> QED BY <1>1, <1>4, <1>5, <1>6, <1>7, <1>8 DEF Moves

\* Pointed is kept: entries stay, and txLock with its holder.
LEMMA PointedStep == ASSUME Base, Utxo, OnePut, Pointed, NEW t \in Procs, ProcStep(t) PROVE Pointed'
<1>1. UNCHANGED config /\ (\A v \in Procs : v # t => pc'[v] = pc[v]) /\ Busy(t) /\ MapStep(t)
   BY Outcomes, NodeSteps, Moving, Shapes, MapSteps
<1>2. ptr \in [Procs -> Nat] BY DEF Base, TypeOK
<1>3. \A v \in Procs : v # t => ptr'[v] = ptr[v] BY <1>1, <1>2 DEF MapStep
<1>4. \A k \in Keys : wallet[k] # 0 => wallet'[k] = wallet[k] BY EntryKept
<1>5. ASSUME NEW u \in Procs, u # t PROVE
        /\ At(u, {"txLock", "sendtoaddress", "txUnlock"})' => HasPtr(u)'
        /\ At(u, {"sendtoaddress", "txUnlock"})' => Holding(u)'
        /\ (At(u, Begins) /\ 2 \in DOMAIN pc[u] /\ pc[u][2][1] = "txLock")' => HasPtr(u)'
   <2>1. Key(u)' = Key(u) /\ Step(u)' = Step(u) /\ (Busy(u)' <=> Busy(u)) /\ pc'[u] = pc[u]
       BY <1>1, <1>5 DEF Key, Step, Busy
   <2>2. ASSUME Busy(u), HasPtr(u), Step(u) # "keyOfAddress" PROVE HasPtr(u)'
      <3>1. Key(u) \in Keys /\ wallet[Key(u)] # 0 BY <2>2, HeadFacts DEF HasPtr, Entry
      <3> QED BY <1>3, <1>4, <1>5, <2>1, <2>2, <3>1 DEF HasPtr, Entry
   <2>3. ASSUME Busy(u), Holding(u), Step(u) # "keyOfAddress" PROVE Holding(u)'
      <3>1. Key(u) \in Keys /\ wallet[Key(u)] # 0 /\ obj[wallet[Key(u)]].txLock = u
          BY <2>3, HeadFacts DEF Holding, Entry
      <3>2. wallet'[Key(u)] = wallet[Key(u)] /\ obj'[wallet[Key(u)]].txLock = u
          BY <1>5, <3>1, HoldingKept
      <3> QED BY <2>1, <3>1, <3>2 DEF Holding, Entry
   <2>4. At(u, {"txLock", "sendtoaddress", "txUnlock"})' => HasPtr(u)' BY <2>1, <2>2 DEF At, Pointed
   <2>5. At(u, {"sendtoaddress", "txUnlock"})' => Holding(u)' BY <2>1, <2>3 DEF At, Pointed
   <2>6. (At(u, Begins) /\ 2 \in DOMAIN pc[u] /\ pc[u][2][1] = "txLock")' => HasPtr(u)'
       BY <2>1, <2>2 DEF At, Begins, Pointed
   <2> QED BY <2>4, <2>5, <2>6
<1>6. ASSUME Step(t) = "forUse", pc'[t] # <<>>, Key(t)' = Key(t) PROVE HasPtr(t)'
   <2>1. Entry(t) # 0 /\ ptr'[t] = Entry(t) /\ Key(t) \in Keys BY <1>1, <1>6, HeadFacts DEF MapStep
   <2> QED BY <1>4, <1>6, <2>1 DEF HasPtr, Entry
<1>7. ASSUME HasPtr(t), Step(t) \in Begins \cup {"txLock", "sendtoaddress"}, Key(t)' = Key(t)
      PROVE HasPtr(t)'
   <2>1. Key(t) \in Keys /\ wallet[Key(t)] # 0 /\ Step(t) \notin LookSteps \cup {"reserveName", "mapLock"}
      BY <1>1, <1>7, HeadFacts DEF HasPtr, Entry, Begins, LookSteps
   <2> QED BY <1>1, <1>4, <1>7, <2>1 DEF HasPtr, Entry, MapStep
<1>8. ASSUME At(t, {"txLock", "sendtoaddress", "txUnlock"})' PROVE
        /\ HasPtr(t)'
        /\ Step(t)' \in {"sendtoaddress", "txUnlock"} => Holding(t)'
   <2>1. pc'[t] # <<>> /\ pc'[t][1][1] \in {"txLock", "sendtoaddress", "txUnlock"}
       BY <1>8 DEF At, Busy, Step
   <2>2. pc'[t][1][1] \in Followers BY <2>1 DEF Followers
   <2>3. ~(pc' = pc /\ Step(t) = "readAccount") BY <2>1 DEF Step
   <2>4. /\ 2 \in DOMAIN pc[t] /\ pc'[t][1] = pc[t][2] /\ Step(t) \in Before(pc'[t][1][1])
              /\ Key(t) = pc'[t][1][2]
      BY <2>1, <2>2, <2>3, NewHead
   <2>5. Key(t)' = Key(t) BY <2>4 DEF Key
   <2>6. CASE Step(t) = "forUse"
      <3>1. Step(t)' = "txLock" BY <2>1, <2>4, <2>6 DEF Before, Step
      <3> QED BY <1>6, <2>1, <2>5, <2>6, <3>1
   <2>7. CASE Step(t) \in Begins
      <3>1. Step(t)' = "txLock" /\ pc[t][2][1] = "txLock" BY <2>1, <2>4, <2>7 DEF Before, Step, Begins
      <3>2. HasPtr(t) BY <1>1, <2>4, <2>7, <3>1 DEF Pointed, At
      <3> QED BY <1>7, <2>5, <2>7, <3>1, <3>2
   <2>8. CASE Step(t) \in {"txLock", "sendtoaddress"}
      <3>1. HasPtr(t) BY <1>1, <2>8 DEF Pointed, At
      <3>2. HasPtr(t)' BY <1>7, <2>5, <2>8, <3>1
      <3>3. Key(t) \in Keys /\ wallet[Key(t)] # 0 /\ wallet[Key(t)] \in DOMAIN obj
          BY <1>1, <2>8, <3>1, HeadFacts DEF HasPtr, Entry
      <3>4. obj'[wallet[Key(t)]].txLock = t
         <4>1. CASE Step(t) = "txLock"
            <5>1. ObjStep(t, wallet[Key(t)]) BY <3>3, ObjSteps
            <5> QED BY <2>1, <3>1, <4>1, <5>1 DEF ObjStep, HasPtr, Entry
         <4>2. CASE Step(t) = "sendtoaddress"
            <5>1. obj[wallet[Key(t)]].txLock = t BY <1>1, <4>2 DEF Pointed, At, Holding, Entry
            <5> QED BY <2>1, <3>3, <4>2, <5>1, HoldingKept
         <4> QED BY <2>8, <4>1, <4>2
      <3>5. Holding(t)' BY <1>4, <2>5, <3>3, <3>4 DEF Holding, Entry
      <3> QED BY <3>2, <3>5
   <2>9. Step(t) \in {"forUse", "txLock", "sendtoaddress"} \cup Begins BY <2>1, <2>4 DEF Before
   <2> QED BY <2>6, <2>7, <2>8, <2>9
<1>9. ASSUME At(t, Begins)', 2 \in DOMAIN pc'[t], pc'[t][2][1] = "txLock" PROVE HasPtr(t)'
   <2>1. pc'[t] # <<>> /\ pc'[t][1][1] \in Begins BY <1>9 DEF At, Busy, Step, Begins
   <2>2. \/ Step(t) = "forUse" /\ Key(t) = pc'[t][1][2]
         \/ Step(t) \in Begins /\ 2 \in DOMAIN pc[t] /\ pc[t][2][1] = "txLock" /\ Key(t) = pc'[t][1][2]
       BY <1>9, <2>1, LockNext
   <2>3. Key(t)' = Key(t) BY <2>2 DEF Key
   <2>4. CASE Step(t) = "forUse" BY <1>6, <2>1, <2>3, <2>4
   <2>5. CASE Step(t) \in Begins /\ 2 \in DOMAIN pc[t] /\ pc[t][2][1] = "txLock"
      <3>1. HasPtr(t) BY <1>1, <2>5 DEF Pointed, At
      <3> QED BY <1>7, <2>3, <2>5, <3>1
   <2> QED BY <2>2, <2>4, <2>5
<1>10. ASSUME NEW u \in Procs PROVE
        /\ At(u, {"txLock", "sendtoaddress", "txUnlock"})' => HasPtr(u)'
        /\ At(u, {"sendtoaddress", "txUnlock"})' => Holding(u)'
        /\ (At(u, Begins) /\ 2 \in DOMAIN pc[u] /\ pc[u][2][1] = "txLock")' => HasPtr(u)'
   <2>1. CASE u # t BY <1>5, <2>1
   <2>2. CASE u = t
      <3>1. At(t, {"sendtoaddress", "txUnlock"})' => At(t, {"txLock", "sendtoaddress", "txUnlock"})'
            /\ Step(t)' \in {"sendtoaddress", "txUnlock"}
          BY DEF At
      <3> QED BY <1>8, <1>9, <2>2, <3>1
   <2> QED BY <2>1, <2>2
<1> QED BY <1>10 DEF Pointed

\* What a script contains, by its first step.
LEMMA HasTail ==
  ASSUME NEW s \in Scripts, s # <<>>, NEW m
  PROVE  Has(s, m) <=> s[1][1] = m \/ Has(Tail(s), m)
<1>1. 1 \in DOMAIN s /\ \A i \in DOMAIN s : i \in Nat /\ i > 0 BY ScriptFacts
<1>2. /\ \A i \in DOMAIN Tail(s) : i + 1 \in DOMAIN s /\ Tail(s)[i] = s[i+1]
      /\ \A i \in DOMAIN s : i > 1 => i - 1 \in DOMAIN Tail(s) /\ Tail(s)[i-1] = s[i] BY TailFacts
<1> DEFINE r == Tail(s)
<1> HIDE DEF r
<1>3. Has(r, m) => Has(s, m) BY <1>2 DEF Has, r
<1>4. s[1][1] = m => Has(s, m) BY <1>1 DEF Has
<1>5. ASSUME Has(s, m), s[1][1] # m PROVE Has(r, m)
   <2>1. PICK i \in DOMAIN s : s[i][1] = m BY <1>5 DEF Has
   <2>2. i > 1 BY <2>1, <1>1, <1>5
   <2> QED BY <2>1, <2>2, <1>2 DEF Has, r
<1> QED BY <1>3, <1>4, <1>5 DEF r

\* The first step ranks below the steps after it.
LEMMA RankHead ==
  ASSUME NEW s \in Scripts, s # <<>>, Ordered(s), Has(s, "sendrawtransaction"), NEW m,
         Has(Tail(s), m), Rank(m) > 0, Rank(s[1][1]) > 0
  PROVE  Rank(s[1][1]) < Rank(m)
<1>1. PICK i \in DOMAIN Tail(s) : Tail(s)[i][1] = m BY DEF Has
<1>2. i \in Nat /\ i > 0 /\ i + 1 \in DOMAIN s /\ s[i+1][1] = m BY <1>1, TailFacts
<1>3. 1 \in DOMAIN s /\ 1 < i + 1 BY <1>2, ScriptFacts
<1> QED BY <1>2, <1>3 DEF Ordered, Ranked

\* What a call that still sends has before and behind it.
LEMMA SenderFacts ==
  ASSUME Base, NEW t \in Procs, Has(pc[t], "sendrawtransaction")
  PROVE
  /\ Busy(t) /\ Key(t) \in Keys /\ \A i \in DOMAIN pc[t] : pc[t][i][2] = Key(t)
  /\ Step(t) \notin {"sendtoaddress", "txUnlock"}
  /\ Step(t) = "sendrawtransaction" => ~Has(pc[t], "txLock") /\ ~Has(pc[t], "createrawtransaction")
       /\ ~Has(Tail(pc[t]), "sendrawtransaction")
  /\ Step(t) = "createrawtransaction" => ~Has(pc[t], "txLock") /\ ~Has(pc[t], "listunspent")
  /\ Step(t) = "listunspent" => ~Has(pc[t], "txLock")
<1> DEFINE s == pc[t]
<1>1. s \in Scripts /\ s # <<>> /\ Ordered(s) /\ Known(s)
   <2>1. s \in Scripts /\ Ordered(s) /\ Known(s) BY DEF Base, TypeOK, Shaped, Shape
   <2>2. DOMAIN <<>> = {} OBVIOUS
   <2> QED BY <2>1, <2>2 DEF Has
<1>2. Busy(t) /\ 1 \in DOMAIN s BY <1>1, ScriptFacts DEF Busy
<1>3. \A i \in DOMAIN s : s[i][2] = Key(t) BY <1>1, <1>2 DEF Ordered, OneKey, Key
<1>4. Key(t) \in Keys BY <1>1, <1>2 DEF Known, Key
<1>5. \A m : Has(Tail(s), m) /\ Rank(m) > 0 /\ Rank(s[1][1]) > 0 => Rank(s[1][1]) < Rank(m)
    BY <1>1, RankHead
<1>6. \A m : Has(s, m) <=> Step(t) = m \/ Has(Tail(s), m) BY <1>1, HasTail DEF Step
<1>7. Rank("txLock") = 1 /\ Rank("listunspent") = 2 /\ Rank("createrawtransaction") = 3
      /\ Rank("sendrawtransaction") = 4
      /\ Rank("sendtoaddress") = 5 /\ Rank("txUnlock") = 5 BY DEF Rank
<1>8. Step(t) = s[1][1] BY DEF Step
<1> HIDE DEF s
<1>9. Step(t) \notin {"sendtoaddress", "txUnlock"}
   <2>1. Step(t) \in {"sendtoaddress", "txUnlock"} => Has(Tail(s), "sendrawtransaction") BY <1>6 DEF s
   <2> QED BY <2>1, <1>5, <1>7, <1>8
<1>10. Step(t) = "sendrawtransaction" => ~Has(s, "txLock") /\ ~Has(s, "createrawtransaction")
      /\ ~Has(Tail(s), "sendrawtransaction")
    BY <1>5, <1>6, <1>7, <1>8
<1>11. Step(t) = "createrawtransaction" => ~Has(s, "txLock") /\ ~Has(s, "listunspent")
    BY <1>5, <1>6, <1>7, <1>8
<1>12. Step(t) = "listunspent" => ~Has(s, "txLock") BY <1>5, <1>6, <1>7, <1>8
<1> QED BY <1>2, <1>3, <1>4, <1>9, <1>10, <1>11, <1>12 DEF s

\* Who sends has the wallet's txLock.
LEMMA SendsAlone ==
  ASSUME Base, Pointed, Locked, NEW t \in Procs, Busy(t),
         Step(t) \in {"sendrawtransaction", "sendtoaddress"}
  PROVE  Holding(t)
<1>1. CASE Step(t) = "sendtoaddress" BY <1>1 DEF Pointed, At
<1>2. CASE Step(t) = "sendrawtransaction"
   <2>1. Has(pc[t], "sendrawtransaction")
      <3>1. 1 \in DOMAIN pc[t] BY HeadFacts
      <3> QED BY <1>2, <3>1 DEF Has, Step
   <2>2. ~Has(pc[t], "txLock") BY <1>2, <2>1, SenderFacts
   <2> QED BY <2>1, <2>2 DEF Locked, Passed
<1> QED BY <1>1, <1>2

\* Locked, of one goroutine.
LockedAt(t) ==
    /\ Passed(t, "txLock") => Holding(t)
    /\ Passed(t, "listunspent") => Passed(t, "txLock") /\ listed[t] \cap spent[Key(t)] = {}
    /\ Passed(t, "createrawtransaction") => Passed(t, "txLock") /\ inputs[t] \cap spent[Key(t)] = {}

\* Another goroutine's step spends none of u's outputs: u has the txLock.
LEMMA LockedOther ==
  ASSUME Base, Utxo, OnePut, Pointed, Locked, NEW t \in Procs, ProcStep(t), NEW u \in Procs,
         u # t
  PROVE  LockedAt(u)'
<1>1. UNCHANGED config /\ pc'[u] = pc[u] /\ listed'[u] = listed[u] /\ inputs'[u] = inputs[u] /\ Busy(t)
   BY Outcomes, NodeSteps, Moving, Shapes, SpentSteps
<1>2. LockedAt(u) BY DEF Locked, LockedAt
<1>3. \A n : (Passed(u, n)' <=> Passed(u, n)) BY <1>1 DEF Passed
<1>4. Key(u)' = Key(u) BY <1>1 DEF Key
<1>5. ASSUME Passed(u, "txLock") PROVE Holding(u)' /\ spent'[Key(u)] = spent[Key(u)]
   <2>1. Key(u) \in Keys /\ Busy(u) BY <1>5, SenderFacts DEF Passed
   <2>2. Holding(u) BY <1>2, <1>5 DEF LockedAt
   <2>3. wallet[Key(u)] # 0 /\ obj[wallet[Key(u)]].txLock = u BY <2>2 DEF Holding, Entry
   <2>4. wallet'[Key(u)] = wallet[Key(u)] /\ obj'[wallet[Key(u)]].txLock = u BY <2>1, <2>3, HoldingKept
   <2>5. Holding(u)' BY <1>4, <2>3, <2>4 DEF Holding, Entry
   <2>6. spent'[Key(u)] = spent[Key(u)]
      <3>1. CASE Step(t) \in {"sendrawtransaction", "sendtoaddress"}
         <4>1. Holding(t) BY <1>1, <3>1, SendsAlone
         <4>2. Key(t) # Key(u) BY <2>3, <4>1 DEF Holding, Entry
         <4>3. spent \in [Keys -> SUBSET Outputs] BY DEF Base, TypeOK
         <4>4. spent' = spent \/ \E x : spent' = [spent EXCEPT ![Key(t)] = x] BY SpentSteps
         <4> QED BY <2>1, <4>2, <4>3, <4>4
      <3>2. CASE Step(t) \notin {"sendrawtransaction", "sendtoaddress"} BY <3>2, SpentSteps
      <3> QED BY <3>1, <3>2
   <2> QED BY <2>5, <2>6
<1>6. Passed(u, "txLock")' => Holding(u)' BY <1>3, <1>5
<1>7. Passed(u, "listunspent")' => Passed(u, "txLock")' /\ listed'[u] \cap spent'[Key(u)'] = {}
    BY <1>1, <1>2, <1>3, <1>4, <1>5 DEF LockedAt
<1>8. Passed(u, "createrawtransaction")' => Passed(u, "txLock")' /\ inputs'[u] \cap spent'[Key(u)'] = {}
    BY <1>1, <1>2, <1>3, <1>4, <1>5 DEF LockedAt
<1> QED BY <1>6, <1>7, <1>8 DEF LockedAt

\* The call's own step: listing under the lock lists what is unspent, picking picks from it.
LEMMA LockedTail ==
  ASSUME Base, Utxo, OnePut, Pointed, Locked, NEW t \in Procs, ProcStep(t), Tailed(t)
  PROVE  LockedAt(t)'
<1> DEFINE s == pc[t]
<1>1. Busy(t) /\ pc \in [Procs -> Scripts] /\ s \in Scripts /\ s # <<>>
    BY Outcomes DEF Base, TypeOK, Busy
<1>2. pc'[t] = Tail(s) BY <1>1 DEF Tailed
<1>3. SUFFICES ASSUME Has(Tail(s), "sendrawtransaction") PROVE LockedAt(t)' BY <1>2 DEF LockedAt, Passed
<1>4. \A m : Has(s, m) <=> Step(t) = m \/ Has(Tail(s), m) BY <1>1, HasTail DEF Step
<1>5. Has(s, "sendrawtransaction") BY <1>3, <1>4
<1>6. /\ Key(t) \in Keys /\ \A i \in DOMAIN s : s[i][2] = Key(t)
      /\ Step(t) \notin {"sendtoaddress", "txUnlock", "sendrawtransaction"}
      /\ Step(t) = "createrawtransaction" => ~Has(s, "txLock") /\ ~Has(s, "listunspent")
      /\ Step(t) = "listunspent" => ~Has(s, "txLock") BY <1>3, <1>5, SenderFacts
<1>7. pc'[t] # <<>>
   <2>1. DOMAIN <<>> = {} OBVIOUS
   <2> QED BY <1>2, <1>3, <2>1 DEF Has
<1>8. Key(t)' = Key(t)
   <2>1. Tail(s) \in Scripts BY <1>1, TailFacts
   <2>2. 1 \in DOMAIN Tail(s) BY <1>2, <1>7, <2>1, ScriptFacts
   <2>3. 1 + 1 \in DOMAIN s /\ Tail(s)[1] = s[1+1] BY <1>1, <2>2, TailFacts
   <2> QED BY <1>2, <1>6, <2>3 DEF Key
<1>9. LockedAt(t) BY DEF Locked, LockedAt
<1>10. \A n : Passed(t, n)' <=> ~Has(Tail(s), n) BY <1>2, <1>3 DEF Passed
<1>11. \A n : Passed(t, n) <=> ~Has(s, n) BY <1>5 DEF Passed
<1>12. spent' = spent BY <1>6, SpentSteps
<1>13. Passed(t, "txLock")' => Holding(t)'
   <2> SUFFICES ASSUME ~Has(Tail(s), "txLock") PROVE Holding(t)' BY <1>10
   <2>1. CASE Step(t) = "txLock"
      <3>1. HasPtr(t) BY <1>1, <2>1 DEF Pointed, At
      <3>2. wallet[Key(t)] # 0 /\ ptr[t] = wallet[Key(t)] /\ wallet[Key(t)] \in DOMAIN obj
          BY <1>6, <3>1 DEF HasPtr, Entry, Base, Mapped
      <3>3. ObjStep(t, wallet[Key(t)]) BY <3>2, ObjSteps
      <3>4. obj'[wallet[Key(t)]].txLock = t BY <1>7, <2>1, <3>2, <3>3 DEF ObjStep
      <3>5. wallet'[Key(t)] = wallet[Key(t)] BY <1>6, <3>2, EntryKept
      <3> QED BY <1>8, <3>2, <3>4, <3>5 DEF Holding, Entry
   <2>2. CASE Step(t) # "txLock"
      <3>1. Holding(t) BY <2>2, <1>4, <1>9, <1>11 DEF LockedAt
      <3>2. wallet[Key(t)] # 0 /\ obj[wallet[Key(t)]].txLock = t BY <3>1 DEF Holding, Entry
      <3>3. wallet'[Key(t)] = wallet[Key(t)] /\ obj'[wallet[Key(t)]].txLock = t
          BY <1>6, <1>7, <3>2, HoldingKept
      <3> QED BY <1>8, <3>2, <3>3 DEF Holding, Entry
   <2> QED BY <2>1, <2>2
<1>14. Passed(t, "listunspent")' => Passed(t, "txLock")' /\ listed'[t] \cap spent'[Key(t)'] = {}
   <2> SUFFICES ASSUME ~Has(Tail(s), "listunspent") PROVE ~Has(Tail(s), "txLock")
         /\ listed'[t] \cap spent[Key(t)] = {}
       BY <1>8, <1>10, <1>12
   <2>1. CASE Step(t) = "listunspent"
      <3>1. listed'[t] = Unspent(Key(t)) BY <1>7, <2>1, SpentSteps
      <3> QED BY <1>4, <1>6, <2>1, <3>1 DEF Unspent
   <2>2. CASE Step(t) # "listunspent"
      <3>1. listed'[t] = listed[t] BY <2>2, SpentSteps
      <3>2. Passed(t, "listunspent") BY <2>2, <1>4, <1>11
      <3> QED BY <1>4, <1>9, <1>11, <3>1, <3>2 DEF LockedAt
   <2> QED BY <2>1, <2>2
<1>15. Passed(t, "createrawtransaction")' => Passed(t, "txLock")' /\ inputs'[t] \cap spent'[Key(t)'] = {}
   <2> SUFFICES ASSUME ~Has(Tail(s), "createrawtransaction") PROVE ~Has(Tail(s), "txLock")
         /\ inputs'[t] \cap spent[Key(t)] = {}
       BY <1>8, <1>10, <1>12
   <2>1. CASE Step(t) = "createrawtransaction"
      <3>1. inputs'[t] \subseteq listed[t] BY <1>7, <2>1, SpentSteps
      <3>2. Passed(t, "listunspent") BY <1>6, <1>11, <2>1
      <3> QED BY <1>4, <1>6, <1>9, <2>1, <3>1, <3>2 DEF LockedAt
   <2>2. CASE Step(t) # "createrawtransaction"
      <3>1. inputs'[t] = inputs[t] BY <2>2, SpentSteps
      <3>2. Passed(t, "createrawtransaction") BY <2>2, <1>4, <1>11
      <3> QED BY <1>4, <1>9, <1>11, <3>1, <3>2 DEF LockedAt
   <2> QED BY <2>1, <2>2
<1> QED BY <1>13, <1>14, <1>15 DEF LockedAt

\* Any own step.
LEMMA LockedOwn ==
  ASSUME Base, Utxo, OnePut, Pointed, Locked, NEW t \in Procs, ProcStep(t)
  PROVE  LockedAt(t)'
<1> DEFINE s == pc[t]
<1>1. Busy(t) /\ Moves(t) /\ pc \in [Procs -> Scripts] /\ s \in Scripts /\ s # <<>> /\ Ordered(s)
   BY Outcomes, Moving DEF Base, TypeOK, Shaped, Shape, Busy
<1>2. CASE Tailed(t) BY <1>2, LockedTail
<1>3. CASE Dropped(t)
   <2>1. pc'[t] = <<>> /\ DOMAIN <<>> = {} BY <1>1, <1>3 DEF Dropped
   <2> QED BY <2>1 DEF LockedAt, Passed, Has
<1>4. CASE Given(t)
   <2>1. PICK r : Fit(r) /\ pc' = [pc EXCEPT ![t] = r] BY <1>4 DEF Given
   <2>2. Whole(r) /\ pc'[t] = r BY <1>1, <2>1 DEF Fit
   <2> QED BY <2>2 DEF LockedAt, Passed, Whole
<1>5. ASSUME Step(t) \notin {"txUnlock", "listunspent", "createrawtransaction", "sendrawtransaction",
      "sendtoaddress"}, pc'[t] # <<>>,
             Key(t)' = Key(t), \A m \in {"sendrawtransaction", "txLock", "listunspent",
               "createrawtransaction"} : Has(pc'[t], m) <=> Has(s, m)
      PROVE LockedAt(t)'
   <2>1. \A n \in {"txLock", "listunspent", "createrawtransaction"} : Passed(t, n)' <=> Passed(t, n)
       BY <1>5 DEF Passed
   <2>2. LockedAt(t) BY DEF Locked, LockedAt
   <2>3. spent' = spent /\ listed'[t] = listed[t] /\ inputs'[t] = inputs[t] BY <1>5, SpentSteps
   <2>4. ASSUME Passed(t, "txLock") PROVE Holding(t)'
      <3>1. Holding(t) /\ Key(t) \in Keys BY <2>2, <2>4, SenderFacts DEF LockedAt, Passed
      <3>2. wallet[Key(t)] # 0 /\ obj[wallet[Key(t)]].txLock = t BY <3>1 DEF Holding, Entry
      <3>3. wallet'[Key(t)] = wallet[Key(t)] /\ obj'[wallet[Key(t)]].txLock = t
          BY <1>5, <3>1, <3>2, HoldingKept
      <3> QED BY <1>5, <3>2, <3>3 DEF Holding, Entry
   <2> QED BY <1>5, <2>1, <2>2, <2>3, <2>4 DEF LockedAt
<1>6. CASE Renames(t)
   <2>1. PICK n : <<Step(t), n>> \in Turned /\ pc' = [pc EXCEPT ![t] = Renamed(s, n)]
       BY <1>6 DEF Renames
   <2>2. n \in Names BY <2>1 DEF Turned, Names, Commands, PlainCommands
   <2>3. Renamed(s, n)[1] = <<n, s[1][2]>> /\ DOMAIN Renamed(s, n) = DOMAIN s
       BY <1>1, <2>2, RenamedFacts
   <2>4. pc'[t] = Renamed(s, n) BY <1>1, <2>1
   <2>5. Key(t)' = Key(t) BY <2>3, <2>4 DEF Key
   <2>6. \A m \in {"sendrawtransaction", "txLock", "listunspent", "createrawtransaction"} : Has(pc'[t],
         m) <=> Has(s, m)
      BY <1>1, <2>1, <2>4, OrderedRenamed DEF Step
   <2>7. 1 \in DOMAIN pc'[t] /\ DOMAIN <<>> = {} BY <1>1, <2>3, <2>4, ScriptFacts
   <2>8. pc'[t] # <<>> BY <2>7
   <2>9. Step(t) \notin {"txUnlock", "listunspent", "createrawtransaction", "sendrawtransaction",
         "sendtoaddress"}
       BY <2>1 DEF Turned
   <2> QED BY <1>5, <2>5, <2>6, <2>8, <2>9
<1>7. CASE pc' = pc /\ Step(t) = "readAccount"
   <2>1. Key(t)' = Key(t) /\ pc'[t] # <<>> BY <1>1, <1>7 DEF Key
   <2> QED BY <1>5, <1>7, <2>1
<1> QED BY <1>1, <1>2, <1>3, <1>4, <1>6, <1>7 DEF Moves

\* The third layer, under a step of a goroutine.
LEMMA SendProc == ASSUME Base, SendInv, NEW t \in Procs, ProcStep(t) PROVE SendInv'
<1>1. UNCHANGED config BY NodeSteps
<1>2. SUFFICES ASSUME Utxo PROVE (OnePut /\ Pointed /\ Locked)' BY <1>1 DEF SendInv, Utxo, config
<1>3. OnePut /\ Pointed /\ Locked BY <1>2 DEF SendInv
<1>4. \A u \in Procs : LockedAt(u)' BY <1>2, <1>3, LockedOther, LockedOwn
<1>5. Locked' BY <1>4 DEF Locked, LockedAt
<1> QED BY <1>2, <1>3, <1>5, OnePutStep, PointedStep

\* Under the others.
LEMMA SendEnv == ASSUME Base, Fresh, SendInv, EnvStep PROVE SendInv'
<1>1. /\ UNCHANGED <<config, mapAccess, wallet, obj, nextAcctNum, ptr, got, listed, inputs, created,
           loaded, accts, spent, failed, lost>>
      /\ pc' = pc \/ Begun BY EnvSteps
<1>2. UNCHANGED <<family, wallet, obj, ptr, listed, inputs, created, spent>> BY <1>1 DEF config
<1>3. SUFFICES ASSUME Utxo PROVE (OnePut /\ Pointed /\ Locked)' BY <1>2 DEF SendInv, Utxo
<1>4. OnePut /\ Pointed /\ Locked BY <1>3 DEF SendInv
<1>5. \A u \in Procs : pc'[u] # <<>> /\ pc'[u][1][1] \in Followers => pc'[u] = pc[u] BY <1>1, BegunHead
<1>6. \A u \in Procs : At(u, {"put", "txLock", "sendtoaddress", "txUnlock"})' => pc'[u] = pc[u]
   BY <1>3, <1>5 DEF At, Busy, Step, Followers
<1>7. OnePut' BY <1>2, <1>4, <1>6 DEF OnePut, At, Busy, Step, Key
<1>8. ASSUME NEW u \in Procs, pc'[u] # pc[u] PROVE \E r : Fit(r) /\ pc'[u] = r
   <2>1. PICK t \in Procs : \E r : Fit(r) /\ pc' = [pc EXCEPT ![t] = r]
       BY <1>1, <1>8 DEF Begun, Given
   <2>2. PICK r : Fit(r) /\ pc' = [pc EXCEPT ![t] = r] BY <2>1
   <2>3. pc \in [Procs -> Scripts] BY DEF Base, TypeOK
   <2> QED BY <1>8, <2>2, <2>3
<1>9. ASSUME NEW u \in Procs, 2 \in DOMAIN pc'[u], pc'[u][2][1] = "txLock",
      pc'[u][1][1] \in Begins PROVE pc'[u] = pc[u]
   <2> SUFFICES ASSUME pc'[u] # pc[u] PROVE FALSE OBVIOUS
   <2>1. PICK r : Fit(r) /\ pc'[u] = r BY <1>8
   <2>2. Linked(r, TRUE) BY <2>1 DEF Fit, Sound
   <2>3. 2 > 1 /\ 2 - 1 = 1 OBVIOUS
   <2> QED BY <1>9, <2>1, <2>2, <2>3 DEF Linked
<1>10. \A u \in Procs : pc'[u] = pc[u] => (HasPtr(u)' <=> HasPtr(u)) /\ (Holding(u)' <=> Holding(u))
    BY <1>2 DEF HasPtr, Holding, Entry, Key
<1>11. Pointed'
   <2> SUFFICES ASSUME NEW u \in Procs PROVE
         /\ At(u, {"txLock", "sendtoaddress", "txUnlock"})' => HasPtr(u)'
         /\ At(u, {"sendtoaddress", "txUnlock"})' => Holding(u)'
         /\ (At(u, Begins) /\ 2 \in DOMAIN pc[u] /\ pc[u][2][1] = "txLock")' => HasPtr(u)'
       BY DEF Pointed
   <2>1. At(u, {"txLock", "sendtoaddress", "txUnlock"})' => HasPtr(u)'
       BY <1>4, <1>6, <1>10 DEF Pointed, At, Busy, Step
   <2>2. At(u, {"sendtoaddress", "txUnlock"})' => Holding(u)'
       BY <1>4, <1>6, <1>10 DEF Pointed, At, Busy, Step
   <2>3. (At(u, Begins) /\ 2 \in DOMAIN pc[u] /\ pc[u][2][1] = "txLock")' => HasPtr(u)'
      BY <1>4, <1>9, <1>10 DEF Pointed, At, Busy, Step, Begins
   <2> QED BY <2>1, <2>2, <2>3
<1>12. ASSUME NEW u \in Procs PROVE LockedAt(u)'
   <2>1. CASE pc'[u] = pc[u]
      <3>1. LockedAt(u) BY <1>4 DEF Locked, LockedAt
      <3> QED BY <1>2, <1>10, <2>1, <3>1 DEF LockedAt, Passed, Key
   <2>2. CASE pc'[u] # pc[u]
      <3>1. PICK r : Fit(r) /\ pc'[u] = r BY <1>8, <2>2
      <3> QED BY <3>1 DEF Fit, Whole, LockedAt, Passed
   <2> QED BY <2>1, <2>2
<1>13. Locked' BY <1>12 DEF Locked, LockedAt
<1> QED BY <1>7, <1>11, <1>13

\* Initially.
LEMMA SendInit == ASSUME Init PROVE SendInv
<1>1. \A t \in Procs : pc[t] = <<>> BY DEF Init
<1>2. \A t \in Procs : \A n : ~Has(pc[t], n)
   <2>1. DOMAIN <<>> = {} OBVIOUS
   <2> QED BY <1>1, <2>1 DEF Has
<1>3. Utxo => \A k \in Keys : wallet[k] = 0 BY DEF Init, Utxo
<1>4. Utxo => OnePut BY <1>1, <1>3 DEF OnePut, At, Busy
<1>5. Pointed BY <1>1 DEF Pointed, At, Busy
<1>6. Locked BY <1>2 DEF Locked, Passed
<1> QED BY <1>4, <1>5, <1>6 DEF SendInv

\* The third layer implies the property.
LEMMA NotSpentTwice == ASSUME Base, SendInv PROVE NoDoubleSpend
<1> SUFFICES ASSUME NEW t \in Procs, At(t, {"sendrawtransaction"}) PROVE inputs[t] \cap spent[Key(t)] = {}
    BY DEF NoDoubleSpend
<1>1. Busy(t) /\ Step(t) = "sendrawtransaction" BY DEF At
<1>2. Utxo /\ 1 \in DOMAIN pc[t] BY <1>1, HeadFacts DEF Foreign
<1>3. Has(pc[t], "sendrawtransaction") BY <1>1, <1>2 DEF Has, Step
<1>4. Passed(t, "createrawtransaction") BY <1>1, <1>3, SenderFacts DEF Passed
<1> QED BY <1>2, <1>4 DEF SendInv, Locked

----------------------------------------------------------------------------
(* The fourth layer: loaded wallets. *)

\* The loads held at the first step: none at a leaver or for other key names.
LEMMA TokensHead ==
  ASSUME NEW s \in Scripts, s # <<>>, Nested(s, FALSE), NEW k
  PROVE
  /\ s[1][1] \in Leavers \/ s[1][2] # k => Tokens(s, k) = {}
  /\ s[1][1] \in Ends /\ s[1][2] = k => Len(s) - 1 \in Tokens(s, k)
<1>1. 1 \in DOMAIN s /\ Len(s) \in Nat /\ Len(s) > 0 /\ \A i \in DOMAIN s : i \in Nat /\ i > 0
    BY ScriptFacts
<1>2. ASSUME NEW i \in Open(s, k) PROVE s[1][1] \notin Leavers /\ s[1][2] = k
   <2>1. i \in DOMAIN s /\ IsEnd(s, i) /\ s[i][2] = k /\ (i = 1 \/ Opener(s, i) < 1)
       BY <1>2 DEF Open, IsEnd
   <2>2. CASE i = 1 BY <2>1, <2>2 DEF Leavers, Ends, IsEnd
   <2>3. CASE i # 1
      <3>1. EndAt(s, FALSE, i) BY <2>1, <2>3, NestedParts DEF NestedAt
      <3>2. i \in Nat /\ i > 1 /\ Opener(s, i) < 1 /\ Opener(s, i) \in Int
          BY <1>1, <2>1, <2>3, GapNat DEF Opener
      <3>3. Opener(s, i) <= 1 /\ 1 <= i /\ 1 < i /\ ~(Opener(s, i) > 1) BY <3>2
      <3>4. s[1][2] = s[i][2] BY <1>1, <3>1, <3>3 DEF EndAt
      <3>5. s[1][1] \notin Leavers BY <1>1, <3>1, <3>3 DEF EndAt
      <3> QED BY <2>1, <3>4, <3>5
   <2> QED BY <2>2, <2>3
<1>3. s[1][1] \in Leavers \/ s[1][2] # k => Tokens(s, k) = {} BY <1>2 DEF Tokens
<1>4. ASSUME s[1][1] \in Ends, s[1][2] = k PROVE Len(s) - 1 \in Tokens(s, k)
   <2>1. 1 \in Open(s, k) BY <1>1, <1>4 DEF Open
   <2>2. Len(s) - 1 \in Nat /\ Len(s) - (Len(s) - 1) = 1 BY <1>1
   <2> QED BY <2>1, <2>2 DEF Tokens
<1> QED BY <1>3, <1>4

\* Which UnloadWallets are open after the first step.
LEMMA OpenTail ==
  ASSUME NEW s \in Scripts, s # <<>>, Nested(s, FALSE), NEW k, NEW i \in Int
  PROVE
  i - 1 \in Open(Tail(s), k) <=> i \in DOMAIN s /\ i # 1 /\ s[i][1] \in Ends /\ s[i][2] = k
    /\ Opener(s, i) < 2
<1> DEFINE r == Tail(s)
<1>1. r \in Scripts /\ (\A j \in DOMAIN r : j \in Nat /\ j > 0 /\ j + 1 \in DOMAIN s /\ r[j] = s[j+1])
      /\ (\A j \in DOMAIN s : j > 1 => j - 1 \in DOMAIN r /\ r[j-1] = s[j]) BY TailFacts
<1>2. \A j \in DOMAIN s : j \in Nat /\ j > 0 BY ScriptFacts
<1>3. ASSUME i \in DOMAIN s, i # 1 PROVE i - 1 \in DOMAIN r /\ r[i-1] = s[i] /\ i > 1 /\ i \in Nat
    BY <1>1, <1>2, <1>3
<1>4. ASSUME i - 1 \in DOMAIN r PROVE i \in DOMAIN s /\ i # 1
   <2>1. (i - 1) + 1 = i /\ i - 1 > 0 BY <1>1, <1>4
   <2> QED BY <1>1, <1>4, <2>1
<1>5. ASSUME i \in DOMAIN s, i # 1, s[i][1] \in Ends PROVE Opener(s, i) < 2 <=> (i - 1 = 1
      \/ Opener(r, i - 1) < 1)
   <2>1. EndAt(s, FALSE, i) BY <1>5, NestedParts DEF NestedAt, IsEnd
   <2>2. Gap(s[i-1][1]) > 0 /\ Gap(s[i-1][1]) \in Nat BY <2>1, GapNat DEF EndAt
   <2>3. CASE i = 2
      <3>1. i - 1 = 1 /\ i - Gap(s[i-1][1]) < 2 BY <2>2, <2>3
      <3> QED BY <3>1 DEF Opener
   <2>4. CASE i # 2
      <3>1. i - 1 > 1 /\ i - 1 \in DOMAIN r /\ (i - 1) - 1 \in Int /\ i - 1 \in DOMAIN s
         <4>1. i \in Nat /\ i > 1 /\ i - 1 \in DOMAIN r BY <1>3, <1>5
         <4>2. DOMAIN s = 1..Len(s) /\ Len(s) \in Nat BY ScriptFacts
         <4> QED BY <1>5, <2>4, <4>1, <4>2
      <3>2. r[(i-1)-1] = s[i-1] BY <1>1, <3>1
      <3>3. i - 1 # 1 /\ ((i - 1) - Gap(s[i-1][1]) < 1 <=> i - Gap(s[i-1][1]) < 2) BY <2>2, <3>1
      <3> QED BY <3>2, <3>3 DEF Opener
   <2> QED BY <2>3, <2>4
<1> QED BY <1>3, <1>4, <1>5 DEF Open

\* A step that is done takes, gives back or keeps a load.
LEMMA TokensTail ==
  ASSUME NEW s \in Scripts, s # <<>>, Nested(s, FALSE), NEW k
  PROVE
  /\ s[1][1] \notin Ends \cup Opens \/ s[1][2] # k => Tokens(Tail(s), k) = Tokens(s, k)
  /\ s[1][1] \in Ends /\ s[1][2] = k => Tokens(Tail(s), k) = Tokens(s, k) \ {Len(s) - 1}
  /\ s[1][1] \in Opens /\ s[1][2] = k => \E n \in Nat : n \notin Tokens(s, k)
       /\ Tokens(Tail(s), k) = Tokens(s, k) \cup {n}
<1> DEFINE T(i) == i \in DOMAIN s /\ i # 1 /\ s[i][1] \in Ends /\ s[i][2] = k
<1>1. Len(s) \in Nat /\ Len(Tail(s)) = Len(s) - 1 /\ 1 \in DOMAIN s /\ DOMAIN s = 1..Len(s)
    BY ScriptFacts, TailFacts
<1>2. ASSUME NEW n \in Nat PROVE n \in Tokens(Tail(s), k) <=> T(Len(s) - n) /\ Opener(s, Len(s) - n) < 2
   <2>1. (Len(s) - 1) - n = (Len(s) - n) - 1 /\ Len(s) - n \in Int BY <1>1
   <2>2. n \in Tokens(Tail(s), k) <=> (Len(s) - n) - 1 \in Open(Tail(s), k) BY <1>1, <2>1 DEF Tokens
   <2> QED BY <2>1, <2>2, OpenTail
<1>3. ASSUME NEW n \in Nat PROVE n \in Tokens(s, k) <=>
        (Len(s) - n = 1 /\ s[1][1] \in Ends /\ s[1][2] = k) \/ (T(Len(s) - n) /\ Opener(s, Len(s) - n) < 1)
   BY <1>1, <1>3 DEF Tokens, Open
<1>4. ASSUME NEW i, T(i) PROVE /\ Opener(s, i) \in Int /\ i \in Nat /\ i > 1
                               /\ Opener(s, i) = 1 => s[1][1] \in Opens /\ s[1][2] = k
                               /\ \A j \in DOMAIN s : j > 1 /\ j # i /\ IsEnd(s, j) =>
                                    Opener(s, j) # Opener(s, i)
   <2>1. EndAt(s, FALSE, i) BY <1>4, NestedParts DEF NestedAt, IsEnd
   <2>2. i \in Nat /\ i > 1 /\ Gap(s[i-1][1]) \in Nat BY <1>1, <1>4, GapNat
   <2>3. Opener(s, i) \in Int BY <2>2 DEF Opener
   <2>4. ASSUME Opener(s, i) = 1 PROVE s[1][1] \in Opens /\ s[1][2] = k
      <3>1. Opener(s, i) <= 1 /\ 1 <= i /\ ~(Opener(s, i) < 1) BY <2>2, <2>4
      <3>2. s[Opener(s, i)][1] \in Opens BY <2>1, <3>1 DEF EndAt
      <3>3. s[1][2] = s[i][2] BY <1>1, <2>1, <3>1 DEF EndAt
      <3> QED BY <1>4, <2>4, <3>2, <3>3
   <2> QED BY <2>1, <2>2, <2>3, <2>4 DEF EndAt
<1>5. ASSUME NEW i, T(i), Opener(s, i) # 1 PROVE Opener(s, i) < 2 <=> Opener(s, i) < 1 BY <1>4, <1>5
<1>6. Ends \cap Opens = {} BY DEF Ends, Opens, Begins
<1>7. Tokens(Tail(s), k) \subseteq Nat /\ Tokens(s, k) \subseteq Nat BY DEF Tokens
<1>8. ASSUME s[1][1] \notin Ends \cup Opens \/ s[1][2] # k PROVE Tokens(Tail(s), k) = Tokens(s, k)
   <2>1. \A n \in Nat : n \in Tokens(Tail(s), k) <=> n \in Tokens(s, k) BY <1>2, <1>3, <1>4, <1>5, <1>8
   <2> QED BY <1>7, <2>1
<1>9. ASSUME s[1][1] \in Ends, s[1][2] = k PROVE Tokens(Tail(s), k) = Tokens(s, k) \ {Len(s) - 1}
   <2>1. ASSUME NEW n \in Nat PROVE n \in Tokens(Tail(s), k) <=> n \in Tokens(s, k) /\ n # Len(s) - 1
      <3>1. Len(s) \in Nat /\ n \in Nat BY <1>1
      <3>2. Len(s) - n = 1 <=> n = Len(s) - 1 BY <3>1
      <3>3. T(Len(s) - n) => n # Len(s) - 1 BY <3>2
      <3> QED BY <1>2, <1>3, <1>4, <1>5, <1>6, <1>9, <3>2, <3>3
   <2> QED BY <1>7, <2>1
<1>10. ASSUME s[1][1] \in Opens, s[1][2] = k PROVE \E n \in Nat : n \notin Tokens(s, k)
      /\ Tokens(Tail(s), k) = Tokens(s, k) \cup {n}
   <2>1. PICK j \in DOMAIN s : j > 1 /\ IsEnd(s, j) /\ Opener(s, j) = 1
       BY <1>1, <1>10, NestedParts DEF NestedAt, OpenAt
   <2>2. j \in Nat /\ j # 1 BY <1>1, <2>1
   <2>3. NestedAt(s, FALSE, j) BY NestedParts
   <2>4. EndAt(s, FALSE, j) /\ j \in Nat BY <2>1, <2>2, <2>3 DEF NestedAt
   <2>5. s[1][2] = s[j][2] BY <1>1, <2>1, <2>4 DEF EndAt
   <2>6. T(j) BY <1>10, <2>1, <2>5 DEF IsEnd
   <2>7. Len(s) - j \in Nat /\ Len(s) - (Len(s) - j) = j BY <1>1, <2>1
   <2> DEFINE m == Len(s) - j
   <2>8. m \notin Tokens(s, k)
      <3>1. ~(Opener(s, j) < 1) /\ j # 1 BY <2>1
      <3> QED BY <1>3, <2>7, <3>1
   <2>9. m \in Tokens(Tail(s), k) BY <1>2, <2>1, <2>6, <2>7
   <2>10. ASSUME NEW n \in Nat, n # m PROVE n \in Tokens(Tail(s), k) <=> n \in Tokens(s, k)
      <3>1. Len(s) - n # j BY <1>1, <2>4, <2>10
      <3>2. T(Len(s) - n) => Opener(s, Len(s) - n) # 1
         <4> SUFFICES ASSUME T(Len(s) - n) PROVE Opener(s, Len(s) - n) # 1 OBVIOUS
         <4>1. Len(s) - n \in DOMAIN s /\ Len(s) - n > 1 /\ IsEnd(s, Len(s) - n) BY <1>4 DEF IsEnd
         <4> QED BY <1>4, <2>1, <2>6, <3>1, <4>1
      <3>3. s[1][1] \notin Ends BY <1>6, <1>10
      <3> QED BY <1>2, <1>3, <1>5, <3>2, <3>3
   <2> HIDE DEF m
   <2>11. Tokens(Tail(s), k) = Tokens(s, k) \cup {m} /\ m \in Nat BY <1>7, <2>9, <2>10
   <2> QED BY <2>8, <2>11
<1> QED BY <1>8, <1>9, <1>10

\* A step that is turned keeps the loads.
LEMMA TokensRenamed ==
  ASSUME NEW s \in Scripts, s # <<>>, NEW n, <<s[1][1], n>> \in Turned, NEW k
  PROVE  Tokens(Renamed(s, n), k) = Tokens(s, k)
<1> DEFINE r == Renamed(s, n)
<1>1. n \in Names BY DEF Turned, Names, Commands, PlainCommands
<1>2. DOMAIN r = DOMAIN s /\ Len(r) = Len(s) /\ r[1] = <<n, s[1][2]>> /\ (\A i \in DOMAIN s : i > 1 =>
      r[i] = s[i])
    BY <1>1, RenamedFacts
<1>3. (n \in Ends <=> s[1][1] \in Ends) /\ Gap(n) = Gap(s[1][1]) BY DEF Turned, Ends, Gap
<1>4. Len(s) \in Nat /\ DOMAIN s = 1..Len(s) /\ Len(s) > 0 BY ScriptFacts
<1> HIDE DEF r
<1>5. ASSUME NEW i \in DOMAIN s, i # 1 PROVE r[i] = s[i] /\ Gap(r[i-1][1]) = Gap(s[i-1][1])
   <2>1. i > 1 /\ i - 1 \in DOMAIN s /\ (i - 1 = 1 \/ i - 1 > 1) BY <1>4, <1>5
   <2>2. CASE i - 1 = 1 BY <1>2, <1>3, <2>1, <2>2
   <2>3. CASE i - 1 > 1 BY <1>2, <2>1, <2>3
   <2> QED BY <2>1, <2>2, <2>3
<1>6. \A i \in DOMAIN s : (r[i][1] \in Ends <=> s[i][1] \in Ends) /\ r[i][2] = s[i][2]
    BY <1>2, <1>3, <1>5
<1>7. Open(r, k) = Open(s, k) BY <1>2, <1>5, <1>6 DEF Open, Opener
<1>8. Tokens(r, k) = Tokens(s, k) BY <1>2, <1>7 DEF Tokens
<1> QED BY <1>8 DEF r

\* Ended and new calls hold none.
LEMMA TokensNone ==
  ASSUME NEW k
  PROVE  Tokens(<<>>, k) = {} /\ \A r : Fit(r) /\ Counts => Tokens(r, k) = {}
<1>1. DOMAIN <<>> = {} OBVIOUS
<1>2. Tokens(<<>>, k) = {} BY <1>1 DEF Tokens, Open
<1>3. ASSUME NEW r, Fit(r), Counts, NEW i \in Open(r, k) PROVE FALSE
   <2>1. r \in Scripts /\ Nested(r, TRUE) BY <1>3 DEF Fit, Sound
   <2>2. i \in DOMAIN r /\ IsEnd(r, i) /\ (i = 1 \/ Opener(r, i) < 1) BY <1>3 DEF Open, IsEnd
   <2>3. NestedAt(r, TRUE, i) BY <2>1, <2>2, NestedParts
   <2> QED BY <2>2, <2>3 DEF NestedAt, EndAt
<1> QED BY <1>2, <1>3 DEF Tokens

\* From one script's loads to all loads.
LEMMA HoldsMoves ==
  ASSUME NEW t \in Procs, \A u \in Procs : u # t => pc'[u] = pc[u], NEW k
  PROVE
  /\ Tokens(pc'[t], k) = Tokens(pc[t], k) => Holds(k)' = Holds(k)
  /\ Tokens(pc'[t], k) \subseteq Tokens(pc[t], k) => Holds(k)' \subseteq Holds(k)
  /\ \A n \in Nat : Tokens(pc'[t], k) = Tokens(pc[t], k) \ {n} => Holds(k)' = Holds(k) \ {<<t, n>>}
  /\ \A n \in Nat : Tokens(pc'[t], k) = Tokens(pc[t], k) \cup {n} => Holds(k)' = Holds(k) \cup {<<t, n>>}
<1>1. Holds(k)' = {x \in Procs \X Nat : x[2] \in Tokens(pc'[x[1]], k)}
    BY DEF Holds, Tokens, Open, Opener, Ends, Gap
<1>2. \A x \in Procs \X Nat : x = <<x[1], x[2]>> /\ x[1] \in Procs /\ x[2] \in Nat OBVIOUS
<1>3. \A x \in Procs \X Nat : x[1] # t => (x \in Holds(k)' <=> x \in Holds(k)) BY <1>1, <1>2 DEF Holds
<1>4. \A x \in Procs \X Nat : x[1] = t => (x \in Holds(k)' <=> x[2] \in Tokens(pc'[t], k))
      /\ (x \in Holds(k) <=> x[2] \in Tokens(pc[t], k))
    BY <1>1 DEF Holds
<1>5. Holds(k)' \subseteq Procs \X Nat /\ Holds(k) \subseteq Procs \X Nat BY <1>1 DEF Holds
<1>6. ASSUME Tokens(pc'[t], k) = Tokens(pc[t], k) PROVE Holds(k)' = Holds(k) BY <1>3, <1>4, <1>5, <1>6
<1>7. ASSUME Tokens(pc'[t], k) \subseteq Tokens(pc[t], k) PROVE Holds(k)' \subseteq Holds(k)
    BY <1>3, <1>4, <1>5, <1>7
<1>8. ASSUME NEW n \in Nat, Tokens(pc'[t], k) = Tokens(pc[t], k) \ {n}
      PROVE Holds(k)' = Holds(k) \ {<<t, n>>}
   <2>1. \A x \in Procs \X Nat : x = <<t, n>> <=> x[1] = t /\ x[2] = n BY <1>2
   <2> QED BY <1>3, <1>4, <1>5, <1>8, <2>1
<1>9. ASSUME NEW n \in Nat, Tokens(pc'[t], k) = Tokens(pc[t], k) \cup {n}
      PROVE Holds(k)' = Holds(k) \cup {<<t, n>>}
   <2>1. \A x \in Procs \X Nat : x = <<t, n>> <=> x[1] = t /\ x[2] = n BY <1>2
   <2>2. <<t, n>> \in Procs \X Nat OBVIOUS
   <2> QED BY <1>3, <1>4, <1>5, <1>9, <2>1, <2>2
<1> QED BY <1>6, <1>7, <1>8, <1>9

\* What every step does to the loads held.
LEMMA HoldsSteps ==
  ASSUME Base, Counts, NEW t \in Procs, ProcStep(t), NEW k
  PROVE
  /\ Tailed(t) /\ Step(t) \in Ends /\ Key(t) = k => \E x \in Holds(k) : Holds(k)' = Holds(k) \ {x}
  /\ Tailed(t) /\ Step(t) \in Opens /\ Key(t) = k => \E x : x \notin Holds(k)
       /\ Holds(k)' = Holds(k) \cup {x}
  /\ Tailed(t) /\ (Step(t) \notin Ends \cup Opens \/ Key(t) # k) => Holds(k)' = Holds(k)
  /\ Dropped(t) => Holds(k)' \subseteq Holds(k) /\ (Key(t) # k \/ Step(t) = "keyOfAddress" =>
       Holds(k)' = Holds(k))
  /\ Renames(t) \/ pc' = pc \/ (Step(t) = "version" /\ Given(t)) => Holds(k)' = Holds(k)
<1> DEFINE s == pc[t]
<1>1. Busy(t) /\ (\A u \in Procs : u # t => pc'[u] = pc[u]) /\ pc \in [Procs -> Scripts]
    BY Outcomes, NodeSteps, Moving, Shapes DEF Base, TypeOK
<1>2. s \in Scripts /\ s # <<>> /\ Nested(s, FALSE) /\ s[1][1] = Step(t) /\ s[1][2] = Key(t)
      /\ Len(s) \in Nat /\ Len(s) > 0
   BY <1>1, HeadFacts DEF Base, Shaped, Shape, Step, Key
<1> HIDE DEF s
<1>3. ASSUME Tailed(t) PROVE
        /\ Step(t) \in Ends /\ Key(t) = k => \E x \in Holds(k) : Holds(k)' = Holds(k) \ {x}
        /\ Step(t) \in Opens /\ Key(t) = k => \E x : x \notin Holds(k) /\ Holds(k)' = Holds(k) \cup {x}
        /\ (Step(t) \notin Ends \cup Opens \/ Key(t) # k) => Holds(k)' = Holds(k)
   <2>1. pc'[t] = Tail(s) BY <1>1, <1>3 DEF Tailed, s
   <2>2. ASSUME Step(t) \in Ends, Key(t) = k PROVE \E x \in Holds(k) : Holds(k)' = Holds(k) \ {x}
      <3>1. Len(s) - 1 \in Tokens(s, k) BY <1>2, <2>2, TokensHead
      <3>2. Len(s) - 1 \in Nat BY <1>2
      <3>3. Tokens(Tail(s), k) = Tokens(s, k) \ {Len(s) - 1} BY <1>2, <2>2, TokensTail
      <3>4. Tokens(pc'[t], k) = Tokens(pc[t], k) \ {Len(s) - 1} BY <2>1, <3>3 DEF s
      <3>5. \A n \in Nat : Tokens(pc'[t], k) = Tokens(pc[t], k) \ {n} => Holds(k)' = Holds(k) \ {<<t, n>>}
          BY <1>1, HoldsMoves
      <3>6. Holds(k)' = Holds(k) \ {<<t, Len(s) - 1>>} BY <3>2, <3>4, <3>5
      <3>7. <<t, Len(s) - 1>> \in Holds(k) BY <3>2, <3>1 DEF Holds, s
      <3> QED BY <3>6, <3>7
   <2>3. ASSUME Step(t) \in Opens, Key(t) = k PROVE \E x : x \notin Holds(k)
         /\ Holds(k)' = Holds(k) \cup {x}
      <3>1. PICK n \in Nat : n \notin Tokens(s, k) /\ Tokens(Tail(s), k) = Tokens(s, k) \cup {n}
          BY <1>2, <2>3, TokensTail
      <3>2. Holds(k)' = Holds(k) \cup {<<t, n>>} BY <1>1, <2>1, <3>1, HoldsMoves DEF s
      <3>3. <<t, n>> \notin Holds(k) BY <3>1 DEF Holds, s
      <3> QED BY <3>2, <3>3
   <2>4. ASSUME Step(t) \notin Ends \cup Opens \/ Key(t) # k PROVE Holds(k)' = Holds(k)
      <3>1. Tokens(Tail(s), k) = Tokens(s, k) BY <1>2, <2>4, TokensTail
      <3> QED BY <1>1, <2>1, <3>1, HoldsMoves DEF s
   <2> QED BY <2>2, <2>3, <2>4
<1>4. ASSUME Dropped(t) PROVE Holds(k)' \subseteq Holds(k) /\ (Key(t) # k
      \/ Step(t) = "keyOfAddress" => Holds(k)' = Holds(k))
   <2>1. Tokens(pc'[t], k) = {} BY <1>1, <1>4, TokensNone DEF Dropped
   <2>2. Key(t) # k \/ Step(t) = "keyOfAddress" => Tokens(s, k) = {} BY <1>2, TokensHead DEF Leavers
   <2> QED BY <1>1, <2>1, <2>2, HoldsMoves DEF s
<1>5. ASSUME Renames(t) \/ pc' = pc \/ (Step(t) = "version" /\ Given(t)) PROVE Holds(k)' = Holds(k)
   <2>1. ASSUME Renames(t) PROVE Tokens(pc'[t], k) = Tokens(s, k)
      <3>1. PICK n : <<Step(t), n>> \in Turned /\ pc' = [pc EXCEPT ![t] = Renamed(s, n)]
          BY <2>1 DEF Renames, s
      <3>2. pc'[t] = Renamed(s, n) BY <1>1, <3>1
      <3> QED BY <1>2, <3>1, <3>2, TokensRenamed
   <2>2. ASSUME Step(t) = "version", Given(t) PROVE Tokens(pc'[t], k) = Tokens(s, k)
      <3>1. PICK r : Fit(r) /\ pc' = [pc EXCEPT ![t] = r] BY <2>2 DEF Given
      <3>2. pc'[t] = r BY <1>1, <3>1
      <3>3. Tokens(s, k) = {} BY <1>2, <2>2, TokensHead DEF Leavers
      <3> QED BY <3>1, <3>2, <3>3, TokensNone
   <2>3. pc' = pc => Tokens(pc'[t], k) = Tokens(s, k) BY DEF s
   <2> QED BY <1>1, <1>5, <2>1, <2>2, <2>3, HoldsMoves DEF s
<1> HIDE DEF Holds
<1> QED BY <1>3, <1>4, <1>5

\* The step is one of LoadWallet or UnloadWallet.
Counter(t) == Step(t) \in Begins \cup Ends

\* How such a step ends: with an error and the count as it was; with mu taken
\* and the command to run; with the count changed.
Refuses(t) ==
  /\ Dropped(t) /\ failed' = failed \cup {Key(t)}
  /\ Entry(t) # 0 => obj'[Entry(t)].loadCount = Own(t).loadCount /\ (obj'[Entry(t)].mu = Own(t).mu
       \/ Own(t).mu = t)
Locks(t) ==
  /\ Renames(t) /\ UNCHANGED failed /\ Step(t) \in {"load", "unload"}
  /\ pc'[t][1] = <<IF Step(t) = "load" THEN "loading" ELSE "unloading", Key(t)>>
  /\ Entry(t) # 0 /\ Own(t).mu = None /\ Own(t).loadCount = (IF Step(t) = "load" THEN 0 ELSE 1)
  /\ obj'[Entry(t)].mu = t /\ obj'[Entry(t)].loadCount = Own(t).loadCount
Counting(t) ==
  /\ Tailed(t) /\ UNCHANGED failed /\ Entry(t) # 0
  /\ Step(t) \in {"load", "unload"} => Own(t).mu = None
       /\ Own(t).loadCount # IF Step(t) = "load" THEN 0 ELSE 1
  /\ obj'[Entry(t)].loadCount = IF Step(t) \in Begins THEN Own(t).loadCount + 1
                                ELSE IF Own(t).loadCount > 0 THEN Own(t).loadCount - 1 ELSE 0

\* Every step of LoadWallet and UnloadWallet refuses, locks or counts.
LEMMA CounterSteps ==
  ASSUME Base, Utxo, Turning, NEW t \in Procs, ProcStep(t), Counter(t)
  PROVE
  /\ UNCHANGED wallet /\ (Refuses(t) \/ Locks(t) \/ Counting(t))
  /\ Fail(t) => Refuses(t)
  /\ Step(t) \in {"loading", "unloading"} /\ GoOn(t, [Counted(t) EXCEPT ![Entry(t)].mu = None]) =>
       Counting(t)
<1>1. Busy(t) /\ Outcome(t) /\ TypeOK /\ obj \in Seq(NodeWallet) BY Outcomes DEF Base, TypeOK
<1>2. Step(t) \in {"load", "unload", "loading", "unloading"} /\ pc[t] \in Scripts /\ pc[t] # <<>>
    BY <1>1, HeadFacts DEF Counter, Begins, Ends
<1>3. Entry(t) \in Nat /\ (Entry(t) # 0 => Entry(t) \in DOMAIN obj /\ Own(t) \in NodeWallet
      /\ Own(t).loadCount \in Nat)
   BY <1>1, <1>2, HeadFacts, OwnFacts
<1>4. ASSUME Fail(t) PROVE Refuses(t)
   <2>1. Dropped(t) /\ pc'[t] = <<>> /\ failed' = failed \cup {Key(t)}
         /\ \A i \in DOMAIN obj : Rest(obj[i], obj'[i], t)
       BY <1>1, <1>4, FailFacts
   <2>2. ASSUME Entry(t) # 0 PROVE Rest(Own(t), obj'[Entry(t)], t) BY <1>3, <2>1, <2>2 DEF Own
   <2> QED BY <2>1, <2>2 DEF Refuses, Rest
<1>5. ASSUME Step(t) \in {"load", "unload"} /\ Entry(t) # 0 /\ Own(t).mu = None /\ HasCommand(t)
      /\ UNCHANGED wallet
     /\ obj' = [obj EXCEPT ![Entry(t)] = [obj[Entry(t)] EXCEPT !.mu = t]]
          /\ Turn(t, IF Step(t) = "load" THEN "loading" ELSE "unloading")
     /\ UNCHANGED failed
     PROVE Locks(t)
   <2> DEFINE n == IF Step(t) = "load" THEN "loading" ELSE "unloading"
   <2>1. <<Step(t), n>> \in Turned /\ n \in Names BY <1>5 DEF Turned, Names, Commands
   <2>2. pc' = [pc EXCEPT ![t] = Renamed(pc[t], n)] BY <1>5 DEF Turn, Renamed
   <2>3. Renames(t) BY <2>1, <2>2 DEF Renames
   <2>4. pc'[t][1] = <<n, Key(t)>>
      <3>1. Renamed(pc[t], n)[1] = <<n, pc[t][1][2]>> BY <1>2, <2>1, RenamedFacts
      <3> QED BY <1>1, <2>2, <3>1 DEF TypeOK, Key
   <2>5. Own(t).loadCount = (IF Step(t) = "load" THEN 0 ELSE 1) BY <1>5 DEF HasCommand
   <2>6. obj'[Entry(t)] = [Own(t) EXCEPT !.mu = t] BY <1>1, <1>3, <1>5 DEF Own
   <2>7. obj'[Entry(t)].mu = t /\ obj'[Entry(t)].loadCount = Own(t).loadCount
       BY <1>3, <1>5, <2>6 DEF NodeWallet
   <2> QED BY <1>5, <2>3, <2>4, <2>5, <2>7 DEF Locks
<1> DEFINE c == IF Step(t) \in {"load", "loading"} THEN Own(t).loadCount + 1
                        ELSE IF Own(t).loadCount > 0 THEN Own(t).loadCount - 1 ELSE 0
<1>6. Entry(t) # 0 => c \in Nat
      /\ c = IF Step(t) \in Begins THEN Own(t).loadCount + 1 ELSE IF Own(t).loadCount > 0 THEN Own(t).loadCount - 1 ELSE 0
   BY <1>3 DEF Begins
<1> HIDE DEF c
<1>7. ASSUME NEW w \in NodeWallet, Entry(t) # 0, w.loadCount = c, GoOn(t, [obj EXCEPT ![Entry(t)] = w])
      PROVE Tailed(t) /\ UNCHANGED failed /\ obj'[Entry(t)].loadCount = c
   <2> DEFINE o == [obj EXCEPT ![Entry(t)] = w]
   <2>1. o \in Seq(NodeWallet) /\ DOMAIN o = DOMAIN obj /\ o[Entry(t)] = w BY <1>1, <1>3, <1>7, SetField
   <2>2. GoOn(t, o) BY <1>7
   <2> HIDE DEF o
   <2>3. Tailed(t) /\ UNCHANGED failed /\ \A i \in DOMAIN o : Rest(o[i], obj'[i], t)
       BY <1>1, <2>1, <2>2, GoOnFacts
   <2>4. Rest(w, obj'[Entry(t)], t) BY <1>3, <1>7, <2>1, <2>3
   <2> QED BY <1>7, <2>3, <2>4 DEF Rest
<1>8. ASSUME Step(t) \in {"load", "unload"}, Entry(t) # 0, Own(t).mu = None, ~HasCommand(t), GoOn(t,
      Counted(t)) PROVE Counting(t)
   <2> DEFINE w == [Own(t) EXCEPT !.loadCount = c]
   <2>1. Counted(t) = [obj EXCEPT ![Entry(t)] = w] BY <1>1, <1>2, <1>8, OwnFacts DEF c
   <2>2. w \in NodeWallet /\ w.loadCount = c BY <1>3, <1>8, <1>6 DEF NodeWallet
   <2>3. GoOn(t, [obj EXCEPT ![Entry(t)] = w]) BY <1>8, <2>1
   <2> HIDE DEF w
   <2>4. Tailed(t) /\ UNCHANGED failed /\ obj'[Entry(t)].loadCount = c BY <1>7, <1>8, <2>2, <2>3
   <2>5. Own(t).loadCount # IF Step(t) = "load" THEN 0 ELSE 1 BY <1>8 DEF HasCommand
   <2> QED BY <1>8, <1>6, <2>4, <2>5 DEF Counting
<1>9. ASSUME Step(t) \in {"loading", "unloading"}, GoOn(t,
      [Counted(t) EXCEPT ![Entry(t)].mu = None]) PROVE Counting(t)
   <2> DEFINE w == [Own(t) EXCEPT !.loadCount = c, !.mu = None]
   <2>1. Entry(t) # 0 BY <1>1, <1>9 DEF Turning, At
   <2>2. [Counted(t) EXCEPT ![Entry(t)].mu = None] = [obj EXCEPT ![Entry(t)] = w]
       BY <1>1, <1>2, <2>1, OwnFacts DEF c
   <2>3. w \in NodeWallet /\ w.loadCount = c BY <1>3, <2>1, <1>6 DEF NodeWallet
   <2>4. GoOn(t, [obj EXCEPT ![Entry(t)] = w]) BY <1>9, <2>2
   <2> HIDE DEF w
   <2>5. Tailed(t) /\ UNCHANGED failed /\ obj'[Entry(t)].loadCount = c BY <1>7, <2>1, <2>3, <2>4
   <2> QED BY <1>9, <1>6, <2>1, <2>5 DEF Counting
<1> QED BY <1>1, <1>2, <1>4, <1>5, <1>8, <1>9 DEF Outcome, Changing

\* A wallet with its mu taken keeps entry, mu and count through others' steps.
LEMMA MuKept ==
  ASSUME Base, Utxo, OnePut, Turning, NEW t \in Procs, ProcStep(t), NEW u \in Procs, u # t,
         NEW k \in Keys, wallet[k] # 0, obj[wallet[k]].mu = u
  PROVE  wallet'[k] = wallet[k] /\ obj'[wallet[k]].mu = u
    /\ obj'[wallet[k]].loadCount = obj[wallet[k]].loadCount
<1> DEFINE i == wallet[k]
<1>1. wallet'[k] = wallet[k] BY EntryKept
<1>2. i \in DOMAIN obj /\ Busy(t) BY Outcomes DEF Base, Mapped
<1>3. ObjStep(t, i) BY <1>2, ObjSteps
<1>4. None # u BY WalletsAssumption
<1> HIDE DEF i
<1>5. obj[i].mu = u BY DEF i
<1>6. CASE obj'[i].loadCount = obj[i].loadCount /\ (obj'[i].mu = obj[i].mu \/ obj[i].mu = t)
    BY <1>1, <1>5, <1>6 DEF i
<1>7. CASE Counter(t) /\ i = Entry(t)
   <2>1. Own(t) = obj[i] /\ Own(t).mu = u /\ Entry(t) # 0 BY <1>5, <1>7 DEF Own, i
   <2>2. CASE Refuses(t) BY <1>6, <1>7, <2>1, <2>2 DEF Refuses
   <2>3. CASE Locks(t) BY <1>4, <2>1, <2>3 DEF Locks
   <2>4. CASE Counting(t)
      <3>1. Step(t) \notin {"load", "unload"} BY <1>4, <2>1, <2>4 DEF Counting
      <3>2. At(t, {"loading", "unloading"}) BY <1>2, <1>7, <3>1 DEF Counter, At, Begins, Ends
      <3> QED BY <2>1, <3>2 DEF Turning
   <2> QED BY <1>7, <2>2, <2>3, <2>4, CounterSteps
<1> QED BY <1>3, <1>6, <1>7 DEF ObjStep, Counter, Begins, Ends

\* The commands of LoadWallet and UnloadWallet are reached through MuLock only.
LEMMA NewTurn ==
  ASSUME Base, NEW t \in Procs, ProcStep(t), pc'[t] # <<>>,
         pc'[t][1][1] \in {"loading", "unloading"}
  PROVE
  Counter(t) /\ ~Tailed(t) /\ ~Dropped(t)
<1> DEFINE s == pc[t]
<1>1. Busy(t) /\ Moves(t) /\ pc \in [Procs -> Scripts] BY Outcomes, Moving DEF Base, TypeOK
<1>2. s \in Scripts /\ s # <<>> /\ 1 \in DOMAIN s /\ Linked(s, FALSE)
    BY <1>1, HeadFacts DEF Base, Shaped, Shape
<1>3. ASSUME Tailed(t) PROVE FALSE
   <2>1. pc'[t] = Tail(s) BY <1>1, <1>3 DEF Tailed
   <2>2. Tail(s) \in Scripts /\ 1 \in DOMAIN Tail(s) BY <1>2, <2>1, TailFacts, ScriptFacts
   <2>3. 2 \in DOMAIN s /\ Tail(s)[1] = s[2] BY <1>2, <2>2, TailFacts
   <2>4. LinkedAt(s, FALSE, 2) BY <1>2, <2>3 DEF Linked, LinkedAt
   <2>5. s[2][1] \in Followers /\ s[2][1] \in {"loading", "unloading"} BY <2>1, <2>3 DEF Followers
   <2>6. Before(s[2][1]) = {} BY <2>5 DEF Before
   <2> QED BY <2>4, <2>5, <2>6 DEF LinkedAt
<1>4. ~Dropped(t) BY <1>1 DEF Dropped
<1>5. CASE Renames(t)
   <2>1. PICK n : <<Step(t), n>> \in Turned /\ pc' = [pc EXCEPT ![t] = Renamed(s, n)]
       BY <1>5 DEF Renames
   <2>2. n \in Names BY <2>1 DEF Turned, Names, Commands, PlainCommands
   <2>3. Renamed(s, n)[1] = <<n, s[1][2]>> BY <1>2, <2>2, RenamedFacts
   <2>4. pc'[t][1][1] = n BY <1>1, <2>1, <2>3
   <2>5. Step(t) \in {"load", "unload"} BY <2>1, <2>4 DEF Turned
   <2> QED BY <1>3, <1>4, <2>5 DEF Counter, Begins, Ends
<1>6. CASE Given(t)
   <2>1. PICK r : Fit(r) /\ pc' = [pc EXCEPT ![t] = r] BY <1>6 DEF Given
   <2>2. r \in Scripts /\ Linked(r, TRUE) /\ pc'[t] = r BY <1>1, <2>1 DEF Fit, Sound
   <2>3. 1 \in DOMAIN r BY <2>2, ScriptFacts
   <2>4. r[1][1] \in Followers BY <2>2 DEF Followers
   <2> QED BY <2>2, <2>3, <2>4 DEF Linked
<1>7. CASE pc' = pc /\ Step(t) = "readAccount" BY <1>7 DEF Step
<1> QED BY <1>1, <1>3, <1>4, <1>5, <1>6, <1>7 DEF Moves

\* Turning is kept.
LEMMA TurningStep == ASSUME Base, Utxo, OnePut, Turning, NEW t \in Procs, ProcStep(t) PROVE Turning'
<1> SUFFICES ASSUME NEW u \in Procs, At(u, {"loading", "unloading"})'
    PROVE (Entry(u) # 0 /\ Own(u).mu = u /\ Own(u).loadCount = IF Step(u) = "loading" THEN 0 ELSE 1)'
    BY DEF Turning
<1>1. UNCHANGED config /\ (\A v \in Procs : v # t => pc'[v] = pc[v]) /\ Busy(t)
    BY Outcomes, NodeSteps, Moving, Shapes
<1>2. pc'[u] # <<>> /\ pc'[u][1][1] \in {"loading", "unloading"} BY DEF At, Busy, Step
<1>3. CASE u # t
   <2>1. pc'[u] = pc[u] /\ Busy(u) /\ Step(u) \in {"loading", "unloading"}
       BY <1>1, <1>2, <1>3 DEF Busy, Step
   <2>2. Key(u) \in Keys /\ Entry(u) # 0 /\ Own(u).mu = u
         /\ Own(u).loadCount = IF Step(u) = "loading" THEN 0 ELSE 1
      BY <2>1, HeadFacts DEF Turning, At
   <2> DEFINE k == Key(u)
   <2>3. k \in Keys /\ wallet[k] # 0 /\ obj[wallet[k]].mu = u BY <2>2 DEF Entry, Own
   <2> HIDE DEF k
   <2>4. wallet'[k] = wallet[k] /\ obj'[wallet[k]].mu = u
         /\ obj'[wallet[k]].loadCount = obj[wallet[k]].loadCount
      BY <1>3, <2>3, MuKept
   <2>5. Key(u)' = k /\ Step(u)' = Step(u) BY <2>1 DEF Key, Step, k
   <2>6. obj[wallet[k]].loadCount = IF Step(u) = "loading" THEN 0 ELSE 1 BY <2>2 DEF Own, Entry, k
   <2> QED BY <2>3, <2>4, <2>5, <2>6 DEF Entry, Own
<1>4. CASE u = t
   <2>1. Counter(t) /\ ~Tailed(t) /\ ~Dropped(t) BY <1>2, <1>4, NewTurn
   <2>2. UNCHANGED wallet /\ Locks(t) BY <2>1, CounterSteps DEF Refuses, Counting
   <2>3. Key(t)' = Key(t) /\ Step(t)' = IF Step(t) = "load" THEN "loading" ELSE "unloading"
       BY <2>2 DEF Locks, Key, Step
   <2>4. Entry(t)' = Entry(t) BY <2>2, <2>3 DEF Entry
   <2> QED BY <1>4, <2>2, <2>3, <2>4 DEF Locks, Own
<1> QED BY <1>3, <1>4

\* Their commands succeed and count, or fail and do not.
LEMMA RunSteps ==
  ASSUME Base, Utxo, Turning, NEW t \in Procs, ProcStep(t),
         Step(t) \in {"loading", "unloading"}
  PROVE
  (Exec(t) /\ Counting(t)) \/ (~Exec(t) /\ Refuses(t))
<1>1. Counter(t) BY DEF Counter, Begins, Ends
<1>2. Exec(t) \/ Fail(t)
   <2>1. ~Acquire(t) BY DEF Acquire, Look, KeyOfAddress, MapLock, TxLock, MuLock, Go, At, LookSteps
   <2>2. Advance(t) => Exec(t) \/ Fail(t)
       BY DEF Advance, MapUnlock, Number, TxUnlock, Rejected, Undefined, Version, Up, Wait, Waited, At
   <2>3. Errors(t) => Fail(t) BY DEF Errors, Faulty, DialAgain, WaitFails, At
   <2> QED BY <2>1, <2>2, <2>3 DEF ProcStep
<1>3. Exec(t) => GoOn(t, [Counted(t) EXCEPT ![Entry(t)].mu = None]) BY DEF Exec, Store
<1> QED BY <1>1, <1>2, <1>3, CounterSteps

\* A new wallet counts 1.
LEMMA PutSteps ==
  ASSUME Base, family = "utxo", OnePut, NEW t \in Procs, ProcStep(t), Step(t) = "put"
  PROVE
  Tailed(t) /\ UNCHANGED failed /\ \A k \in Keys : k = Key(t) => Count(k) = 0 /\ Count(k)' = 1
<1>1. Busy(t) /\ Outcome(t) /\ wallet \in [Keys -> Nat] /\ obj \in Seq(NodeWallet)
    BY Outcomes DEF Base, TypeOK
<1>2. Makes(t, 0, 1) BY <1>1 DEF Outcome, Changing
<1>3. /\ Tailed(t) /\ UNCHANGED failed /\ wallet' = [wallet EXCEPT ![Key(t)] = Len(obj) + 1]
      /\ obj'[Len(obj) + 1].loadCount = 1 BY <1>1, <1>2, MakesFacts DEF Makers
<1>4. Key(t) \in Keys /\ wallet[Key(t)] = 0 BY <1>1, HeadFacts DEF OnePut, At
<1>5. wallet'[Key(t)] = Len(obj) + 1 /\ Len(obj) + 1 # 0 BY <1>1, <1>3, <1>4
<1>6. ASSUME NEW k \in Keys, k = Key(t) PROVE Count(k) = 0 /\ Count(k)' = 1
   <2>1. wallet'[k] = Len(obj) + 1 /\ wallet'[k] # 0 /\ obj'[wallet'[k]].loadCount = 1
       BY <1>3, <1>5, <1>6
   <2> QED BY <1>4, <1>6, <2>1 DEF Count
<1> QED BY <1>3, <1>6

\* What every step does to the counts.
LEMMA CountSteps ==
  ASSUME Base, family = "utxo", OnePut, Turning, NEW t \in Procs, ProcStep(t),
         NEW k \in Keys
  PROVE
  /\ Count(k) \in Nat
  /\ k # Key(t) => Count(k)' = Count(k)
  /\ ~Counter(t) /\ Step(t) # "put" => Count(k)' = Count(k)
  /\ Counter(t) /\ k = Key(t) /\ (Refuses(t) \/ Locks(t)) => Count(k)' = Count(k)
  /\ Counter(t) /\ k = Key(t) /\ Counting(t) =>
       /\ Count(k)' = IF Step(t) \in Begins THEN Count(k) + 1 ELSE IF Count(k) > 0 THEN Count(k) - 1 ELSE 0
       /\ Step(t) = "load" => Count(k) # 0
       /\ Step(t) = "unload" => Count(k) # 1
       /\ Step(t) = "unloading" => Count(k) = 1
<1>1. Busy(t) /\ wallet \in [Keys -> Nat] /\ obj \in Seq(NodeWallet) /\ Utxo
    BY Outcomes DEF Base, TypeOK, Utxo
<1>2. wallet[k] # 0 => wallet[k] \in DOMAIN obj /\ obj[wallet[k]].key = k /\ obj[wallet[k]] \in NodeWallet
    BY <1>1 DEF Base, Mapped
<1>3. Count(k) \in Nat BY <1>2, Fields DEF Count
<1>4. wallet'[k] # wallet[k] => k = Key(t) /\ Step(t) = "put" BY <1>1, EntryKept
<1>5. ASSUME wallet'[k] = wallet[k], wallet[k] # 0 =>
      obj'[wallet[k]].loadCount = obj[wallet[k]].loadCount PROVE Count(k)' = Count(k)
   BY <1>5 DEF Count
<1>6. wallet[k] # 0 => obj'[wallet[k]].loadCount = obj[wallet[k]].loadCount \/ (Counter(t)
      /\ wallet[k] = Entry(t))
   BY <1>2, ObjSteps DEF ObjStep, Counter, Begins, Ends
<1>7. Counter(t) => Key(t) \in Keys /\ Entry(t) = wallet[Key(t)]
    BY <1>1, HeadFacts DEF Counter, Begins, Ends, Entry
<1>8. ASSUME k # Key(t) PROVE Count(k)' = Count(k)
   <2>1. Counter(t) /\ wallet[k] # 0 => wallet[k] # Entry(t)
      <3> SUFFICES ASSUME Counter(t), wallet[k] # 0, wallet[k] = Entry(t) PROVE FALSE OBVIOUS
      <3>1. obj[Entry(t)].key = Key(t) BY <1>7 DEF Base, Mapped
      <3> QED BY <1>2, <1>8, <3>1
   <2> QED BY <1>4, <1>5, <1>6, <1>8, <2>1
<1>9. ASSUME ~Counter(t), Step(t) # "put" PROVE Count(k)' = Count(k) BY <1>4, <1>5, <1>6, <1>9
<1>10. ASSUME Counter(t), k = Key(t) PROVE wallet'[k] = wallet[k] /\ Entry(t) = wallet[k]
      /\ Own(t) = obj[wallet[k]]
   BY <1>1, <1>7, <1>10, CounterSteps DEF Own
<1>11. ASSUME Counter(t), k = Key(t), Refuses(t) \/ Locks(t) PROVE Count(k)' = Count(k)
   BY <1>5, <1>10, <1>11 DEF Refuses, Locks
<1>12. ASSUME Counter(t), k = Key(t), Counting(t) PROVE
       /\ Count(k)' = IF Step(t) \in Begins THEN Count(k) + 1 ELSE IF Count(k) > 0 THEN Count(k) - 1 ELSE 0
       /\ Step(t) = "load" => Count(k) # 0
       /\ Step(t) = "unload" => Count(k) # 1
       /\ Step(t) = "unloading" => Count(k) = 1
   <2>1. wallet[k] # 0 /\ wallet'[k] = wallet[k] /\ Count(k) = Own(t).loadCount
       BY <1>10, <1>12 DEF Counting, Count
   <2>2. Count(k)' = obj'[Entry(t)].loadCount BY <1>10, <1>12, <2>1 DEF Count
   <2>3. Step(t) = "unloading" => Count(k) = 1 BY <1>1, <2>1 DEF Turning, At
   <2> QED BY <1>12, <2>1, <2>2, <2>3 DEF Counting
<1> QED BY <1>3, <1>8, <1>9, <1>11, <1>12

\* What every step does to the daemon's loaded wallets.
LEMMA LoadSteps ==
  ASSUME Base, NEW t \in Procs, ProcStep(t)
  PROVE
  /\ lost \subseteq lost' /\ \A k : k # Key(t) => (k \in loaded' <=> k \in loaded)
  /\ Key(t) \in loaded' \ loaded => Step(t) \in {"createwallet", "loading"} /\ (Exec(t) \/ Fail(t))
  /\ Key(t) \in loaded \ loaded' => Step(t) = "unloading" /\ (Exec(t) \/ Key(t) \in lost')
  /\ Exec(t) /\ Step(t) \in {"createwallet", "loading"} => Key(t) \in loaded'
  /\ Exec(t) /\ Step(t) = "unloading" => Key(t) \notin loaded'
<1>1. NodeStep(t) BY NodeSteps
<1>2. Effect(t) => /\ \A k : k # Key(t) => (k \in loaded' <=> k \in loaded)
                   /\ Key(t) \in loaded' \ loaded => Step(t) \in {"createwallet", "loading"}
                   /\ Key(t) \in loaded \ loaded' => Step(t) = "unloading"
                   /\ Step(t) \in {"createwallet", "loading"} => Key(t) \in loaded'
                   /\ Step(t) = "unloading" => Key(t) \notin loaded'
   BY DEF Effect, nodeVars
<1>3. Exec(t) => Effect(t) /\ lost' = lost BY DEF Exec
<1>4. ASSUME ~Exec(t) PROVE (Effect(t) /\ Fail(t) /\ lost' = lost \cup {Key(t)})
      \/ UNCHANGED <<loaded, lost>>
    BY <1>1, <1>4 DEF NodeStep
<1>5. lost \subseteq lost' /\ (Effect(t) \/ loaded' = loaded) /\ (loaded' = loaded \/ Exec(t)
      \/ (Fail(t) /\ Key(t) \in lost'))
    BY <1>3, <1>4
<1>6. CASE Effect(t)
   <2>1. /\ \A k : k # Key(t) => (k \in loaded' <=> k \in loaded)
         /\ Key(t) \in loaded' \ loaded => Step(t) \in {"createwallet", "loading"}
         /\ Key(t) \in loaded \ loaded' => Step(t) = "unloading"
         /\ Step(t) \in {"createwallet", "loading"} => Key(t) \in loaded'
         /\ Step(t) = "unloading" => Key(t) \notin loaded' BY <1>2, <1>6
   <2>2. Key(t) \in loaded' \ loaded => Exec(t) \/ Fail(t) BY <1>5
   <2>3. Key(t) \in loaded \ loaded' => Exec(t) \/ Key(t) \in lost' BY <1>5
   <2> QED BY <1>5, <2>1, <2>2, <2>3
<1>7. CASE ~Effect(t)
   <2>1. loaded' = loaded /\ ~Exec(t) BY <1>3, <1>5, <1>7
   <2> QED BY <1>5, <2>1
<1> QED BY <1>6, <1>7

\* Backed is kept: unloading runs for the last user only, and under mu.
LEMMA BackedStep ==
  ASSUME Base, family = "utxo", OnePut, Turning, Backed, NEW t \in Procs, ProcStep(t)
  PROVE  Backed'
<1>1. Utxo /\ Busy(t) /\ UNCHANGED config /\ (\A v \in Procs : v # t => pc'[v] = pc[v])
    BY Outcomes, NodeSteps, Moving, Shapes DEF Utxo
<1>2. ASSUME NEW k \in Keys, Count(k)' > 0 PROVE k \in loaded' \cup lost'
   <2>1. Count(k) \in Nat /\ (Count(k) > 0 => k \in loaded \cup lost) BY CountSteps DEF Backed
   <2>2. lost \subseteq lost' /\ (k # Key(t) => (k \in loaded' <=> k \in loaded)) BY LoadSteps
   <2>3. CASE k # Key(t) BY <1>2, <2>1, <2>2, <2>3, CountSteps
   <2> SUFFICES ASSUME k = Key(t) PROVE k \in loaded' \cup lost' BY <2>3
   <2>4. k \in loaded \ loaded' => Step(t) = "unloading" /\ (Exec(t) \/ k \in lost') BY LoadSteps
   <2>5. CASE Step(t) = "put"
      <3>1. k \in loaded \cup lost BY <1>1, <2>5 DEF Backed, At
      <3> QED BY <2>2, <2>4, <2>5, <3>1
   <2>6. CASE ~Counter(t) /\ Step(t) # "put"
      <3>1. Count(k)' = Count(k) /\ Step(t) # "unloading" BY <2>6, CountSteps DEF Counter, Ends
      <3> QED BY <1>2, <2>1, <2>2, <2>4, <3>1
   <2>7. CASE Step(t) = "loading"
      <3>1. CASE Exec(t) BY <2>7, <3>1, LoadSteps
      <3>2. CASE ~Exec(t)
         <4>1. Refuses(t) /\ Counter(t) BY <1>1, <2>7, <3>2, RunSteps DEF Counter, Begins
         <4>2. Count(k)' = Count(k) BY <4>1, CountSteps
         <4> QED BY <1>2, <2>1, <2>2, <2>4, <2>7, <4>2
      <3> QED BY <3>1, <3>2
   <2>8. CASE Step(t) = "unloading"
      <3>1. Counter(t) /\ Step(t) \notin Begins BY <2>8 DEF Counter, Ends, Begins
      <3>2. CASE Exec(t)
         <4>1. Counting(t) BY <1>1, <2>8, <3>2, RunSteps
         <4>2. Count(k) = 1 /\ Count(k)' = IF Count(k) > 0 THEN Count(k) - 1 ELSE 0
             BY <2>8, <3>1, <4>1, CountSteps
         <4>3. Count(k)' = 0 BY <4>2
         <4> QED BY <1>2, <4>3
      <3>3. CASE ~Exec(t)
         <4>1. Refuses(t) BY <1>1, <2>8, <3>3, RunSteps
         <4>2. Count(k)' = Count(k) BY <3>1, <4>1, CountSteps
         <4> QED BY <1>2, <2>1, <2>2, <2>4, <3>3, <4>2
      <3> QED BY <3>2, <3>3
   <2>9. CASE Counter(t) /\ Step(t) \in {"load", "unload"}
      <3>1. Refuses(t) \/ Locks(t) \/ Counting(t) BY <1>1, <2>9, CounterSteps
      <3>2. Count(k) > 0
         <4>1. CASE Refuses(t) \/ Locks(t)
            <5>1. Count(k)' = Count(k) BY <2>9, <4>1, CountSteps
            <5> QED BY <1>2, <5>1
         <4>2. CASE Counting(t)
            <5>1. /\ Count(k)' = IF Step(t) \in Begins THEN Count(k) + 1 ELSE IF Count(k) > 0 THEN Count(k) - 1 ELSE 0
                  /\ Step(t) = "load" => Count(k) # 0 BY <2>9, <4>2, CountSteps
            <5>2. CASE Step(t) = "load" BY <2>1, <5>1, <5>2
            <5>3. CASE Step(t) = "unload"
               <6>1. Step(t) \notin Begins BY <5>3 DEF Begins
               <6> QED BY <1>2, <2>1, <5>1, <6>1
            <5> QED BY <2>9, <5>2, <5>3
         <4> QED BY <3>1, <4>1, <4>2
      <3> QED BY <2>1, <2>2, <2>4, <2>9, <3>2
   <2> QED BY <2>5, <2>6, <2>7, <2>8, <2>9 DEF Counter, Begins, Ends
<1>3. ASSUME NEW u \in Procs, At(u, {"put"})' PROVE Key(u)' \in loaded' \cup lost'
   <2>1. pc'[u] # <<>> /\ pc'[u][1][1] = "put" /\ Key(u)' = pc'[u][1][2] BY <1>3 DEF At, Busy, Step, Key
   <2>2. CASE u # t
      <3>1. At(u, {"put"}) /\ Key(u)' = Key(u) BY <1>1, <2>1, <2>2 DEF At, Busy, Step, Key
      <3>2. Key(u) \in loaded \cup lost /\ wallet[Key(u)] = 0 BY <3>1 DEF Backed, OnePut
      <3>3. Step(t) = "unloading" => Key(t) # Key(u) BY <1>1, <3>2 DEF Turning, At, Entry
      <3>4. Key(u) \in loaded => Key(u) \in loaded' BY <3>3, LoadSteps
      <3> QED BY <3>1, <3>2, <3>4, LoadSteps
   <2>3. CASE u = t
      <3>1. pc'[t][1][1] \in Followers \ {"loading", "unloading"} BY <2>1, <2>3 DEF Followers
      <3>2. ~(pc' = pc /\ Step(t) = "readAccount") BY <2>1, <2>3 DEF Step
      <3>3. Step(t) \in Before("put") /\ Key(t) = pc'[t][1][2] BY <2>1, <2>3, <3>1, <3>2, NewHead
      <3>4. Step(t) = "createwallet" BY <3>3 DEF Before
      <3>5. Exec(t) BY <2>1, <2>3, <3>4, Answers DEF Commands
      <3> QED BY <2>1, <2>3, <3>3, <3>4, <3>5, LoadSteps
   <2> QED BY <2>2, <2>3
<1> QED BY <1>2, <1>3 DEF Backed

\* Stays is kept: without unloading no count goes down.
LEMMA StaysStep ==
  ASSUME Base, family = "utxo", ~unloadAfterUse, OnePut, Pointed, Turning, Stays,
         NEW t \in Procs, ProcStep(t)
  PROVE  Stays'
<1>1. Utxo /\ Busy(t) /\ UNCHANGED config /\ (\A v \in Procs : v # t => pc'[v] = pc[v])
      /\ wallet \in [Keys -> Nat]
   BY Outcomes, NodeSteps, Moving, Shapes DEF Utxo, Base, TypeOK
<1>2. ~Counter(t) BY <1>1, HeadFacts DEF Counter, Foreign, Counts
<1>3. ASSUME NEW k \in Keys, wallet'[k] # 0 PROVE Count(k)' > 0
   <2>1. CASE Step(t) = "put" /\ k = Key(t)
      <3>1. Count(k)' = 1 BY <2>1, PutSteps
      <3> QED BY <3>1
   <2>2. CASE ~(Step(t) = "put" /\ k = Key(t))
      <3>1. wallet'[k] = wallet[k] BY <1>1, <2>2, EntryKept
      <3>2. Count(k)' = Count(k) BY <1>2, <2>2, CountSteps
      <3>3. Count(k) > 0 BY <1>3, <3>1 DEF Stays
      <3> QED BY <3>2, <3>3
   <2> QED BY <2>1, <2>2
<1>4. ASSUME NEW k \in Keys, wallet[k] # 0 PROVE wallet'[k] # 0 BY <1>1, <1>4, EntryKept
<1>5. ASSUME NEW u \in Procs, At(u, WalletCommands)' PROVE Entry(u)' # 0
   <2>1. pc'[u] # <<>> /\ pc'[u][1][1] \in WalletCommands /\ Key(u)' = pc'[u][1][2]
       BY <1>5 DEF At, Busy, Step, Key
   <2>2. CASE u # t
      <3>1. At(u, WalletCommands) /\ Key(u)' = Key(u) BY <1>1, <2>1, <2>2 DEF At, Busy, Step, Key
      <3>2. Key(u) \in Keys /\ wallet[Key(u)] # 0
          BY <3>1, HeadFacts DEF Stays, At, WalletCommands, Entry
      <3> QED BY <1>4, <3>1, <3>2 DEF Entry
   <2>3. CASE u = t
      <3>1. pc'[t][1][1] \in Followers \ {"loading", "unloading"}
          BY <2>1, <2>3 DEF Followers, WalletCommands
      <3>2. ~(pc' = pc /\ Step(t) = "readAccount") BY <2>1, <2>3 DEF Step, WalletCommands
      <3>3. Step(t) \in Before(pc'[t][1][1]) /\ Key(t) = pc'[t][1][2] BY <2>1, <2>3, <3>1, <3>2, NewHead
      <3>4. Step(t) \in {"txLock", "forNewAddress", "forUse", "keyOfAddress", "put"}
          BY <2>1, <2>3, <3>3 DEF Before, WalletCommands
      <3>5. CASE Step(t) = "put"
         <4>1. Key(t) \in Keys /\ Len(obj) + 1 # 0 BY <1>1, <3>5, HeadFacts DEF Base, TypeOK
         <4>2. Count(Key(t)) = 0 BY <3>5, <4>1, PutSteps
         <4>3. \A k \in Keys : k = Key(t) => Count(k)' = 1 BY <3>5, PutSteps
         <4>4. \A k \in Keys : k = Key(t) => wallet'[k] # 0 BY <4>3 DEF Count
         <4> QED BY <2>1, <2>3, <3>3, <4>1, <4>4 DEF Entry
      <3>6. CASE Step(t) # "put"
         <4>1. Key(t) \in Keys /\ wallet[Key(t)] # 0
            <5>1. CASE Step(t) = "txLock" BY <1>1, <5>1, HeadFacts DEF Pointed, At, HasPtr, Entry
            <5>2. CASE Step(t) \in {"forNewAddress", "forUse"}
                BY <1>1, <2>1, <2>3, <5>2, HeadFacts, MapSteps DEF MapStep, Entry
            <5>3. CASE Step(t) = "keyOfAddress"
               <6>1. Outcome(t) /\ pc \in [Procs -> Scripts] BY Outcomes DEF Base, TypeOK
               <6>2. HasAddress(Key(t)) BY <2>1, <2>3, <5>3, <6>1 DEF Outcome, Dropped
               <6> QED BY <6>2 DEF HasAddress
            <5> QED BY <3>4, <3>6, <5>1, <5>2, <5>3
         <4> QED BY <1>4, <2>1, <2>3, <3>3, <4>1 DEF Entry
      <3> QED BY <3>5, <3>6
   <2> QED BY <2>2, <2>3
<1> QED BY <1>3, <1>5 DEF Stays

\* Balance under a step that changes neither loads nor count.
LEMMA BalancedKept ==
  ASSUME NEW k, BalancedAt(k), Holds(k)' = Holds(k), Count(k)' = Count(k),
         failed \subseteq failed', k \in loaded' \ failed' => k \in loaded,
         Putting(k) => Putting(k)'
  PROVE  BalancedAt(k)'
<1> DEFINE H == Holds(k)  C == Count(k)
<1>1. IsFiniteSet(H) /\ Cardinality(H) <= C /\ (k \notin failed => C = Cardinality(H))
      /\ (k \in loaded \ failed => C > 0 \/ Putting(k))
    BY DEF BalancedAt
<1>2. H' = H /\ C' = C OBVIOUS
<1> HIDE DEF H, C
<1>3. IsFiniteSet(H)' /\ (Cardinality(H) <= C)' /\ (k \notin failed => C = Cardinality(H))'
      /\ (k \in loaded \ failed => C > 0 \/ Putting(k))'
    BY <1>1, <1>2
<1> QED BY <1>3 DEF BalancedAt, H, C

\* Under an error.
LEMMA BalancedFailed ==
  ASSUME NEW k, BalancedAt(k), Holds(k)' \subseteq Holds(k), Count(k) \in Nat,
         Count(k)' = Count(k), k \in failed'
  PROVE  BalancedAt(k)'
<1> DEFINE H == Holds(k)  C == Count(k)
<1>1. IsFiniteSet(H) /\ Cardinality(H) <= C /\ C \in Nat BY DEF BalancedAt
<1>2. H' \subseteq H /\ C' = C OBVIOUS
<1> HIDE DEF H, C
<1>3. IsFiniteSet(H') /\ Cardinality(H') <= Cardinality(H) BY <1>1, <1>2, FS_Subset
<1>4. Cardinality(H) \in Nat /\ Cardinality(H') \in Nat BY <1>1, <1>3, FS_CardinalityType
<1>5. Cardinality(H') <= C' BY <1>1, <1>2, <1>3, <1>4
<1>6. IsFiniteSet(H)' /\ (Cardinality(H) <= C)' BY <1>3, <1>5
<1> QED BY <1>6 DEF BalancedAt, H, C

\* Under a load that is taken.
LEMMA BalancedMore ==
  ASSUME NEW k, BalancedAt(k), NEW x, x \notin Holds(k), Holds(k)' = Holds(k) \cup {x},
         Count(k) \in Nat, Count(k)' = Count(k) + 1, UNCHANGED failed
  PROVE  BalancedAt(k)'
<1> DEFINE H == Holds(k)  C == Count(k)
<1>1. IsFiniteSet(H) /\ Cardinality(H) <= C /\ C \in Nat /\ (k \notin failed => C = Cardinality(H))
    BY DEF BalancedAt
<1>2. H' = H \cup {x} /\ C' = C + 1 /\ x \notin H OBVIOUS
<1> HIDE DEF H, C
<1>3. IsFiniteSet(H') /\ Cardinality(H') = Cardinality(H) + 1 BY <1>1, <1>2, FS_AddElement
<1>4. Cardinality(H) \in Nat BY <1>1, FS_CardinalityType
<1>5. Cardinality(H') <= C' /\ C' > 0 /\ (k \notin failed' => C' = Cardinality(H'))
    BY <1>1, <1>2, <1>3, <1>4
<1>6. IsFiniteSet(H)' /\ (Cardinality(H) <= C)' /\ (C > 0)' /\ (k \notin failed => C = Cardinality(H))'
    BY <1>3, <1>5
<1> QED BY <1>6 DEF BalancedAt, H, C

\* Under a load that is given back.
LEMMA BalancedLess ==
  ASSUME NEW k, BalancedAt(k), NEW x \in Holds(k), Holds(k)' = Holds(k) \ {x},
         Count(k) \in Nat, Count(k)' = IF Count(k) > 0 THEN Count(k) - 1 ELSE 0,
         UNCHANGED failed, k \in loaded' => Count(k) # 1
  PROVE  BalancedAt(k)'
<1> DEFINE H == Holds(k)  C == Count(k)
<1>1. IsFiniteSet(H) /\ Cardinality(H) <= C /\ C \in Nat /\ (k \notin failed => C = Cardinality(H))
    BY DEF BalancedAt
<1>2. H' = H \ {x} /\ C' = (IF C > 0 THEN C - 1 ELSE 0) /\ x \in H /\ (k \in loaded' => C # 1) OBVIOUS
<1> HIDE DEF H, C
<1>3. IsFiniteSet(H') /\ Cardinality(H') = Cardinality(H) - 1 BY <1>1, <1>2, FS_RemoveElement
<1>4. Cardinality(H) \in Nat /\ Cardinality(H') \in Nat BY <1>1, <1>3, FS_CardinalityType
<1>5. Cardinality(H) > 0 BY <1>3, <1>4
<1>6. Cardinality(H') <= C' /\ (k \in loaded' => C' > 0) /\ (k \notin failed' => C' = Cardinality(H'))
    BY <1>1, <1>2, <1>3, <1>4, <1>5
<1>7. IsFiniteSet(H)' /\ (Cardinality(H) <= C)' /\ (k \in loaded => C > 0)' /\ (k \notin failed =>
      C = Cardinality(H))'
    BY <1>3, <1>6
<1> QED BY <1>7 DEF BalancedAt, H, C

\* Balanced is kept: the count follows the loads held.
LEMMA BalancedStep ==
  ASSUME Base, Counts, OnePut, Turning, Balanced, NEW t \in Procs, ProcStep(t)
  PROVE  Balanced'
<1> SUFFICES ASSUME NEW k \in Keys PROVE BalancedAt(k)' BY DEF Balanced
<1>1. /\ family = "utxo" /\ Utxo /\ Busy(t) /\ UNCHANGED config /\ (\A v \in Procs : v # t =>
           pc'[v] = pc[v]) /\ Moves(t) /\ failed \subseteq failed'
      /\ BalancedAt(k) /\ Count(k) \in Nat
   BY Outcomes, NodeSteps, Moving, Shapes, CountSteps DEF Utxo, Counts, Balanced
<1>2. Step(t) # "put" \/ Key(t) # k => (Putting(k) => Putting(k)')
   <2> SUFFICES ASSUME Step(t) # "put" \/ Key(t) # k, NEW u \in Procs, At(u, {"put"}), Key(u) = k
         PROVE Putting(k)'
       BY DEF Putting
   <2>1. pc'[u] = pc[u] BY <1>1 DEF At
   <2>2. At(u, {"put"})' /\ Key(u)' = k BY <2>1 DEF At, Busy, Step, Key
   <2> QED BY <2>2 DEF Putting
<1>3. CASE Key(t) # k
   <2>1. Holds(k)' = Holds(k) BY <1>1, <1>3, HoldsSteps DEF Moves
   <2>2. Count(k)' = Count(k) /\ (k \in loaded' => k \in loaded) BY <1>1, <1>3, CountSteps, LoadSteps
   <2> QED BY <1>1, <1>2, <1>3, <2>1, <2>2, BalancedKept
<1>4. ASSUME Dropped(t), k \in failed', Count(k)' = Count(k) PROVE BalancedAt(k)'
    BY <1>1, <1>4, HoldsSteps, BalancedFailed
<1>5. CASE Key(t) = k /\ Counter(t)
   <2>1. Refuses(t) \/ Locks(t) \/ Counting(t) BY <1>1, <1>5, CounterSteps
   <2>2. CASE Refuses(t)
      <3>1. Count(k)' = Count(k) BY <1>1, <1>5, <2>2, CountSteps
      <3> QED BY <1>4, <1>5, <2>2, <3>1 DEF Refuses
   <2>3. CASE Locks(t)
      <3>1. Count(k)' = Count(k) BY <1>1, <1>5, <2>3, CountSteps
      <3>2. Holds(k)' = Holds(k) BY <2>3, HoldsSteps DEF Locks
      <3>3. k \in loaded' => k \in loaded BY <1>5, <2>3, LoadSteps DEF Locks
      <3>4. Step(t) # "put" BY <2>3 DEF Locks
      <3> QED BY <1>1, <1>2, <3>1, <3>2, <3>3, <3>4, BalancedKept
   <2>4. CASE Counting(t) /\ Step(t) \in Begins
      <3>1. Count(k)' = Count(k) + 1 BY <1>1, <1>5, <2>4, CountSteps
      <3>2. PICK x : x \notin Holds(k) /\ Holds(k)' = Holds(k) \cup {x}
          BY <1>5, <2>4, HoldsSteps DEF Counting, Opens
      <3> QED BY <1>1, <2>4, <3>1, <3>2, BalancedMore DEF Counting
   <2>5. CASE Counting(t) /\ ~Refuses(t) /\ Step(t) \in Ends
      <3>1. Step(t) \notin Begins BY <2>5 DEF Begins, Ends
      <3>2. Count(k)' = (IF Count(k) > 0 THEN Count(k) - 1 ELSE 0) /\ (Step(t) = "unload" => Count(k) # 1)
          BY <1>1, <1>5, <2>5, <3>1, CountSteps
      <3>3. PICK x \in Holds(k) : Holds(k)' = Holds(k) \ {x} BY <1>5, <2>5, HoldsSteps DEF Counting
      <3>4. Step(t) = "unloading" => k \notin loaded' BY <1>1, <1>5, <2>5, RunSteps, LoadSteps
      <3>5. k \in loaded' => Count(k) # 1 BY <2>5, <3>2, <3>4 DEF Ends
      <3> QED BY <1>1, <2>5, <3>2, <3>3, <3>5, BalancedLess DEF Counting
   <2> QED BY <1>5, <2>1, <2>2, <2>3, <2>4, <2>5 DEF Counter
<1>6. CASE Key(t) = k /\ Step(t) = "put"
   <2>1. Tailed(t) /\ UNCHANGED failed /\ Count(k) = 0 /\ Count(k)' = 1 BY <1>1, <1>6, PutSteps
   <2>2. PICK x : x \notin Holds(k) /\ Holds(k)' = Holds(k) \cup {x} BY <1>6, <2>1, HoldsSteps DEF Opens
   <2>3. Count(k)' = Count(k) + 1 BY <2>1
   <2> QED BY <1>1, <2>1, <2>2, <2>3, BalancedMore
<1>7. CASE Key(t) = k /\ Step(t) # "put" /\ ~Counter(t)
   <2>1. Count(k)' = Count(k) BY <1>1, <1>7, CountSteps
   <2>2. CASE Dropped(t) /\ failed' = failed \cup {Key(t)} BY <1>4, <1>7, <2>1, <2>2
   <2>3. CASE Moves(t) /\ ~(Dropped(t) /\ failed' = failed \cup {Key(t)})
      <3>1. Holds(k)' = Holds(k) BY <1>7, <2>3, HoldsSteps DEF Moves, Counter, Opens
      <3>2. CASE k \in loaded' \ failed' => k \in loaded
          BY <1>1, <1>2, <1>7, <2>1, <3>1, <3>2, BalancedKept
      <3>3. CASE k \in loaded' /\ k \notin failed' /\ k \notin loaded
         <4>1. Step(t) = "createwallet" /\ (Exec(t) \/ Fail(t))
             BY <1>7, <3>3, LoadSteps DEF Counter, Begins
         <4>2. ~Fail(t) BY <1>7, <3>3 DEF Fail
         <4>3. Tailed(t) BY <4>1, <4>2 DEF Exec, Store, GoOn, Tailed
         <4> DEFINE s == pc[t]
         <4>4. s \in Scripts /\ s # <<>> /\ Nested(s, FALSE) /\ s[1] = <<Step(t), Key(t)>>
               /\ 1 \in DOMAIN s /\ pc \in [Procs -> Scripts]
            BY <1>1, HeadFacts DEF Base, Shaped, Shape, TypeOK
         <4>5. NestedAt(s, FALSE, 1) BY <4>4, NestedParts
         <4>6. 1 + 1 \in DOMAIN s /\ s[1+1] = <<"put", k>>
             BY <1>7, <4>1, <4>4, <4>5 DEF NestedAt, NextAt
         <4>7. 2 \in DOMAIN s /\ s[2] = <<"put", k>> BY <4>6
         <4>8. 1 \in DOMAIN Tail(s) /\ Tail(s)[1] = <<"put", k>>
            <5>1. 2 - 1 \in DOMAIN Tail(s) /\ Tail(s)[2-1] = s[2] BY <4>4, <4>7, TailFacts
            <5> QED BY <4>7, <5>1
         <4>9. pc'[t] = Tail(s) BY <4>3, <4>4 DEF Tailed
         <4>10. DOMAIN <<>> = {} OBVIOUS
         <4> HIDE DEF s
         <4>11. pc'[t] # <<>> /\ pc'[t][1] = <<"put", k>> BY <4>8, <4>9, <4>10
         <4>12. Putting(k)'
            <5>1. pc'[t][1][1] = "put" /\ pc'[t][1][2] = k BY <4>11
            <5>2. At(t, {"put"})' BY <4>11, <5>1 DEF At, Busy, Step
            <5>3. Key(t)' = k BY <5>1 DEF Key
            <5> QED BY <5>2, <5>3 DEF Putting
         <4>13. Tailed(t) => Dropped(t) \/ UNCHANGED failed BY Moving
         <4> QED BY <1>1, <2>1, <3>1, <4>12 DEF BalancedAt
      <3> QED BY <3>2, <3>3
   <2> QED BY <1>1, <2>2, <2>3
<1> QED BY <1>3, <1>5, <1>6, <1>7

\* The fourth layer, under a step of a goroutine.
LEMMA LoadProc == ASSUME Base, SendInv, LoadInv, NEW t \in Procs, ProcStep(t) PROVE LoadInv'
<1>1. UNCHANGED config BY NodeSteps
<1>2. SUFFICES ASSUME family = "utxo" PROVE (Turning /\ Backed
      /\ (IF unloadAfterUse THEN Balanced ELSE Stays))'
    BY <1>1 DEF LoadInv, config
<1>3. OnePut /\ Pointed /\ Utxo /\ Turning /\ Backed /\ (IF unloadAfterUse THEN Balanced ELSE Stays)
    BY <1>2 DEF SendInv, LoadInv, Utxo
<1>4. Turning' /\ Backed' BY <1>2, <1>3, TurningStep, BackedStep
<1>5. unloadAfterUse' = unloadAfterUse BY <1>1 DEF config
<1>6. CASE unloadAfterUse
   <2>1. Balanced' BY <1>2, <1>3, <1>6, BalancedStep DEF Counts
   <2> QED BY <1>4, <1>5, <1>6, <2>1
<1>7. CASE ~unloadAfterUse
   <2>1. Stays' BY <1>2, <1>3, <1>7, StaysStep
   <2> QED BY <1>4, <1>5, <1>7, <2>1
<1> QED BY <1>6, <1>7

\* Under the others.
LEMMA LoadEnv == ASSUME Base, Fresh, LoadInv, EnvStep PROVE LoadInv'
<1>1. /\ UNCHANGED <<config, mapAccess, wallet, obj, nextAcctNum, ptr, got, listed, inputs, created,
           loaded, accts, spent, failed, lost>>
      /\ pc' = pc \/ Begun BY EnvSteps
<1>2. UNCHANGED <<family, unloadAfterUse, wallet, obj, loaded, failed, lost>> BY <1>1 DEF config
<1>3. SUFFICES ASSUME family = "utxo" PROVE (Turning /\ Backed
      /\ (IF unloadAfterUse THEN Balanced ELSE Stays))'
    BY <1>2 DEF LoadInv
<1>4. Turning /\ Backed /\ (IF unloadAfterUse THEN Balanced ELSE Stays) BY <1>3 DEF LoadInv
<1>5. \A u \in Procs : pc'[u] # <<>> /\ pc'[u][1][1] \in Followers => pc'[u] = pc[u] BY <1>1, BegunHead
<1>6. \A u \in Procs : At(u, {"put", "loading", "unloading"})' => pc'[u] = pc[u]
    BY <1>5 DEF At, Busy, Step, Followers
<1>7. \A u \in Procs : pc[u] # <<>> => pc'[u] = pc[u]
   <2>1. pc \in [Procs -> Scripts] BY DEF Base, TypeOK
   <2> QED BY <1>1, <2>1 DEF Begun, Given
<1>8. Turning' BY <1>2, <1>4, <1>6 DEF Turning, At, Busy, Step, Key, Entry, Own
<1>9. \A k : Count(k)' = Count(k) BY <1>2 DEF Count
<1>10. Backed'
   <2>1. \A k \in Keys : Count(k)' > 0 => k \in loaded' \cup lost' BY <1>2, <1>4, <1>9 DEF Backed
   <2>2. \A u \in Procs : At(u, {"put"})' => Key(u)' \in loaded' \cup lost'
       BY <1>2, <1>4, <1>6 DEF Backed, At, Busy, Step, Key
   <2> QED BY <2>1, <2>2 DEF Backed
<1>11. CASE unloadAfterUse
   <2>1. ASSUME NEW k \in Keys PROVE BalancedAt(k)'
      <3>1. Holds(k)' = Holds(k)
         <4>1. CASE pc' = pc
            <5>1. PICK t \in Procs : TRUE BY WalletsAssumption DEF Procs
            <5> QED BY <4>1, <5>1, HoldsMoves
         <4>2. CASE Begun
            <5>0. PICK t \in Procs : \E r : pc[t] = <<>> /\ Fit(r) /\ pc' = [pc EXCEPT ![t] = r]
                BY <4>2 DEF Begun, Given
            <5>1. PICK r : pc[t] = <<>> /\ Fit(r) /\ pc' = [pc EXCEPT ![t] = r] BY <5>0
            <5>2. pc'[t] = r /\ \A u \in Procs : u # t => pc'[u] = pc[u]
               <6>1. pc \in [Procs -> Scripts] BY DEF Base, TypeOK
               <6> QED BY <5>1, <6>1
            <5>3. Tokens(pc'[t], k) = Tokens(pc[t], k) BY <1>3, <1>11, <5>1, <5>2, TokensNone DEF Counts
            <5> QED BY <5>2, <5>3, HoldsMoves
         <4> QED BY <1>1, <4>1, <4>2
      <3>2. Putting(k) => Putting(k)'
         <4> SUFFICES ASSUME NEW u \in Procs, At(u, {"put"}), Key(u) = k PROVE Putting(k)'
             BY DEF Putting
         <4>1. pc'[u] = pc[u] BY <1>7 DEF At, Busy
         <4>2. At(u, {"put"})' /\ Key(u)' = k BY <4>1 DEF At, Busy, Step, Key
         <4> QED BY <4>2 DEF Putting
      <3>3. BalancedAt(k) BY <1>4, <1>11 DEF Balanced
      <3> QED BY <1>2, <1>9, <3>1, <3>2, <3>3, BalancedKept
   <2>2. Balanced' BY <2>1 DEF Balanced
   <2> QED BY <1>2, <1>8, <1>10, <1>11, <2>2
<1>12. CASE ~unloadAfterUse
   <2>1. \A u \in Procs : At(u, WalletCommands)' => pc'[u] = pc[u]
       BY <1>3, <1>5, <1>12 DEF At, Busy, Step, Followers
   <2>2. Stays' BY <1>2, <1>4, <1>9, <1>12, <2>1 DEF Stays, At, Busy, Step, Key, Entry
   <2> QED BY <1>2, <1>8, <1>10, <1>12, <2>2
<1> QED BY <1>11, <1>12

\* Initially.
LEMMA LoadInit == ASSUME Init PROVE LoadInv
<1> SUFFICES ASSUME family = "utxo" PROVE Turning /\ Backed /\ Balanced /\ Stays BY DEF LoadInv
<1>1. \A t \in Procs : pc[t] = <<>> BY DEF Init
<1>2. \A k \in Keys : wallet[k] = 0 /\ Count(k) = 0 BY DEF Init, Count
<1>3. loaded = {} BY DEF Init
<1>4. \A k : Holds(k) = {} BY <1>1, TokensNone DEF Holds
<1>5. Turning BY <1>1 DEF Turning, At, Busy
<1>6. Backed BY <1>1, <1>2 DEF Backed, At, Busy
<1>7. Stays BY <1>1, <1>2 DEF Stays, At, Busy
<1>8. \A k \in Keys : BalancedAt(k)
   <2>1. IsFiniteSet({}) /\ Cardinality({}) = 0 BY FS_EmptySet
   <2> QED BY <1>2, <1>3, <1>4, <2>1 DEF BalancedAt
<1> QED BY <1>5, <1>6, <1>7, <1>8 DEF Balanced

\* A call that runs a command on a wallet holds a load on it.
LEMMA UserHolds ==
  ASSUME Base, Counts, NEW t \in Procs, At(t, WalletCommands)
  PROVE  Holds(Key(t)) # {}
<1> DEFINE s == pc[t]  k == Key(t)
<1>1. s \in Scripts /\ s # <<>> /\ Nested(s, FALSE) /\ s[1][1] = Step(t) /\ s[1][2] = k
      /\ 1 \in DOMAIN s /\ Len(s) \in Nat /\ DOMAIN s = 1..Len(s) /\ Busy(t) /\ Step(t) \in WalletCommands
   BY HeadFacts, ScriptFacts DEF Base, Shaped, Shape, At, Step, Key
<1>2. NestedAt(s, FALSE, 1) BY <1>1, NestedParts
<1>3. NextAt(s, 1) BY <1>2 DEF NestedAt
<1>4. 1 + 1 = 2 /\ 1 + 2 = 3 /\ 2 - 1 = 1 /\ 3 - 1 = 2 OBVIOUS
<1> HIDE DEF s, k
<1>5. \E i \in DOMAIN s : i # 1 /\ s[i] = <<"unload", k>> /\ Opener(s, i) < 1
   <2>1. CASE Step(t) \in Inner
      <3>1. 2 \in DOMAIN s /\ s[2] = <<"unload", k>> BY <1>1, <1>3, <1>4, <2>1 DEF NextAt
      <3>2. Gap(s[1][1]) = 2 BY <1>1, <2>1 DEF Gap, Inner
      <3>3. Opener(s, 2) < 1 BY <1>4, <3>2 DEF Opener
      <3> QED BY <3>1, <3>3
   <2>2. CASE Step(t) = "getnewaddress"
      <3>1. 3 \in DOMAIN s /\ s[2][1] = "setAddress" /\ s[3] = <<"unload", k>>
          BY <1>1, <1>3, <1>4, <2>2 DEF NextAt, Inner
      <3>2. Gap(s[2][1]) = 3 BY <3>1 DEF Gap
      <3>3. Opener(s, 3) < 1 BY <1>4, <3>2 DEF Opener
      <3> QED BY <3>1, <3>3
   <2>3. CASE Step(t) = "sendtoaddress"
      <3>1. 3 \in DOMAIN s /\ s[2][1] = "txUnlock" /\ s[3] = <<"unload", k>>
          BY <1>1, <1>3, <1>4, <2>3 DEF NextAt, Inner
      <3>2. Gap(s[2][1]) = 4 BY <3>1 DEF Gap
      <3>3. Opener(s, 3) < 1 BY <1>4, <3>2 DEF Opener
      <3> QED BY <3>1, <3>3
   <2> QED BY <1>1, <2>1, <2>2, <2>3 DEF WalletCommands, Inner
<1>6. PICK i \in DOMAIN s : s[i] = <<"unload", k>> /\ Opener(s, i) < 1 BY <1>5
<1>7. i \in Open(s, k) BY <1>6 DEF Open, Ends
<1>8. Len(s) - i \in Nat /\ Len(s) - (Len(s) - i) = i BY <1>1
<1>9. Len(s) - i \in Tokens(s, k) BY <1>7, <1>8 DEF Tokens
<1>10. <<t, Len(s) - i>> \in Holds(k) BY <1>8, <1>9 DEF Holds, s
<1> QED BY <1>10 DEF k

\* The fourth layer implies the first of its properties: who holds a load is
\* counted, and what is counted is loaded.
LEMMA LoadedForUse == ASSUME Base, LoadInv PROVE WalletLoaded
<1> SUFFICES ASSUME NEW t \in Procs, At(t, WalletCommands), family = "utxo"
      PROVE Key(t) \in loaded \cup lost
    BY DEF WalletLoaded
<1>1. Busy(t) /\ Key(t) \in Keys BY HeadFacts DEF At, WalletCommands
<1>2. Backed /\ (IF unloadAfterUse THEN Balanced ELSE Stays) BY DEF LoadInv
<1>3. CASE unloadAfterUse
   <2> DEFINE H == Holds(Key(t))
   <2>1. BalancedAt(Key(t)) BY <1>1, <1>2, <1>3 DEF Balanced
   <2>2. IsFiniteSet(H) /\ Cardinality(H) <= Count(Key(t)) BY <2>1 DEF BalancedAt
   <2>3. H # {} BY <1>3, UserHolds DEF Counts
   <2> HIDE DEF H
   <2>4. Cardinality(H) \in Nat /\ Cardinality(H) # 0 BY <2>2, <2>3, FS_CardinalityType, FS_EmptySet
   <2>5. Count(Key(t)) \in Nat
      <3>1. \A k \in Keys : wallet[k] # 0 => obj[wallet[k]] \in NodeWallet BY DEF Base, TypeOK, Mapped
      <3> QED BY <1>1, <3>1, Fields DEF Count
   <2>6. Count(Key(t)) > 0 BY <2>2, <2>4, <2>5
   <2> QED BY <1>1, <1>2, <2>6 DEF Backed
<1>4. CASE ~unloadAfterUse BY <1>1, <1>2, <1>4 DEF Stays, Backed, Entry
<1> QED BY <1>3, <1>4

\* And the second: idle goroutines hold nothing, so what is loaded is not counted.
LEMMA UnloadedWhenIdle == ASSUME Base, LoadInv PROVE IdleUnloaded
<1> SUFFICES ASSUME unloadAfterUse, \A t \in Procs : ~Busy(t), NEW k \in loaded, k \notin failed PROVE FALSE
    BY DEF IdleUnloaded
<1>1. family = "utxo" /\ k \in Keys BY DEF Base, TypeOK
<1>2. BalancedAt(k) BY <1>1 DEF LoadInv, Balanced
<1>3. Holds(k) = {} BY TokensNone DEF Holds, Busy
<1>4. Count(k) = 0 BY <1>2, <1>3, FS_EmptySet DEF BalancedAt
<1>5. Putting(k) BY <1>2, <1>4 DEF BalancedAt
<1> QED BY <1>5 DEF Putting, At

----------------------------------------------------------------------------
(* The theorems. *)

\* The inductive invariant.
Inv == Base /\ Fresh /\ OwnInv /\ SendInv /\ LoadInv

\* All layers hold initially.
LEMMA Started == ASSUME Init PROVE Inv
BY BaseInit, OwnInit, SendInit, LoadInit DEF Inv

\* Every step keeps all layers.
LEMMA Steps == ASSUME Inv, [Next]_vars PROVE Inv'
<1>1. CASE EnvStep BY <1>1, EnvSteps, BaseEnv, OwnEnv, SendEnv, LoadEnv DEF Inv
<1>2. ASSUME NEW t \in Procs, ProcStep(t) PROVE Inv'
   <2>1. Base' /\ Fresh' BY <1>2, BaseProc, FreshProc DEF Inv
   <2>2. OwnInv' BY <1>2, GotOwnStep, MapHeldStep, ReservedStep, NumberedStep, KeyOwnsStep DEF Inv, OwnInv
   <2>3. SendInv' BY <1>2, SendProc DEF Inv
   <2>4. LoadInv' BY <1>2, LoadProc DEF Inv
   <2> QED BY <2>1, <2>2, <2>3, <2>4 DEF Inv
<1>3. Next => EnvStep \/ \E t \in Procs : ProcStep(t) BY DEF Next, EnvStep, ProcStep
<1> QED BY <1>1, <1>2, <1>3 DEF EnvStep

\* The layered invariant holds for any key names, goroutines, outputs and faults
\* (the whole of utxo_chain.go's, geth's and anvil's wallet handling).
THEOREM WalletsInductive == Spec => []Inv
BY Started, Steps, PTL DEF Spec

\* The account behind a key name was made for that name, whatever calls and
\* failures interleave (createAccount under MapAccess; on geth unless an answer
\* was lost).
THEOREM AccountsOwned == Spec => []AccountMadeFor
<1>1. Inv => AccountMadeFor BY DEF Inv, OwnInv
<1> QED BY <1>1, WalletsInductive, PTL

\* "once wallet is created, it doesn't change" (geth_chain.go:30, anvil_chain.go:28):
\* on geth and anvil no step gives a key name another account, except the one where
\* anvil's RecoverKey stores its import without a look at the map (anvil_chain.go:130-134).
THEOREM EntriesStay ==
  Spec => [][\A k \in Keys : ~Utxo /\ HasAddress(k) /\ ~Replaces(k) =>
               wallet'[k] # 0 /\ obj'[wallet'[k]].acct = obj[wallet[k]].acct]_vars
<1> DEFINE Stay == \A k \in Keys : ~Utxo /\ HasAddress(k) /\ ~Replaces(k) =>
             wallet'[k] # 0 /\ obj'[wallet'[k]].acct = obj[wallet[k]].acct
<1>1. ASSUME Inv, [Next]_vars PROVE [Stay]_vars
   <2>1. CASE EnvStep
      <3>1. UNCHANGED <<wallet, obj>> BY <1>1, <2>1, EnvSteps DEF Inv
      <3> QED BY <3>1 DEF HasAddress
   <2>2. ASSUME NEW t \in Procs, ProcStep(t) PROVE Stay BY <1>1, <2>2, EntryStays DEF Inv
   <2>3. EnvStep \/ \E t \in Procs : ProcStep(t) BY <1>1 DEF Next, EnvStep, ProcStep
   <2> QED BY <2>1, <2>2, <2>3
<1>2. Inv /\ [Next]_vars => [Stay]_vars BY <1>1
<1> HIDE DEF Stay
<1>3. Spec => [][Stay]_vars BY <1>2, WalletsInductive, PTL DEF Spec
<1> QED BY <1>3 DEF Stay

\* A transaction put together from listed outputs is sent while they are unspent,
\* whatever other calls and the mining goroutine send (txLock in SendFundsWithNote).
THEOREM SpentOnce == Spec => []NoDoubleSpend
<1>1. Inv => NoDoubleSpend BY NotSpentTwice DEF Inv
<1> QED BY <1>1, WalletsInductive, PTL

\* A command with -rpcwallet finds its wallet loaded, whoever loads and unloads it
\* concurrently (LoadWallet and UnloadWallet count users under mu).
THEOREM LoadedWhenUsed == Spec => []WalletLoaded
<1>1. Inv => WalletLoaded BY LoadedForUse DEF Inv
<1> QED BY <1>1, WalletsInductive, PTL

\* When no call is under way no wallet is loaded, except those some call failed
\* with (every LoadWallet has its UnloadWallet, on each path without an error).
THEOREM UnloadedAtRest == Spec => []IdleUnloaded
<1>1. Inv => IdleUnloaded BY UnloadedWhenIdle DEF Inv
<1> QED BY <1>1, WalletsInductive, PTL
=============================================================================
