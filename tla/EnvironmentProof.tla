-------------------------- MODULE EnvironmentProof ---------------------------
(****************************************************************************)
(* Proofs about Environment and Directory, for every environ the shell may  *)
(* be started with, every sequence of exports, unsets and cds, every arena  *)
(* size, every set of directories and whatever other processes do with      *)
(* them. With its directories the shell does nothing to the environment     *)
(* that Environment does not describe, so all that is proved of Environment *)
(* holds of the two together.                                               *)
(****************************************************************************)
EXTENDS Directory, SequenceTheorems, WellFoundedInduction, TLAPS

(* Environment.                                                             *)

USE DEF Null

LEMMA Singleton ==
    ASSUME NEW S, NEW n \in S
    PROVE  << n >> \in Seq(S) /\ Len(<< n >>) = 1 /\ << n >> # << >>
OBVIOUS

LEMMA OneName ==
    ASSUME NEW n \in Parts
    PROVE  IsKey(<< n >>) /\ Len(<< n >>) = 1
BY Singleton DEF IsKey

LEMMA Literals ==
    \A n \in { "SHELL", "SHLVL", "PWD", "OLDPWD" } : IsKey(<< n >>) /\ Len(<< n >>) = 1
<1>1. { "SHELL", "SHLVL", "PWD", "OLDPWD" } \subseteq Parts
  BY EnvironmentAssumption
<1> QED BY <1>1, OneName

(* A request made of a key and a value is of the right shape. *)
LEMMA RequestGood ==
    ASSUME NEW op \in { "set", "level", "unset", "bad", "plain" },
           NEW key, IsKey(key), op # "unset" => Len(key) = 1,
           NEW value \in Seq(Parts), op = "set" => value \in Values
    PROVE  GoodRequest(Request(op, key, value))
BY DEF GoodRequest, Requests, Request, IsKey

(* A key followed by a value is an entry whose first part is the key. *)
LEMMA EntryType ==
    ASSUME NEW key \in Seq(Parts), Len(key) = 1, NEW value \in Values
    PROVE  /\ IsEntry(key \o value)
           /\ key \o value \in Seq(Parts)
           /\ Len(key \o value) > 1
           /\ (key \o value)[1] = key[1]
           /\ Tail(key \o value) = value
<1>1. value \in Seq(Parts) /\ value # << >>
  BY EnvironmentAssumption DEF IsKey
<1>2. Len(value) \in Nat \ {0}
  BY <1>1, EmptySeq
<1>3. /\ key \o value \in Seq(Parts)
      /\ Len(key \o value) = 1 + Len(value)
      /\ \A i \in 1 .. 1 + Len(value) :
            (key \o value)[i] = IF i <= 1 THEN key[i] ELSE value[i - 1]
  <2>1. /\ key \o value \in Seq(Parts)
        /\ Len(key \o value) = Len(key) + Len(value)
        /\ \A i \in 1 .. Len(key) + Len(value) :
              (key \o value)[i] = IF i <= Len(key) THEN key[i] ELSE value[i - Len(key)]
    BY <1>1, ConcatProperties
  <2> QED BY <2>1
<1>4. Len(key \o value) > 1
  BY <1>2, <1>3
<1>5. (key \o value)[1] = key[1]
  BY <1>2, <1>3
<1>6. Tail(key \o value) = value
  <2>1. key \o value # << >>
    BY <1>3, <1>4, EmptySeq
  <2>2. /\ Tail(key \o value) \in Seq(Parts)
        /\ Len(Tail(key \o value)) = Len(value)
        /\ \A i \in 1 .. Len(value) : Tail(key \o value)[i] = (key \o value)[i + 1]
    BY <1>2, <1>3, <2>1, HeadTailProperties
  <2>3. \A i \in 1 .. Len(value) : Tail(key \o value)[i] = value[i]
    BY <1>2, <1>3, <2>2
  <2> QED BY <1>1, <2>2, <2>3, SeqEqual
<1>7. IsEntry(key \o value)
  BY <1>3, <1>6 DEF IsEntry
<1> QED BY <1>3, <1>4, <1>5, <1>6, <1>7

(* Taking the first request leaves requests of the right shape. *)
LEMMA TailGood ==
    ASSUME NEW s \in Seq(Requests), s # << >>,
           \A i \in DOMAIN s : GoodRequest(s[i])
    PROVE  /\ Tail(s) \in Seq(Requests)
           /\ \A i \in DOMAIN Tail(s) : GoodRequest(Tail(s)[i])
           /\ GoodRequest(Head(s))
<1>1. /\ Tail(s) \in Seq(Requests) /\ Len(Tail(s)) = Len(s) - 1
      /\ \A i \in 1 .. Len(Tail(s)) : Tail(s)[i] = s[i + 1]
  BY HeadTailProperties
<1>2. Len(s) \in Nat \ {0} /\ DOMAIN s = 1 .. Len(s)
  BY EmptySeq, LenProperties
<1>3. DOMAIN Tail(s) = 1 .. Len(s) - 1
  BY <1>1, LenProperties
<1>4. \A i \in DOMAIN Tail(s) : GoodRequest(Tail(s)[i])
  BY <1>1, <1>2, <1>3
<1>5. Head(s) = s[1] /\ 1 \in DOMAIN s
  BY <1>2
<1> QED BY <1>1, <1>4, <1>5

-----------------------------------------------------------------------------
(* The requests the shell starts a command with are of the right shape.     *)

LEMMA UnsetGood ==
    ASSUME NEW a \in Unsets
    PROVE  /\ [i \in DOMAIN a |-> Request("unset", a[i], NoValue)] \in Seq(Requests)
           /\ \A j \in DOMAIN [i \in DOMAIN a |-> Request("unset", a[i], NoValue)] :
                GoodRequest([i \in DOMAIN a |-> Request("unset", a[i], NoValue)][j])
<1>1. a \in Seq(Seq(Parts)) /\ \A i \in DOMAIN a : IsKey(a[i])
  BY EnvironmentAssumption
<1>2. Len(a) \in Nat /\ DOMAIN a = 1 .. Len(a)
  BY <1>1, LenProperties
<1>3. NoValue \in Seq(Parts)
  BY EmptySeq DEF NoValue
<1>4. \A i \in 1 .. Len(a) : GoodRequest(Request("unset", a[i], NoValue))
  BY <1>1, <1>2, <1>3, RequestGood
<1>5. \A i \in 1 .. Len(a) : Request("unset", a[i], NoValue) \in Requests
  BY <1>4 DEF GoodRequest
<1>6. [i \in 1 .. Len(a) |-> Request("unset", a[i], NoValue)] \in Seq(Requests)
  BY <1>2, <1>5, IsASeq
<1> QED BY <1>2, <1>4, <1>6

LEMMA CdGood ==
    ASSUME NEW old \in Dirs, NEW new \in Dirs
    PROVE  GoodRequest(Request("set", << "OLDPWD" >>, old))
           /\ GoodRequest(Request("set", << "PWD" >>, new))
<1>1. old \in Values /\ new \in Values /\ old \in Seq(Parts) /\ new \in Seq(Parts)
  BY EnvironmentAssumption DEF IsKey
<1>2. /\ Len(<< "OLDPWD" >>) = 1 /\ Len(<< "PWD" >>) = 1
      /\ IsKey(<< "OLDPWD" >>) /\ IsKey(<< "PWD" >>)
  BY Literals
<1> QED BY <1>1, <1>2, RequestGood

LEMMA OpeningGood ==
    ASSUME NEW d \in Dirs
    PROVE  Opening(d) \in Seq(Requests)
           /\ \A i \in DOMAIN Opening(d) : GoodRequest(Opening(d)[i])
<1>1. /\ d \in Values /\ d \in Seq(Parts)
      /\ ShellPath \in Values /\ ShellPath \in Seq(Parts)
      /\ NoValue \in Seq(Parts)
  BY EnvironmentAssumption, EmptySeq DEF IsKey, NoValue
<1>2. /\ Len(<< "SHELL" >>) = 1 /\ Len(<< "SHLVL" >>) = 1 /\ Len(<< "PWD" >>) = 1
      /\ IsKey(<< "SHELL" >>) /\ IsKey(<< "SHLVL" >>) /\ IsKey(<< "PWD" >>)
  BY Literals
<1>3. /\ GoodRequest(Request("set", << "SHELL" >>, ShellPath))
      /\ GoodRequest(Request("level", << "SHLVL" >>, NoValue))
      /\ GoodRequest(Request("set", << "PWD" >>, d))
  BY <1>1, <1>2, RequestGood
<1>4. /\ Request("set", << "SHELL" >>, ShellPath) \in Requests
      /\ Request("level", << "SHLVL" >>, NoValue) \in Requests
      /\ Request("set", << "PWD" >>, d) \in Requests
  BY <1>3 DEF GoodRequest
<1> QED BY <1>3, <1>4 DEF Opening

-----------------------------------------------------------------------------
(* The three ways the array changes keep entries entries.                   *)

LEMMA AppendOK ==
    ASSUME NEW h, EntriesOK(h), NEW e, IsEntry(e)
    PROVE  /\ EntriesOK(Append(h, e))
           /\ Len(Append(h, e)) = Len(h) + 1
           /\ Append(h, e)[Len(h) + 1] = e
           /\ \A i \in 1 .. Len(h) : Append(h, e)[i] = h[i]
<1>1. h \in Seq(Seq(Parts)) /\ e \in Seq(Parts)
  BY DEF EntriesOK, IsEntry
<1>2. /\ Append(h, e) \in Seq(Seq(Parts))
      /\ Len(Append(h, e)) = Len(h) + 1
      /\ \A i \in 1 .. Len(h) : Append(h, e)[i] = h[i]
      /\ Append(h, e)[Len(h) + 1] = e
  BY <1>1, AppendProperties
<1>3. /\ DOMAIN Append(h, e) = 1 .. Len(h) + 1
      /\ DOMAIN h = 1 .. Len(h) /\ Len(h) \in Nat
  BY <1>1, <1>2, LenProperties
<1>4. \A i \in 1 .. Len(h) + 1 : i \in 1 .. Len(h) \/ i = Len(h) + 1
  BY <1>3
<1>5. \A i \in DOMAIN Append(h, e) : IsEntry(Append(h, e)[i])
  BY <1>2, <1>3, <1>4 DEF EntriesOK
<1> QED BY <1>2, <1>5 DEF EntriesOK

LEMMA ReplaceOK ==
    ASSUME NEW h, EntriesOK(h), NEW i \in DOMAIN h, NEW e, IsEntry(e)
    PROVE  /\ EntriesOK([h EXCEPT ![i] = e])
           /\ Len([h EXCEPT ![i] = e]) = Len(h)
<1>1. h \in Seq(Seq(Parts)) /\ e \in Seq(Parts)
  BY DEF EntriesOK, IsEntry
<1>2. i \in 1 .. Len(h) /\ DOMAIN h = 1 .. Len(h)
  BY <1>1, LenProperties
<1>3. /\ [h EXCEPT ![i] = e] \in Seq(Seq(Parts))
      /\ Len([h EXCEPT ![i] = e]) = Len(h)
      /\ \A j \in 1 .. Len(h) : [h EXCEPT ![i] = e][j] = IF j = i THEN e ELSE h[j]
  BY <1>1, <1>2, ExceptSeq
<1>4. \A j \in DOMAIN [h EXCEPT ![i] = e] : IsEntry([h EXCEPT ![i] = e][j])
  BY <1>2, <1>3 DEF EntriesOK
<1> QED BY <1>3, <1>4 DEF EntriesOK

LEMMA WithoutOK ==
    ASSUME EntriesOK(heap_env), NEW i \in DOMAIN heap_env
    PROVE  /\ EntriesOK(Without(i))
           /\ Len(Without(i)) = Len(heap_env) - 1
           /\ \A j \in 1 .. Len(heap_env) - 1 :
                 Without(i)[j] = IF j < i THEN heap_env[j] ELSE heap_env[j + 1]
<1>1. heap_env \in Seq(Seq(Parts))
  BY DEF EntriesOK
<1>2. Len(heap_env) \in Nat /\ DOMAIN heap_env = 1 .. Len(heap_env)
  BY <1>1, LenProperties
<1>3. Len(heap_env) - 1 \in Nat
  BY <1>2
<1>4. \A j \in 1 .. Len(heap_env) - 1 :
         /\ j \in DOMAIN heap_env /\ j + 1 \in DOMAIN heap_env
         /\ heap_env[j] \in Seq(Parts) /\ heap_env[j + 1] \in Seq(Parts)
  BY <1>1, <1>2, ElementOfSeq
<1>5. \A j \in 1 .. Len(heap_env) - 1 :
         (IF j < i THEN heap_env[j] ELSE heap_env[j + 1]) \in Seq(Parts)
  BY <1>4
<1>6. Without(i) \in Seq(Seq(Parts))
  BY <1>3, <1>5, IsASeq DEF Without
<1>7. /\ DOMAIN Without(i) = 1 .. Len(heap_env) - 1
      /\ \A j \in 1 .. Len(heap_env) - 1 :
            Without(i)[j] = IF j < i THEN heap_env[j] ELSE heap_env[j + 1]
  BY DEF Without
<1>8. Len(Without(i)) = Len(heap_env) - 1
  BY <1>3, <1>6, <1>7, LenProperties
<1>9. \A j \in DOMAIN Without(i) : IsEntry(Without(i)[j])
  BY <1>4, <1>7 DEF EntriesOK
<1> QED BY <1>6, <1>7, <1>8, <1>9 DEF EntriesOK

-----------------------------------------------------------------------------
(* The invariant: TypeOK, and that the array is never full to the brim of   *)
(* the terminator's slot. The second needs a capacity of at least one, or   *)
(* doubling would not make room.                                            *)

Room == alive => Len(heap_env) <= env_capacity /\ env_capacity >= 1

EnvInv == TypeOK /\ Room

(* One set_env_var() of a good key and value. *)
LEMMA SetKeepsInv ==
    ASSUME EnvInv, alive, pending # << >>,
           NEW key, IsKey(key), Len(key) = 1, NEW value \in Values,
           Set(key, value)
    PROVE  EnvInv'
<1>1. /\ IsEntry(key \o value)
      /\ heap_env \in Seq(Seq(Parts)) /\ Len(heap_env) \in Nat
      /\ env_capacity \in Nat /\ env_capacity >= 1 /\ Len(heap_env) <= env_capacity
  BY EntryType, LenProperties DEF EnvInv, TypeOK, Room, EntriesOK, IsKey
<1>2. /\ Tail(pending) \in Seq(Requests)
      /\ \A i \in DOMAIN Tail(pending) : GoodRequest(Tail(pending)[i])
  BY TailGood DEF EnvInv, TypeOK
<1>3. CASE Crash
  BY <1>3 DEF EnvInv, TypeOK, Room, Crash
<1>4. CASE Replace(key, value) /\ Handled(code)
  <2>1. PICK i \in DOMAIN heap_env : heap_env' = [heap_env EXCEPT ![i] = key \o value]
    BY <1>4 DEF Replace
  <2>2. EntriesOK(heap_env') /\ Len(heap_env') = Len(heap_env)
    BY <1>1, <2>1, ReplaceOK DEF EnvInv, TypeOK
  <2> QED BY <1>1, <1>2, <1>4, <2>2 DEF EnvInv, TypeOK, Room, Replace, Handled
<1>5. CASE AppendEntry(key, value) /\ Handled(code)
  <2>1. EntriesOK(heap_env') /\ Len(heap_env') = Len(heap_env) + 1
    BY <1>1, <1>5, AppendOK DEF EnvInv, TypeOK, AppendEntry
  <2>2. env_capacity' \in Nat /\ env_capacity' >= 1 /\ Len(heap_env) + 1 <= env_capacity'
    BY <1>1, <1>5 DEF AppendEntry, Expanded
  <2> QED BY <1>2, <1>5, <2>1, <2>2 DEF EnvInv, TypeOK, Room, Handled
<1> QED BY <1>3, <1>4, <1>5 DEF Set

(* The value a plain name has is one of the values. *)
LEMMA ValueGood ==
    ASSUME EntriesOK(heap_env), NEW key \in Seq(Parts), Len(key) = 1,
           NEW i, FirstAt(key, i)
    PROVE  ValueOf(i, key) \in Values
<1>1. /\ i \in DOMAIN heap_env /\ Len(heap_env[i]) > 1
      /\ IsEntry(heap_env[i]) /\ heap_env[i] \in Seq(Parts)
  BY DEF FirstAt, Match, EntriesOK, IsEntry
<1>2. Tail(heap_env[i]) \in Values
  BY <1>1 DEF IsEntry
<1>3. heap_env[i] # << >>
  BY <1>1, EmptySeq
<1>4. Tail(heap_env[i]) = SubSeq(heap_env[i], 2, Len(heap_env[i]))
  BY <1>1, <1>3, TailIsSubSeq
<1>5. Len(key) + 1 = 2
  OBVIOUS
<1> QED BY <1>2, <1>4, <1>5 DEF ValueOf

LEMMA InitInv == Init => EnvInv
<1> SUFFICES ASSUME Init PROVE EnvInv
  OBVIOUS
<1>1. PICK e \in Environs, d \in Dirs :
        /\ heap_env = Copied(e)
        /\ env_capacity = IF Len(e) > 0 THEN 2 * Len(e) ELSE 8
        /\ alive = Fits(env_capacity)
        /\ pending = Opening(d)
        /\ code = 0
  BY DEF Init
<1>2. EntriesOK(e)
  BY EnvironmentAssumption
<1>3. e \in Seq(Seq(Parts)) /\ Len(e) \in Nat /\ DOMAIN e = 1 .. Len(e)
  BY <1>2, LenProperties DEF EntriesOK
<1>4. Null \in Seq(Parts) /\ Len(Null) = 0
  BY EmptySeq
<1>5. \A i \in 1 .. Len(e) : e[i] \in Seq(Parts) /\ IsEntry(e[i])
  BY <1>2, <1>3, ElementOfSeq DEF EntriesOK
<1>6. \A i \in 1 .. Len(e) : (IF e[i] \in Oversized THEN Null ELSE e[i]) \in Seq(Parts)
  BY <1>4, <1>5
<1>7. /\ heap_env = [i \in 1 .. Len(e) |-> IF e[i] \in Oversized THEN Null ELSE e[i]]
      /\ heap_env \in Seq(Seq(Parts))
  BY <1>1, <1>3, <1>6, IsASeq DEF Copied
<1>8. Len(heap_env) = Len(e) /\ DOMAIN heap_env = 1 .. Len(e)
  BY <1>3, <1>7, LenProperties
<1>9. IsEntry(Null)
  BY <1>4 DEF IsEntry
<1>10. \A i \in DOMAIN heap_env : IsEntry(heap_env[i])
  BY <1>5, <1>7, <1>8, <1>9
<1>11. EntriesOK(heap_env)
  BY <1>7, <1>10 DEF EntriesOK
<1>12. env_capacity \in Nat /\ env_capacity >= 1 /\ Len(heap_env) <= env_capacity
  BY <1>1, <1>3, <1>8
<1>13. alive \in BOOLEAN
  BY <1>1 DEF Fits
<1>14. pending \in Seq(Requests) /\ \A i \in DOMAIN pending : GoodRequest(pending[i])
  BY <1>1, OpeningGood
<1> QED BY <1>1, <1>11, <1>12, <1>13, <1>14 DEF EnvInv, TypeOK, Room

LEMMA StartKeepsInv ==
    ASSUME EnvInv, NEW requests \in Seq(Requests),
           \A i \in DOMAIN requests : GoodRequest(requests[i]),
           Start(requests)
    PROVE  EnvInv'
BY DEF EnvInv, TypeOK, Room, Start

LEMMA NextInv == EnvInv /\ [Next]_vars => EnvInv'
<1> SUFFICES ASSUME EnvInv, [Next]_vars PROVE EnvInv'
  OBVIOUS
<1>0. ASSUME pending # << >>
      PROVE  /\ GoodRequest(Head(pending))
             /\ Tail(pending) \in Seq(Requests)
             /\ \A i \in DOMAIN Tail(pending) : GoodRequest(Tail(pending)[i])
  BY <1>0, TailGood DEF EnvInv, TypeOK
<1>1. CASE SetStep
  BY <1>0, <1>1, SetKeepsInv DEF SetStep, GoodRequest
<1>2. CASE LevelStep
  <2> DEFINE key == Head(pending).key
  <2>1. /\ alive /\ pending # << >> /\ Head(pending).op = "level"
        /\ \/ Crash
           \/ Set(key, FirstLevel)
           \/ \E i \in DOMAIN heap_env : FirstAt(key, i) /\ Set(key, NextLevel[ValueOf(i, key)])
    BY <1>2 DEF LevelStep
  <2>2. IsKey(key) /\ Len(key) = 1 /\ key \in Seq(Parts)
    BY <1>0, <2>1 DEF GoodRequest, IsKey
  <2>3. FirstLevel \in Values /\ NextLevel \in [Values -> Values]
    BY EnvironmentAssumption
  <2> HIDE DEF key
  <2>4. CASE Crash
    BY <2>4 DEF EnvInv, TypeOK, Room, Crash
  <2>5. CASE Set(key, FirstLevel)
    BY <2>1, <2>2, <2>3, <2>5, SetKeepsInv
  <2>6. CASE \E i \in DOMAIN heap_env : FirstAt(key, i) /\ Set(key, NextLevel[ValueOf(i, key)])
    <3>1. PICK i \in DOMAIN heap_env : FirstAt(key, i) /\ Set(key, NextLevel[ValueOf(i, key)])
      BY <2>6
    <3>2. EntriesOK(heap_env)
      BY DEF EnvInv, TypeOK
    <3>3. ValueOf(i, key) \in Values
      BY <2>2, <3>1, <3>2, ValueGood
    <3>4. NextLevel[ValueOf(i, key)] \in Values
      BY <2>3, <3>3
    <3> QED BY <2>1, <2>2, <3>1, <3>4, SetKeepsInv
  <2> QED BY <2>1, <2>4, <2>5, <2>6
<1>3. CASE UnsetStep
  <2>1. CASE Crash
    BY <2>1 DEF EnvInv, TypeOK, Room, Crash
  <2>2. CASE UNCHANGED heap_env /\ UNCHANGED env_capacity /\ Handled(code)
    BY <1>0, <1>3, <2>2 DEF EnvInv, TypeOK, Room, Handled, UnsetStep
  <2>3. CASE /\ \E i \in DOMAIN heap_env : heap_env' = Without(i)
             /\ UNCHANGED env_capacity /\ Handled(code)
    <3>1. PICK i \in DOMAIN heap_env : heap_env' = Without(i)
      BY <2>3
    <3>2. EntriesOK(heap_env') /\ Len(heap_env') = Len(heap_env) - 1
      BY <3>1, WithoutOK DEF EnvInv, TypeOK
    <3>3. Len(heap_env) \in Nat /\ env_capacity \in Nat
      BY LenProperties DEF EnvInv, TypeOK, EntriesOK
    <3> QED BY <1>0, <1>3, <2>3, <3>2, <3>3 DEF EnvInv, TypeOK, Room, Handled, UnsetStep
  <2> QED BY <1>3, <2>1, <2>2, <2>3 DEF UnsetStep
<1>4. CASE ExportOther
  BY <1>0, <1>4 DEF EnvInv, TypeOK, Room, Handled, ExportOther
<1>5. CASE Export
  <2>1. PICK a \in Exports : Start(a)
    BY <1>5 DEF Export
  <2>2. a \in Seq(Requests) /\ \A i \in DOMAIN a : GoodRequest(a[i])
    BY EnvironmentAssumption
  <2> QED BY <2>1, <2>2, StartKeepsInv
<1>6. CASE Unset
  <2>1. PICK a \in Unsets :
          Start([i \in DOMAIN a |-> Request("unset", a[i], NoValue)])
    BY <1>6 DEF Unset
  <2> DEFINE s == [i \in DOMAIN a |-> Request("unset", a[i], NoValue)]
  <2>2. s \in Seq(Requests) /\ \A i \in DOMAIN s : GoodRequest(s[i])
    BY UnsetGood
  <2> HIDE DEF s
  <2>3. Start(s)
    BY <2>1 DEF s
  <2> QED BY <2>2, <2>3, StartKeepsInv
<1>7. CASE Cd
  <2>1. PICK old \in Dirs, new \in Dirs :
          Start(<< Request("set", << "OLDPWD" >>, old), Request("set", << "PWD" >>, new) >>)
    BY <1>7 DEF Cd
  <2> DEFINE s == << Request("set", << "OLDPWD" >>, old), Request("set", << "PWD" >>, new) >>
  <2>2. GoodRequest(s[1]) /\ GoodRequest(s[2])
    BY CdGood
  <2>3. s \in Seq(Requests) /\ DOMAIN s = 1 .. 2
    BY <2>2 DEF GoodRequest
  <2>4. \A i \in DOMAIN s : GoodRequest(s[i])
    BY <2>2, <2>3
  <2> HIDE DEF s
  <2>5. Start(s)
    BY <2>1 DEF s
  <2> QED BY <2>3, <2>4, <2>5, StartKeepsInv
<1>8. CASE List
  <2>1. CASE Crash
    BY <2>1 DEF EnvInv, TypeOK, Room, Crash
  <2>2. CASE code' = 0 /\ UNCHANGED << heap_env, env_capacity, alive, pending >>
    BY <2>2 DEF EnvInv, TypeOK, Room
  <2> QED BY <1>8, <2>1, <2>2 DEF List
<1>9. CASE Other
  BY <1>9 DEF EnvInv, TypeOK, Room, Other
<1>10. CASE UNCHANGED vars
  BY <1>10 DEF EnvInv, TypeOK, Room, vars
<1> QED BY <1>1, <1>2, <1>3, <1>4, <1>5, <1>6, <1>7, <1>8, <1>9, <1>10 DEF Next

LEMMA EnvInvariant == Spec => []EnvInv
BY InitInv, NextInv, PTL DEF Spec

(* Every variable has its type in every reachable state. *)
THEOREM TypeCorrect == Spec => []TypeOK
<1>1. EnvInv => TypeOK
  BY DEF EnvInv
<1> QED BY <1>1, EnvInvariant, PTL

(* However exports and unsets follow each other, the array that holds the   *)
(* environment has room for its terminator.                                 *)
THEOREM TerminatorCorrect == Spec => []TerminatorFits
<1>1. EnvInv => TerminatorFits
  <2> SUFFICES ASSUME EnvInv, alive PROVE Len(heap_env) < env_capacity + 1
    BY DEF TerminatorFits
  <2> QED BY LenProperties DEF EnvInv, TypeOK, Room, EntriesOK
<1> QED BY <1>1, EnvInvariant, PTL

-----------------------------------------------------------------------------
(* The cause of a crash, and that it is the only one.                       *)

LEMMA SetCause ==
    ASSUME EnvInv, alive, pending # << >>,
           NEW key, NEW value, Set(key, value), ~alive',
           key = Head(pending).key,
           \/ value = Head(pending).value
           \/ Head(pending).op = "level" /\ value \in Values
    PROVE  CrashOnlyAtLimits'
<1>1. CannotSet(key, value) /\ Crash
  BY DEF Set, Handled
<1>2. env_capacity \in Nat /\ env_capacity >= 1
  BY DEF EnvInv, TypeOK, Room
<1>3. CASE Faults(key)
  BY <1>1, <1>3 DEF Faults, Crash, CrashOnlyAtLimits
<1>4. CASE key \o value \in Oversized
  BY <1>1, <1>4 DEF Crash, CrashOnlyAtLimits
<1>5. CASE Expanded # env_capacity /\ ~Fits(Expanded)
  <2>1. Expanded = 2 * env_capacity /\ Len(heap_env) >= env_capacity - 1
    BY <1>2, <1>5 DEF Expanded
  <2> QED BY <1>1, <1>5, <2>1 DEF Crash, CrashOnlyAtLimits, Fits
<1> QED BY <1>1, <1>3, <1>4, <1>5 DEF CannotSet

LEMMA FaultCause ==
    ASSUME Crash, \E i \in DOMAIN heap_env : heap_env[i] = Null
    PROVE  CrashOnlyAtLimits'
BY DEF Crash, CrashOnlyAtLimits

LEMMA NextCause == EnvInv /\ CrashOnlyAtLimits /\ [Next]_vars => CrashOnlyAtLimits'
<1> SUFFICES ASSUME EnvInv, CrashOnlyAtLimits, [Next]_vars, ~alive'
             PROVE  CrashOnlyAtLimits'
  BY DEF CrashOnlyAtLimits
<1>1. CASE SetStep
  BY <1>1, SetCause DEF SetStep
<1>2. CASE LevelStep
  <2> DEFINE key == Head(pending).key
  <2>1. /\ alive /\ pending # << >> /\ Head(pending).op = "level"
        /\ \/ Faults(key) /\ Crash
           \/ Set(key, FirstLevel)
           \/ \E i \in DOMAIN heap_env : FirstAt(key, i) /\ Set(key, NextLevel[ValueOf(i, key)])
    BY <1>2 DEF LevelStep
  <2>2. GoodRequest(Head(pending))
    BY <2>1, TailGood DEF EnvInv, TypeOK
  <2>3. key = Head(pending).key /\ key \in Seq(Parts) /\ Len(key) = 1
    BY <2>1, <2>2 DEF GoodRequest, IsKey
  <2>4. FirstLevel \in Values /\ NextLevel \in [Values -> Values]
    BY EnvironmentAssumption
  <2> HIDE DEF key
  <2>5. CASE Faults(key) /\ Crash
    BY <2>5, FaultCause DEF Faults
  <2>6. CASE Set(key, FirstLevel)
    BY <2>1, <2>3, <2>4, <2>6, SetCause
  <2>7. CASE \E i \in DOMAIN heap_env : FirstAt(key, i) /\ Set(key, NextLevel[ValueOf(i, key)])
    <3>1. PICK i \in DOMAIN heap_env : FirstAt(key, i) /\ Set(key, NextLevel[ValueOf(i, key)])
      BY <2>7
    <3>2. EntriesOK(heap_env)
      BY DEF EnvInv, TypeOK
    <3>3. NextLevel[ValueOf(i, key)] \in Values
      BY <2>3, <2>4, <3>1, <3>2, ValueGood
    <3> QED BY <2>1, <2>3, <3>1, <3>3, SetCause
  <2> QED BY <2>1, <2>5, <2>6, <2>7
<1>3. CASE UnsetStep
  BY <1>3, FaultCause DEF UnsetStep, Faults, Handled
<1>4. CASE ExportOther
  BY <1>4 DEF ExportOther, Handled
<1>5. CASE Export
  BY <1>5 DEF Export, Start
<1>6. CASE Unset
  BY <1>6 DEF Unset, Start
<1>7. CASE Cd
  BY <1>7 DEF Cd, Start
<1>8. CASE List
  BY <1>8, FaultCause DEF List
<1>9. CASE Other
  BY <1>9 DEF Other
<1>10. CASE UNCHANGED vars
  BY <1>10 DEF vars, CrashOnlyAtLimits
<1> QED BY <1>1, <1>2, <1>3, <1>4, <1>5, <1>6, <1>7, <1>8, <1>9, <1>10 DEF Next

(* The shell follows a NULL pointer of its environment only when an         *)
(* allocation was refused for its size.                                     *)
THEOREM CrashCorrect == Spec => []CrashOnlyAtLimits
<1>1. Init => CrashOnlyAtLimits
  BY DEF Init, CrashOnlyAtLimits
<1> QED BY <1>1, NextCause, EnvInvariant, PTL DEF Spec

-----------------------------------------------------------------------------
(* Names stay unique.                                                       *)

(* For a plain name, the scan's test compares the first parts. *)
LEMMA MatchesName ==
    ASSUME NEW e \in Seq(Parts), NEW key \in Seq(Parts), Len(key) = 1
    PROVE  Match(e, key) <=> Len(e) > 1 /\ NameOf(e) = NameOf(key)
<1>1. CASE Len(e) > 1
  <2>1. Len(e) \in Nat /\ 1 \in 1 .. Len(e)
    BY <1>1, LenProperties
  <2>2. \A i \in 1 .. 1 : e[i] \in Parts
    BY <2>1, ElementOfSeq
  <2>3. /\ SubSeq(e, 1, 1) \in Seq(Parts) /\ Len(SubSeq(e, 1, 1)) = 1
        /\ SubSeq(e, 1, 1)[1] = e[1]
    BY <2>2, SubSeqProperties
  <2>4. SubSeq(e, 1, 1) = key <=> e[1] = key[1]
    <3>1. ASSUME e[1] = key[1] PROVE SubSeq(e, 1, 1) = key
      BY <2>3, <3>1, SeqEqual
    <3> QED BY <2>3, <3>1
  <2> QED BY <1>1, <2>4 DEF Match, NameOf
<1> QED BY <1>1 DEF Match

LEMMA SetKeepsUnique ==
    ASSUME EnvInv, Unique(heap_env), pending # << >>,
           NEW key, IsKey(key), Len(key) = 1, NEW value \in Values,
           Set(key, value)
    PROVE  Unique(heap_env')
<1> DEFINE entry == key \o value
<1>1. /\ IsEntry(entry) /\ Len(entry) > 1 /\ NameOf(entry) = NameOf(key)
      /\ key \in Seq(Parts)
  BY EntryType DEF IsKey, NameOf
<1>2. /\ EntriesOK(heap_env) /\ heap_env \in Seq(Seq(Parts))
      /\ Len(heap_env) \in Nat /\ DOMAIN heap_env = 1 .. Len(heap_env)
  BY LenProperties DEF EnvInv, TypeOK, EntriesOK
<1>3. \A i \in DOMAIN heap_env :
         Match(heap_env[i], key) <=>
            Len(heap_env[i]) > 1 /\ NameOf(heap_env[i]) = NameOf(key)
  BY <1>1, <1>2, ElementOfSeq, MatchesName
<1> HIDE DEF entry
<1>4. CASE Crash
  BY <1>4 DEF Crash
<1>5. CASE Replace(key, value)
  <2>1. PICK i \in DOMAIN heap_env : FirstAt(key, i) /\ heap_env' = [heap_env EXCEPT ![i] = entry]
    BY <1>5 DEF Replace, entry
  <2>2. Len(heap_env[i]) > 1 /\ NameOf(heap_env[i]) = NameOf(entry)
    BY <1>1, <1>3, <2>1 DEF FirstAt
  <2>3. \A j \in DOMAIN heap_env' : /\ j \in DOMAIN heap_env
                                   /\ heap_env'[j] = IF j = i THEN entry ELSE heap_env[j]
    BY <2>1
  <2>4. \A j \in DOMAIN heap_env' : Len(heap_env'[j]) > 1 =>
            Len(heap_env[j]) > 1 /\ NameOf(heap_env'[j]) = NameOf(heap_env[j])
    BY <2>2, <2>3
  <2> QED BY <2>3, <2>4 DEF Unique
<1>6. CASE AppendEntry(key, value)
  <2>1. Absent(key) /\ heap_env' = Append(heap_env, entry)
    BY <1>6 DEF AppendEntry, entry
  <2>2. /\ EntriesOK(heap_env') /\ Len(heap_env') = Len(heap_env) + 1
        /\ heap_env'[Len(heap_env) + 1] = entry
        /\ \A i \in 1 .. Len(heap_env) : heap_env'[i] = heap_env[i]
    BY <1>1, <1>2, <2>1, AppendOK
  <2>3. DOMAIN heap_env' = 1 .. Len(heap_env) + 1
    BY <2>2, LenProperties DEF EntriesOK
  <2>4. \A i \in 1 .. Len(heap_env) :
           ~(Len(heap_env[i]) > 1 /\ NameOf(heap_env[i]) = NameOf(entry))
    BY <1>1, <1>2, <1>3, <2>1 DEF Absent
  <2> SUFFICES ASSUME NEW i \in DOMAIN heap_env', NEW j \in DOMAIN heap_env',
                      Len(heap_env'[i]) > 1, Len(heap_env'[j]) > 1,
                      NameOf(heap_env'[i]) = NameOf(heap_env'[j])
               PROVE  i = j
    BY DEF Unique
  <2>5. CASE i \in 1 .. Len(heap_env) /\ j \in 1 .. Len(heap_env)
    BY <1>2, <2>2, <2>5 DEF Unique
  <2>6. CASE i = Len(heap_env) + 1 /\ j \in 1 .. Len(heap_env)
    BY <2>2, <2>4, <2>6
  <2>7. CASE j = Len(heap_env) + 1 /\ i \in 1 .. Len(heap_env)
    BY <2>2, <2>4, <2>7
  <2> QED BY <1>2, <2>3, <2>5, <2>6, <2>7
<1> QED BY <1>4, <1>5, <1>6 DEF Set

LEMMA NextUnique == EnvInv /\ [Next]_vars => (Unique(heap_env) => Unique(heap_env'))
<1> SUFFICES ASSUME EnvInv, [Next]_vars, Unique(heap_env) PROVE Unique(heap_env')
  OBVIOUS
<1>0. pending # << >> => GoodRequest(Head(pending))
  BY TailGood DEF EnvInv, TypeOK
<1>1. CASE SetStep
  BY <1>0, <1>1, SetKeepsUnique DEF SetStep, GoodRequest
<1>2. CASE LevelStep
  <2> DEFINE key == Head(pending).key
  <2>1. /\ alive /\ pending # << >> /\ Head(pending).op = "level"
        /\ \/ Crash
           \/ Set(key, FirstLevel)
           \/ \E i \in DOMAIN heap_env : FirstAt(key, i) /\ Set(key, NextLevel[ValueOf(i, key)])
    BY <1>2 DEF LevelStep
  <2>2. IsKey(key) /\ Len(key) = 1 /\ key \in Seq(Parts)
    BY <1>0, <2>1 DEF GoodRequest, IsKey
  <2>3. FirstLevel \in Values /\ NextLevel \in [Values -> Values]
    BY EnvironmentAssumption
  <2> HIDE DEF key
  <2>4. CASE Crash
    BY <2>4 DEF Crash
  <2>5. CASE Set(key, FirstLevel)
    BY <2>1, <2>2, <2>3, <2>5, SetKeepsUnique
  <2>6. CASE \E i \in DOMAIN heap_env : FirstAt(key, i) /\ Set(key, NextLevel[ValueOf(i, key)])
    <3>1. PICK i \in DOMAIN heap_env : FirstAt(key, i) /\ Set(key, NextLevel[ValueOf(i, key)])
      BY <2>6
    <3>2. EntriesOK(heap_env)
      BY DEF EnvInv, TypeOK
    <3>3. NextLevel[ValueOf(i, key)] \in Values
      BY <2>2, <2>3, <3>1, <3>2, ValueGood
    <3> QED BY <2>1, <2>2, <3>1, <3>3, SetKeepsUnique
  <2> QED BY <2>1, <2>4, <2>5, <2>6
<1>3. CASE UnsetStep
  <2>1. CASE UNCHANGED heap_env
    BY <2>1
  <2>2. CASE \E i \in DOMAIN heap_env : heap_env' = Without(i)
    <3>1. PICK i \in DOMAIN heap_env : heap_env' = Without(i)
      BY <2>2
    <3>2. /\ EntriesOK(heap_env') /\ Len(heap_env') = Len(heap_env) - 1
          /\ \A j \in 1 .. Len(heap_env) - 1 :
                heap_env'[j] = IF j < i THEN heap_env[j] ELSE heap_env[j + 1]
      BY <3>1, WithoutOK DEF EnvInv, TypeOK
    <3>3. /\ Len(heap_env) \in Nat /\ DOMAIN heap_env = 1 .. Len(heap_env)
          /\ DOMAIN heap_env' = 1 .. Len(heap_env) - 1
      BY <3>2, LenProperties DEF EnvInv, TypeOK, EntriesOK
    <3> DEFINE old(j) == IF j < i THEN j ELSE j + 1
    <3>4. \A j \in DOMAIN heap_env' : old(j) \in DOMAIN heap_env /\ heap_env'[j] = heap_env[old(j)]
      BY <3>2, <3>3
    <3>5. \A j, k \in DOMAIN heap_env' : old(j) = old(k) => j = k
      BY <3>3
    <3> HIDE DEF old
    <3> QED BY <3>4, <3>5 DEF Unique
  <2> QED BY <1>3, <2>1, <2>2 DEF UnsetStep, Crash
<1>4. CASE ExportOther
  BY <1>4 DEF ExportOther
<1>5. CASE Export
  BY <1>5 DEF Export, Start
<1>6. CASE Unset
  BY <1>6 DEF Unset, Start
<1>7. CASE Cd
  BY <1>7 DEF Cd, Start
<1>8. CASE List
  BY <1>8 DEF List, Crash
<1>9. CASE Other
  BY <1>9 DEF Other
<1>10. CASE UNCHANGED vars
  BY <1>10 DEF vars
<1> QED BY <1>1, <1>2, <1>3, <1>4, <1>5, <1>6, <1>7, <1>8, <1>9, <1>10 DEF Next

(* No step gives a variable a second entry: an environment that starts      *)
(* without duplicates never has any.                                        *)
THEOREM UniqueCorrect == Spec => UniqueKept
<1>1. EnvInv /\ [Next]_vars => [Unique(heap_env) => Unique(heap_env')]_vars
  BY NextUnique
<1> QED BY <1>1, EnvInvariant, PTL DEF Spec, UniqueKept

-----------------------------------------------------------------------------
(* Induction and definition by primitive recursion, stated of a set and of  *)
(* a function in the place of an operator: a set that is not all of 0 .. n  *)
(* misses a least number (WFMin).                                           *)

LEMMA LessRelated ==
    ASSUME NEW j \in Nat, NEW k \in Nat, j < k
    PROVE  << j, k >> \in OpToRel(<, Nat)
<1> DEFINE p == << j, k >>
<1>1. p[1] = j /\ p[2] = k /\ p \in Nat \X Nat
  OBVIOUS
<1>2. p[1] < p[2]
  BY <1>1
<1> HIDE DEF p
<1>3. p \in OpToRel(<, Nat)
  BY <1>1, <1>2, Zenon DEF OpToRel
<1> QED BY <1>3 DEF p

\* What holds of 0 and of k, if of k - 1, holds up to n.
LEMMA Upto ==
    ASSUME NEW n \in Nat, NEW T,
           0 \in T, \A k \in 1 .. n : k - 1 \in T => k \in T
    PROVE  0 .. n \subseteq T
<1> DEFINE Missing == { k \in 0 .. n : k \notin T }
<1> SUFFICES ASSUME Missing # {} PROVE FALSE
  OBVIOUS
<1>1. Missing \subseteq Nat
  OBVIOUS
<1>2. PICK k \in Missing : \A j \in Missing : ~(<< j, k >> \in OpToRel(<, Nat))
  <2>1. IsWellFoundedOn(OpToRel(<, Nat), Nat)
    BY NatLessThanWellFounded
  <2> HIDE DEF Missing
  <2> QED BY <1>1, <2>1, WFMin
<1>3. k \in 1 .. n /\ k - 1 \in 0 .. n
  OBVIOUS
<1>4. k - 1 \notin Missing
  <2>1. k \in Nat /\ k - 1 \in Nat /\ k - 1 < k
    BY <1>3
  <2>2. << k - 1, k >> \in OpToRel(<, Nat)
    BY <2>1, LessRelated
  <2> QED BY <1>2, <2>2
<1> QED BY <1>3, <1>4

\* g is b at first, and F of what it was before at each k.
Follows(g, b, n, F) ==
    /\ g[0] = b
    /\ \A k \in 1 .. n : g[k] = F[<< g[k - 1], k >>]

\* There is such a function.
LEMMA Recursion ==
    ASSUME NEW A, NEW b \in A, NEW n \in Nat, NEW F \in [A \X (1 .. n) -> A]
    PROVE  \E g \in [0 .. n -> A] : Follows(g, b, n, F)
<1> DEFINE T == { m \in 0 .. n : \E g \in [0 .. m -> A] : Follows(g, b, m, F) }
<1>1. 0 \in T
  <2>1. [k \in 0 .. 0 |-> b] \in [0 .. 0 -> A] /\ Follows([k \in 0 .. 0 |-> b], b, 0, F)
    BY DEF Follows
  <2> QED BY <2>1
<1>2. ASSUME NEW m \in 1 .. n, m - 1 \in T PROVE m \in T
  <2>1. PICK g \in [0 .. m - 1 -> A] : Follows(g, b, m - 1, F)
    BY <1>2
  <2> DEFINE h == [k \in 0 .. m |-> IF k < m THEN g[k] ELSE F[<< g[m - 1], m >>]]
  <2>2. h \in [0 .. m -> A]
    <3>1. g[m - 1] \in A
      OBVIOUS
    <3>2. F[<< g[m - 1], m >>] \in A
      BY <3>1
    <3> QED BY <3>2
  <2>3. h[0] = b
    BY <2>1 DEF Follows
  <2>4. ASSUME NEW k \in 1 .. m PROVE h[k] = F[<< h[k - 1], k >>]
    <3>1. CASE k = m
      BY <3>1
    <3>2. CASE k < m
      BY <2>1, <3>2 DEF Follows
    <3> QED BY <3>1, <3>2
  <2>5. Follows(h, b, m, F)
    BY <2>3, <2>4 DEF Follows
  <2> HIDE DEF h
  <2> QED BY <2>2, <2>5
<1>3. 0 .. n \subseteq T
  <2> HIDE DEF T
  <2> QED BY <1>1, <1>2, Upto
<1> QED BY <1>3

-----------------------------------------------------------------------------
(* The stacks of values.                                                    *)

Strings == Seq(Parts)

LEMMA StacksDef ==
    ASSUME NEW h, EntriesOK(h), NEW n
    PROVE  /\ Stacks(h, n)[0] = << >>
           /\ \A k \in 1 .. Len(h) :
                Stacks(h, n)[k] = IF Gives(h[k], n) THEN Append(Stacks(h, n)[k - 1], Tail(h[k]))
                                  ELSE Stacks(h, n)[k - 1]
           /\ \A k \in 0 .. Len(h) : Stacks(h, n)[k] \in Seq(Strings)
           /\ \A k \in 1 .. Len(h) : Gives(h[k], n) => Tail(h[k]) \in Strings
<1> DEFINE l == Len(h)
           F == [x \in Seq(Strings) \X (1 .. l) |->
                    IF Gives(h[x[2]], n) THEN Append(x[1], Tail(h[x[2]])) ELSE x[1]]
           Def(f) == [k \in 0 .. l |-> IF k = 0 THEN << >>
                                       ELSE IF Gives(h[k], n) THEN Append(f[k - 1], Tail(h[k]))
                                       ELSE f[k - 1]]
           S == Stacks(h, n)
<1>1. h \in Seq(Strings) /\ l \in Nat
  BY LenProperties DEF EntriesOK, Strings
<1>2. ASSUME NEW k \in 1 .. l, Gives(h[k], n) PROVE Tail(h[k]) \in Strings
  <2>1. h[k] \in Seq(Parts) /\ Len(h[k]) > 1
    BY <1>1, <1>2, ElementOfSeq DEF Strings, Gives
  <2>2. h[k] # << >>
    BY <2>1, EmptySeq
  <2> QED BY <2>1, <2>2, HeadTailProperties DEF Strings
<1>3. F \in [Seq(Strings) \X (1 .. l) -> Seq(Strings)]
  <2> SUFFICES ASSUME NEW x \in Seq(Strings) \X (1 .. l)
               PROVE  (IF Gives(h[x[2]], n) THEN Append(x[1], Tail(h[x[2]])) ELSE x[1]) \in Seq(Strings)
    OBVIOUS
  <2>1. x[1] \in Seq(Strings) /\ x[2] \in 1 .. l
    OBVIOUS
  <2>2. CASE Gives(h[x[2]], n)
    <3>1. Tail(h[x[2]]) \in Strings
      BY <1>2, <2>1, <2>2
    <3> QED BY <2>1, <2>2, <3>1, AppendProperties
  <2> QED BY <2>1, <2>2
<1>4. << >> \in Seq(Strings)
  BY EmptySeq
<1> HIDE DEF l
<1>5. PICK g \in [0 .. l -> Seq(Strings)] : Follows(g, << >>, l, F)
  <2> HIDE DEF F
  <2> QED BY <1>1, <1>3, <1>4, Recursion
<1>6. g = Def(g)
  <2>1. ASSUME NEW k \in 1 .. l
        PROVE  g[k] = IF Gives(h[k], n) THEN Append(g[k - 1], Tail(h[k])) ELSE g[k - 1]
    <3>1. k - 1 \in 0 .. l
      BY <1>1
    <3>2. << g[k - 1], k >> \in Seq(Strings) \X (1 .. l)
      BY <3>1
    <3>3. F[<< g[k - 1], k >>] = IF Gives(h[k], n) THEN Append(g[k - 1], Tail(h[k])) ELSE g[k - 1]
      BY <3>2
    <3>4. g[k] = F[<< g[k - 1], k >>]
      BY <1>5 DEF Follows
    <3> QED BY <3>3, <3>4
  <2>2. g[0] = << >>
    BY <1>5 DEF Follows
  <2>3. ASSUME NEW k \in 0 .. l PROVE g[k] = Def(g)[k]
    <3>1. CASE k = 0
      BY <2>2, <3>1
    <3>2. CASE k \in 1 .. l
      <4>1. Def(g)[k] = IF k = 0 THEN << >>
                        ELSE IF Gives(h[k], n) THEN Append(g[k - 1], Tail(h[k])) ELSE g[k - 1]
        OBVIOUS
      <4>2. k # 0
        BY <3>2
      <4>3. Def(g)[k] = IF Gives(h[k], n) THEN Append(g[k - 1], Tail(h[k])) ELSE g[k - 1]
        <5> HIDE DEF Def
        <5> QED BY <4>1, <4>2, Zenon
      <4> HIDE DEF Def
      <4> QED BY <2>1, <3>2, <4>3, Zenon
    <3> QED BY <1>1, <3>1, <3>2
  <2>4. g = [k \in 0 .. l |-> g[k]] /\ Def(g) = [k \in 0 .. l |-> Def(g)[k]]
    OBVIOUS
  <2> HIDE DEF Def
  <2> QED BY <2>3, <2>4
<1>7. S = CHOOSE f : f = Def(f)
  BY DEF Stacks, l
<1>8. S = Def(S)
  <2> HIDE DEF Def, S
  <2> QED BY <1>6, <1>7
<1> HIDE DEF S
<1> DEFINE Step(k) == S[k] = IF Gives(h[k], n) THEN Append(S[k - 1], Tail(h[k])) ELSE S[k - 1]
<1>9. S[0] = << >> /\ \A k \in 1 .. l : Step(k)
  <2>1. \A k \in 0 .. l : S[k] = Def(S)[k]
    <3> HIDE DEF Def
    <3> QED BY <1>8
  <2>2. 0 \in 0 .. l /\ \A k \in 1 .. l : k \in 0 .. l /\ k # 0
    BY <1>1
  <2>3. S[0] = << >>
    BY <2>1, <2>2
  <2>4. ASSUME NEW k \in 1 .. l PROVE Step(k)
    BY <2>1, <2>2
  <2> QED BY <2>3, <2>4
<1> HIDE DEF Step
<1> DEFINE T == { k \in 0 .. l : S[k] \in Seq(Strings) }
<1>10. 0 \in T
  <2>1. S[0] \in Seq(Strings)
    BY <1>4, <1>9, Zenon
  <2> QED BY <1>1, <2>1
<1>11. ASSUME NEW k \in 1 .. l, k - 1 \in T PROVE k \in T
  <2>1. S[k - 1] \in Seq(Strings)
    BY <1>11
  <2>2. CASE Gives(h[k], n)
    <3>1. S[k] = Append(S[k - 1], Tail(h[k])) /\ Tail(h[k]) \in Strings
      BY <1>2, <1>9, <2>2 DEF Step
    <3>2. S[k] \in Seq(Strings)
      BY <2>1, <3>1, AppendProperties
    <3> QED BY <1>1, <3>2
  <2>3. CASE ~Gives(h[k], n)
    <3>1. S[k] = S[k - 1]
      BY <1>9, <2>3 DEF Step
    <3> QED BY <1>1, <2>1, <3>1
  <2> QED BY <2>2, <2>3
<1>12. 0 .. l \subseteq T
  <2> HIDE DEF T
  <2> QED BY <1>1, <1>10, <1>11, Upto
<1> QED BY <1>2, <1>9, <1>12 DEF l, S, Step

\* What two arrays give is the same as far as they agree on the name.
LEMMA StacksAgree ==
    ASSUME NEW h, EntriesOK(h), NEW g, EntriesOK(g), NEW n,
           NEW m \in Nat, m <= Len(h), m <= Len(g),
           \A j \in 1 .. m : h[j] = g[j] \/ (~Gives(h[j], n) /\ ~Gives(g[j], n))
    PROVE  \A k \in 0 .. m : Stacks(h, n)[k] = Stacks(g, n)[k]
<1> DEFINE S == Stacks(h, n)
           R == Stacks(g, n)
           T == { k \in 0 .. m : S[k] = R[k] }
<1>1. Len(h) \in Nat /\ Len(g) \in Nat
  BY LenProperties DEF EntriesOK
<1>2. S[0] = R[0]
  BY StacksDef
<1>3. \A k \in 1 .. m :
        /\ S[k] = IF Gives(h[k], n) THEN Append(S[k - 1], Tail(h[k])) ELSE S[k - 1]
        /\ R[k] = IF Gives(g[k], n) THEN Append(R[k - 1], Tail(g[k])) ELSE R[k - 1]
  <2> SUFFICES ASSUME NEW k \in 1 .. m
               PROVE  /\ S[k] = IF Gives(h[k], n) THEN Append(S[k - 1], Tail(h[k])) ELSE S[k - 1]
                      /\ R[k] = IF Gives(g[k], n) THEN Append(R[k - 1], Tail(g[k])) ELSE R[k - 1]
    OBVIOUS
  <2>1. k \in 1 .. Len(h) /\ k \in 1 .. Len(g)
    BY <1>1
  <2> QED BY <2>1, StacksDef
<1> HIDE DEF S, R
<1>4. ASSUME NEW k \in 1 .. m, k - 1 \in T PROVE k \in T
  <2>1. S[k - 1] = R[k - 1]
    BY <1>4
  <2>2. CASE h[k] = g[k]
    BY <1>3, <2>1, <2>2
  <2>3. CASE ~Gives(h[k], n) /\ ~Gives(g[k], n)
    BY <1>3, <2>1, <2>3
  <2> QED BY <2>2, <2>3
<1>5. 0 .. m \subseteq T
  <2>1. 0 \in T
    BY <1>2
  <2> HIDE DEF T
  <2> QED BY <1>4, <2>1, Upto
<1> QED BY <1>5 DEF S, R

LEMMA StacksEmpty ==
    ASSUME NEW h, EntriesOK(h), NEW n, NEW m \in Nat, m <= Len(h),
           \A j \in 1 .. m : ~Gives(h[j], n)
    PROVE  \A k \in 0 .. m : Stacks(h, n)[k] = << >>
<1> DEFINE S == Stacks(h, n)
           T == { k \in 0 .. m : S[k] = << >> }
<1>1. S[0] = << >> /\ \A k \in 1 .. m : S[k] = S[k - 1]
  <2>1. Len(h) \in Nat
    BY LenProperties DEF EntriesOK
  <2>2. \A k \in 1 .. m : k \in 1 .. Len(h)
    BY <2>1
  <2> QED BY <2>2, StacksDef
<1> HIDE DEF S
<1>2. 0 .. m \subseteq T
  <2>1. 0 \in T
    BY <1>1
  <2>2. ASSUME NEW k \in 1 .. m, k - 1 \in T PROVE k \in T
    BY <1>1, <2>2
  <2> HIDE DEF T
  <2> QED BY <2>1, <2>2, Upto
<1> QED BY <1>2 DEF S

\* One step of the stack, where its types are known.
LEMMA StackStep ==
    ASSUME NEW h, EntriesOK(h), NEW n, NEW k \in 1 .. Len(h)
    PROVE  /\ k - 1 \in 0 .. Len(h) /\ k \in 0 .. Len(h)
           /\ Stacks(h, n)[k - 1] \in Seq(Strings)
           /\ Gives(h[k], n) => /\ Tail(h[k]) \in Strings
                                /\ Stacks(h, n)[k] = Append(Stacks(h, n)[k - 1], Tail(h[k]))
           /\ ~Gives(h[k], n) => Stacks(h, n)[k] = Stacks(h, n)[k - 1]
<1>1. Len(h) \in Nat
  BY LenProperties DEF EntriesOK
<1>2. k - 1 \in 0 .. Len(h) /\ k \in 0 .. Len(h)
  BY <1>1
<1>3. Stacks(h, n)[k - 1] \in Seq(Strings)
  BY <1>2, StacksDef
<1>4. ASSUME Gives(h[k], n)
      PROVE  /\ Tail(h[k]) \in Strings
             /\ Stacks(h, n)[k] = Append(Stacks(h, n)[k - 1], Tail(h[k]))
  BY <1>4, StacksDef
<1>5. ASSUME ~Gives(h[k], n)
      PROVE  Stacks(h, n)[k] = Stacks(h, n)[k - 1]
  BY <1>5, StacksDef
<1> QED BY <1>2, <1>3, <1>4, <1>5

LEMMA NewFirst ==
    ASSUME NEW T, NEW s \in Seq(T), s # << >>, NEW v \in T, NEW x \in T
    PROVE  Append(<< v >> \o Tail(s), x) = << v >> \o Tail(Append(s, x))
<1>1. << v >> \in Seq(T) /\ << x >> \in Seq(T) /\ Tail(s) \in Seq(T)
  BY HeadTailProperties
<1>2. << v >> \o Tail(s) \in Seq(T)
  BY <1>1, ConcatProperties
<1>3. Tail(Append(s, x)) = Append(Tail(s), x)
  BY HeadTailAppend
<1>4. Append(Tail(s), x) = Tail(s) \o << x >>
  BY <1>1, AppendIsConcat
<1>5. Append(<< v >> \o Tail(s), x) = (<< v >> \o Tail(s)) \o << x >>
  BY <1>2, AppendIsConcat
<1>6. (<< v >> \o Tail(s)) \o << x >> = << v >> \o (Tail(s) \o << x >>)
  BY <1>1, ConcatAssociative
<1> QED BY <1>3, <1>4, <1>5, <1>6

\* The first value of a name in h is another one in g.
ReplacedIn(h, g, n, i) ==
    /\ i \in 1 .. Len(h) /\ Gives(h[i], n) /\ Gives(g[i], n)
    /\ \A j \in 1 .. i - 1 : ~Gives(h[j], n)
    /\ Len(g) = Len(h) /\ \A j \in 1 .. Len(h) : j # i => g[j] = h[j]

NewOnTop(h, g, n, i) ==
    \A k \in i .. Len(h) :
        /\ Stacks(h, n)[k] # << >>
        /\ Stacks(g, n)[k] = << Tail(g[i]) >> \o Tail(Stacks(h, n)[k])

LEMMA StacksReplaced ==
    ASSUME NEW h, EntriesOK(h), NEW g, EntriesOK(g), NEW n, NEW i, ReplacedIn(h, g, n, i)
    PROVE  NewOnTop(h, g, n, i)
<1> DEFINE S == Stacks(h, n)
           R == Stacks(g, n)
           e == g[i]
           P(k) == S[k] # << >> /\ R[k] = << Tail(e) >> \o Tail(S[k])
           T == { k \in 0 .. Len(h) : k >= i => P(k) }
<1>0. /\ i \in 1 .. Len(h) /\ Gives(h[i], n) /\ Gives(g[i], n)
      /\ \A j \in 1 .. i - 1 : ~Gives(h[j], n)
  BY DEF ReplacedIn
<1>1. h \in Seq(Seq(Parts)) /\ Len(h) \in Nat /\ DOMAIN h = 1 .. Len(h)
  BY LenProperties DEF EntriesOK
<1>2. /\ EntriesOK(g) /\ Len(g) = Len(h) 
      /\ \A j \in 1 .. Len(h) : j # i => g[j] = h[j]
  BY DEF ReplacedIn
<1>3. Tail(e) \in Strings
  <2>1. e \in Seq(Parts) /\ Len(e) > 1
    <3>1. i \in DOMAIN g
      BY <1>0, <1>2, LenProperties DEF EntriesOK
    <3> QED BY <1>0, <3>1 DEF EntriesOK, IsEntry, Gives
  <2>2. e # << >>
    BY <2>1, EmptySeq
  <2> QED BY <2>1, <2>2, HeadTailProperties DEF Strings
<1>4. P(i)
  <2>1. i - 1 \in Nat /\ i - 1 <= Len(h)
    BY <1>0, <1>1
  <2>2. \A k \in 0 .. i - 1 : S[k] = << >>
    BY <1>0, <2>1, StacksEmpty
  <2>3. \A j \in 1 .. i - 1 : ~Gives(g[j], n)
    BY <1>0, <1>1, <1>2
  <2>4. \A k \in 0 .. i - 1 : R[k] = << >>
    <3>1. EntriesOK(g) /\ i - 1 <= Len(g)
      BY <1>0, <1>2, <2>1
    <3> QED BY <2>1, <2>3, <3>1, StacksEmpty
  <2>5. i - 1 \in 0 .. i - 1
    BY <2>1
  <2>6. S[i] = Append(<< >>, Tail(h[i])) /\ Tail(h[i]) \in Strings
    <3>1. i \in 1 .. Len(h) /\ Gives(h[i], n)
      BY <1>0
    <3>2. S[i] = Append(S[i - 1], Tail(h[i])) /\ Tail(h[i]) \in Strings
      BY <3>1, StackStep
    <3> QED BY <2>2, <2>5, <3>2
  <2>7. R[i] = Append(<< >>, Tail(e))
    <3>1. EntriesOK(g) /\ i \in 1 .. Len(g) /\ Gives(g[i], n) 
      BY <1>0, <1>2
    <3>2. R[i] = Append(R[i - 1], Tail(g[i]))
      BY <3>1, StackStep
    <3> QED BY <2>4, <2>5, <3>1, <3>2
  <2> HIDE DEF S, R
  <2>8. S[i] = << Tail(h[i]) >> /\ R[i] = << Tail(e) >>
    BY <2>6, <2>7
  <2>9. Tail(S[i]) = << >> /\ S[i] # << >>
    BY <2>8
  <2>10. << Tail(e) >> \o << >> = << Tail(e) >>
    <3>1. << Tail(e) >> \in Seq(Strings)
      BY <1>0, <1>3
    <3> QED BY <3>1, ConcatEmptySeq
  <2> QED BY <2>8, <2>9, <2>10
<1>5. ASSUME NEW k \in 1 .. Len(h), k > i, P(k - 1) PROVE P(k)
  <2>1. g[k] = h[k] /\ k \in 1 .. Len(g)
    BY <1>0, <1>1, <1>2, <1>5
  <2>2. CASE Gives(h[k], n)
    <3>1. /\ S[k - 1] \in Seq(Strings) /\ Tail(h[k]) \in Strings
          /\ S[k] = Append(S[k - 1], Tail(h[k]))
      BY <2>2, StackStep
    <3>2. R[k] = Append(R[k - 1], Tail(h[k]))
      <4>1. EntriesOK(g) /\ Gives(g[k], n)
        BY <1>0, <1>2, <2>1, <2>2
      <4>2. R[k] = Append(R[k - 1], Tail(g[k]))
        BY <2>1, <4>1, StackStep
      <4> QED BY <2>1, <4>2
    <3> HIDE DEF S, R
    <3>3. Append(<< Tail(e) >> \o Tail(S[k - 1]), Tail(h[k]))
          = << Tail(e) >> \o Tail(Append(S[k - 1], Tail(h[k])))
      BY <1>0, <1>3, <1>5, <3>1, NewFirst
    <3>4. Append(S[k - 1], Tail(h[k])) # << >>
      BY <3>1, AppendProperties
    <3> QED BY <1>0, <1>5, <3>1, <3>2, <3>3, <3>4
  <2>3. CASE ~Gives(h[k], n)
    <3>1. S[k] = S[k - 1]
      BY <2>3, StackStep
    <3>2. R[k] = R[k - 1]
      <4>1. EntriesOK(g) /\ k \in 1 .. Len(g) /\ ~Gives(g[k], n)
        BY <1>0, <1>2, <2>1, <2>3
      <4>2. ~Gives(g[k], n) => Stacks(g, n)[k] = Stacks(g, n)[k - 1]
        BY <4>1, StackStep
      <4> QED BY <4>1, <4>2
    <3> HIDE DEF S, R
    <3> QED BY <1>0, <1>5, <3>1, <3>2
  <2> QED BY <2>2, <2>3
<1> HIDE DEF P
<1>6. 0 .. Len(h) \subseteq T
  <2>1. 0 \in T
    BY <1>0, <1>1
  <2>2. ASSUME NEW k \in 1 .. Len(h), k - 1 \in T PROVE k \in T
    <3>1. CASE k < i
      BY <1>0, <1>1, <3>1
    <3>2. CASE k = i
      BY <1>0, <1>1, <1>4, <3>2
    <3>3. CASE k > i
      <4>1. P(k - 1)
        BY <1>0, <1>1, <2>2, <3>3
      <4> QED BY <1>0, <1>1, <1>5, <3>3, <4>1
    <3> QED BY <1>0, <1>1, <3>1, <3>2, <3>3
  <2> HIDE DEF T
  <2> QED BY <1>0, <1>1, <2>1, <2>2, Upto
<1>7. ASSUME NEW k \in i .. Len(h) PROVE P(k)
  <2>1. k \in 0 .. Len(h) /\ k >= i
    BY <1>0, <1>1
  <2> QED BY <1>0, <1>6, <2>1
<1> QED BY <1>0, <1>7 DEF P, NewOnTop

\* A sequence without its p-th element.
Cut(s, p) == SubSeq(s, 1, p - 1) \o SubSeq(s, p + 1, Len(s))

LEMMA CutProperties ==
    ASSUME NEW T, NEW s \in Seq(T), NEW p \in 1 .. Len(s)
    PROVE  /\ Cut(s, p) \in Seq(T) /\ Len(Cut(s, p)) = Len(s) - 1
           /\ \A i \in 1 .. Len(s) - 1 : Cut(s, p)[i] = IF i < p THEN s[i] ELSE s[i + 1]
<1> DEFINE a == SubSeq(s, 1, p - 1)
           b == SubSeq(s, p + 1, Len(s))
<1>1. Len(s) \in Nat /\ \A i \in 1 .. Len(s) : s[i] \in T
  BY LenProperties, ElementOfSeq
<1>2. /\ a \in Seq(T) /\ Len(a) = p - 1
      /\ \A i \in 1 .. p - 1 : a[i] = s[i]
  <2>1. 1 \in Int /\ p - 1 \in Int /\ \A i \in 1 .. p - 1 : s[i] \in T
    BY <1>1
  <2>2. /\ a \in Seq(T) /\ Len(a) = IF 1 <= p - 1 THEN p - 1 - 1 + 1 ELSE 0
        /\ \A i \in 1 .. p - 1 - 1 + 1 : a[i] = s[1 + i - 1]
    BY <2>1, SubSeqProperties
  <2>3. \A i \in 1 .. p - 1 : i \in 1 .. p - 1 - 1 + 1 /\ 1 + i - 1 = i
    BY <1>1
  <2> HIDE DEF a
  <2> QED BY <1>1, <2>2, <2>3
<1>3. /\ b \in Seq(T) /\ Len(b) = Len(s) - p
      /\ \A i \in 1 .. Len(s) - p : b[i] = s[p + i]
  <2>1. p + 1 \in Int /\ Len(s) \in Int /\ \A i \in p + 1 .. Len(s) : s[i] \in T
    BY <1>1
  <2>2. /\ b \in Seq(T) /\ Len(b) = IF p + 1 <= Len(s) THEN Len(s) - (p + 1) + 1 ELSE 0
        /\ \A i \in 1 .. Len(s) - (p + 1) + 1 : b[i] = s[p + 1 + i - 1]
    BY <2>1, SubSeqProperties
  <2>3. \A i \in 1 .. Len(s) - p : i \in 1 .. Len(s) - (p + 1) + 1 /\ p + 1 + i - 1 = p + i
    BY <1>1
  <2> HIDE DEF b
  <2> QED BY <1>1, <2>2, <2>3
<1> HIDE DEF a, b
<1>4. /\ a \o b \in Seq(T) /\ Len(a \o b) = Len(a) + Len(b)
      /\ \A i \in 1 .. Len(a) + Len(b) : (a \o b)[i] = IF i <= Len(a) THEN a[i] ELSE b[i - Len(a)]
  BY <1>2, <1>3, ConcatProperties
<1>5. Len(a) + Len(b) = Len(s) - 1
  BY <1>1, <1>2, <1>3
<1>6. ASSUME NEW i \in 1 .. Len(s) - 1 PROVE (a \o b)[i] = IF i < p THEN s[i] ELSE s[i + 1]
  <2>1. CASE i < p
    <3>1. i \in 1 .. p - 1 /\ i <= Len(a)
      BY <1>1, <1>2, <2>1
    <3> QED BY <1>2, <1>4, <1>5, <2>1, <3>1
  <2>2. CASE ~(i < p)
    <3>1. i - (p - 1) \in 1 .. Len(s) - p /\ ~(i <= Len(a)) /\ i - Len(a) = i - (p - 1)
          /\ p + (i - (p - 1)) = i + 1
      BY <1>1, <1>2, <2>2
    <3>2. (a \o b)[i] = b[i - (p - 1)]
      BY <1>4, <1>5, <3>1
    <3> QED BY <1>3, <2>2, <3>1, <3>2
  <2> QED BY <2>1, <2>2
<1>7. Cut(s, p) = a \o b
  BY DEF Cut, a, b
<1> QED BY <1>4, <1>5, <1>6, <1>7

LEMMA CutAppend ==
    ASSUME NEW T, NEW s \in Seq(T), NEW x \in T
    PROVE  /\ Cut(Append(s, x), Len(s) + 1) = s
           /\ \A p \in 1 .. Len(s) : Cut(Append(s, x), p) = Append(Cut(s, p), x)
<1> DEFINE t == Append(s, x)
<1>1. /\ t \in Seq(T) /\ Len(t) = Len(s) + 1 /\ Len(s) \in Nat
      /\ \A i \in 1 .. Len(s) : t[i] = s[i]
      /\ t[Len(s) + 1] = x
  BY AppendProperties, LenProperties
<1> HIDE DEF t
<1>2. Cut(t, Len(s) + 1) = s
  <2>1. Len(s) + 1 \in 1 .. Len(t)
    BY <1>1
  <2>2. /\ Cut(t, Len(s) + 1) \in Seq(T) /\ Len(Cut(t, Len(s) + 1)) = Len(t) - 1
        /\ \A i \in 1 .. Len(t) - 1 :
             Cut(t, Len(s) + 1)[i] = IF i < Len(s) + 1 THEN t[i] ELSE t[i + 1]
    BY <1>1, <2>1, CutProperties
  <2>3. \A i \in 1 .. Len(s) : Cut(t, Len(s) + 1)[i] = s[i]
    BY <1>1, <2>2
  <2>4. Len(Cut(t, Len(s) + 1)) = Len(s)
    BY <1>1, <2>2
  <2> QED BY <2>2, <2>3, <2>4, SeqEqual
<1>3. ASSUME NEW p \in 1 .. Len(s) PROVE Cut(t, p) = Append(Cut(s, p), x)
  <2> DEFINE c == Cut(s, p)
             d == Cut(t, p)
             r == Append(c, x)
  <2>1. /\ c \in Seq(T) /\ Len(c) = Len(s) - 1
        /\ \A i \in 1 .. Len(s) - 1 : c[i] = IF i < p THEN s[i] ELSE s[i + 1]
    BY CutProperties
  <2>2. /\ d \in Seq(T) /\ Len(d) = Len(s)
        /\ \A i \in 1 .. Len(s) : d[i] = IF i < p THEN t[i] ELSE t[i + 1]
    <3>1. p \in 1 .. Len(t)
      BY <1>1
    <3>2. /\ d \in Seq(T) /\ Len(d) = Len(t) - 1
          /\ \A i \in 1 .. Len(t) - 1 : d[i] = IF i < p THEN t[i] ELSE t[i + 1]
      BY <1>1, <3>1, CutProperties
    <3>3. Len(t) - 1 = Len(s)
      BY <1>1
    <3> QED BY <3>2, <3>3
  <2> HIDE DEF c, d
  <2>3. /\ r \in Seq(T) /\ Len(r) = Len(c) + 1
        /\ \A i \in 1 .. Len(c) : r[i] = c[i]
        /\ r[Len(c) + 1] = x
    BY <2>1, AppendProperties
  <2> HIDE DEF r
  <2>4. Len(d) = Len(r)
    BY <1>1, <2>1, <2>2, <2>3
  <2>5. ASSUME NEW i \in 1 .. Len(s) PROVE d[i] = r[i]
    <3>1. CASE i = Len(s)
      <4>1. ~(i < p) /\ Len(c) + 1 = i
        BY <1>1, <2>1, <3>1
      <4> QED BY <1>1, <2>2, <2>3, <3>1, <4>1
    <3>2. CASE i # Len(s)
      <4>1. i \in 1 .. Len(s) - 1 /\ i \in 1 .. Len(c) /\ i + 1 \in 1 .. Len(s)
        BY <1>1, <2>1, <3>2
      <4>2. r[i] = c[i] /\ t[i] = s[i] /\ t[i + 1] = s[i + 1]
        BY <1>1, <2>3, <4>1
      <4>3. d[i] = IF i < p THEN s[i] ELSE s[i + 1]
        BY <2>2, <4>2
      <4> QED BY <2>1, <4>1, <4>2, <4>3
    <3> QED BY <3>1, <3>2
  <2>6. d = r
    BY <2>2, <2>3, <2>4, <2>5, SeqEqual
  <2> QED BY <2>6 DEF c, d, r
<1> QED BY <1>2, <1>3 DEF t

\* Where an entry goes, its value goes from the stack of its name.
RemovedIn(h, g, i) ==
    /\ i \in 1 .. Len(h) /\ Len(g) = Len(h) - 1
    /\ \A j \in 1 .. Len(h) - 1 : g[j] = IF j < i THEN h[j] ELSE h[j + 1]

LostFrom(h, g, n, i) ==
    \A k \in i .. Len(h) :
        /\ Gives(h[i], n) =>
             /\ Len(Stacks(h, n)[i]) \in 1 .. Len(Stacks(h, n)[k])
             /\ Stacks(g, n)[k - 1] = Cut(Stacks(h, n)[k], Len(Stacks(h, n)[i]))
        /\ ~Gives(h[i], n) => Stacks(g, n)[k - 1] = Stacks(h, n)[k]

LEMMA StacksRemoved ==
    ASSUME NEW h, EntriesOK(h), NEW g, EntriesOK(g), NEW n, NEW i, RemovedIn(h, g, i)
    PROVE  LostFrom(h, g, n, i)
<1> DEFINE S == Stacks(h, n)
           R == Stacks(g, n)
           p == Len(S[i])
           P(k) == /\ Gives(h[i], n) => p \in 1 .. Len(S[k]) /\ R[k - 1] = Cut(S[k], p)
                   /\ ~Gives(h[i], n) => R[k - 1] = S[k]
           T == { k \in 0 .. Len(h) : k >= i => P(k) }
<1>1. /\ i \in 1 .. Len(h) /\ Len(g) = Len(h) - 1
      /\ \A j \in 1 .. Len(h) - 1 : g[j] = IF j < i THEN h[j] ELSE h[j + 1]
      /\ Len(h) \in Nat /\ i - 1 \in Nat /\ i - 1 <= Len(h) /\ i - 1 <= Len(g)
      /\ Len(g) \in Nat
  BY LenProperties DEF EntriesOK, RemovedIn
<1>2. P(i)
  <2>1. \A j \in 1 .. i - 1 : j \in 1 .. Len(h) - 1 /\ j < i
    BY <1>1
  <2>2. \A j \in 1 .. i - 1 : h[j] = g[j]
    BY <1>1, <2>1
  <2>3. \A k \in 0 .. i - 1 : S[k] = R[k]
    BY <1>1, <2>2, StacksAgree
  <2>4. S[i - 1] = R[i - 1]
    BY <1>1, <2>3
  <2>5. CASE Gives(h[i], n)
    <3>1. /\ S[i - 1] \in Seq(Strings) /\ Tail(h[i]) \in Strings
          /\ S[i] = Append(S[i - 1], Tail(h[i]))
      BY <1>1, <2>5, StackStep
    <3> HIDE DEF S, R
    <3>2. Len(S[i]) = Len(S[i - 1]) + 1 /\ Len(S[i - 1]) \in Nat
      BY <1>1, <3>1, AppendProperties, LenProperties
    <3>3. Cut(S[i], Len(S[i - 1]) + 1) = S[i - 1]
      BY <1>1, <3>1, CutAppend
    <3> QED BY <1>1, <2>4, <2>5, <3>2, <3>3
  <2>6. CASE ~Gives(h[i], n)
    <3>1. S[i] = S[i - 1]
      BY <1>1, <2>6, StackStep
    <3> HIDE DEF S, R
    <3> QED BY <1>1, <2>4, <2>6, <3>1
  <2> QED BY <1>1, <2>5, <2>6
<1>3. ASSUME NEW k \in 1 .. Len(h), k > i, P(k - 1) PROVE P(k)
  <2>1. k - 1 \in 1 .. Len(g) /\ k - 1 \in 1 .. Len(h) - 1 /\ ~(k - 1 < i) /\ k - 1 + 1 = k
        /\ k - 1 - 1 = k - 2
    BY <1>1, <1>3
  <2>2. g[k - 1] = h[k]
    BY <1>1, <2>1
  <2>3. CASE Gives(h[k], n)
    <3>1. /\ S[k - 1] \in Seq(Strings) /\ Tail(h[k]) \in Strings
          /\ S[k] = Append(S[k - 1], Tail(h[k]))
      BY <1>1, <2>3, StackStep
    <3>2. R[k - 1] = Append(R[k - 1 - 1], Tail(g[k - 1]))
      <4>1. Gives(g[k - 1], n)
        BY <1>1, <2>2, <2>3
      <4> QED BY <1>1, <2>1, <4>1, StackStep
    <3> HIDE DEF S, R
    <3>3. R[k - 1] = Append(R[k - 1 - 1], Tail(h[k]))
      BY <1>1, <2>2, <3>2
    <3>4. CASE Gives(h[i], n)
      <4>1. p \in 1 .. Len(S[k - 1]) /\ R[k - 1 - 1] = Cut(S[k - 1], p)
        BY <1>1, <1>3, <3>4
      <4> HIDE DEF p
      <4>2. Cut(S[k], p) = Append(Cut(S[k - 1], p), Tail(h[k]))
        BY <1>1, <3>1, <4>1, CutAppend
      <4>3. Len(S[k]) = Len(S[k - 1]) + 1 /\ Len(S[k - 1]) \in Nat
        BY <1>1, <3>1, AppendProperties, LenProperties
      <4>4. p \in 1 .. Len(S[k])
        BY <1>1, <4>1, <4>3
      <4> QED BY <1>1, <3>3, <3>4, <4>1, <4>2, <4>4
    <3>5. CASE ~Gives(h[i], n)
      BY <1>1, <1>3, <3>1, <3>3, <3>5
    <3> QED BY <1>1, <3>4, <3>5
  <2>4. CASE ~Gives(h[k], n)
    <3>1. S[k] = S[k - 1]
      BY <1>1, <2>4, StackStep
    <3>2. R[k - 1] = R[k - 1 - 1]
      <4>1. ~Gives(g[k - 1], n)
        BY <1>1, <2>2, <2>4
      <4> QED BY <1>1, <2>1, <4>1, StackStep
    <3> HIDE DEF S, R
    <3> QED BY <1>1, <1>3, <3>1, <3>2
  <2> QED BY <1>1, <2>3, <2>4
<1> HIDE DEF P
<1>4. 0 .. Len(h) \subseteq T
  <2>1. 0 \in T
    BY <1>1
  <2>2. ASSUME NEW k \in 1 .. Len(h), k - 1 \in T PROVE k \in T
    <3>1. CASE k < i
      BY <1>1, <3>1
    <3>2. CASE k = i
      BY <1>1, <1>2, <3>2
    <3>3. CASE k > i
      <4>1. P(k - 1)
        BY <1>1, <2>2, <3>3
      <4> QED BY <1>1, <1>3, <3>3, <4>1
    <3> QED BY <1>1, <3>1, <3>2, <3>3
  <2> HIDE DEF T
  <2> QED BY <1>1, <2>1, <2>2, Upto
<1>5. ASSUME NEW k \in i .. Len(h) PROVE P(k)
  <2>1. k \in 0 .. Len(h) /\ k >= i
    BY <1>1
  <2> QED BY <1>1, <1>4, <2>1
<1> QED BY <1>1, <1>5 DEF P, LostFrom

\* The stack up to an entry is the beginning of every later one.
LEMMA StacksBegin ==
    ASSUME NEW h, EntriesOK(h), NEW n, NEW i \in 0 .. Len(h)
    PROVE  \A k \in i .. Len(h) :
              /\ Len(Stacks(h, n)[i]) <= Len(Stacks(h, n)[k])
              /\ \A q \in 1 .. Len(Stacks(h, n)[i]) : Stacks(h, n)[k][q] = Stacks(h, n)[i][q]
<1> DEFINE S == Stacks(h, n)
           P(k) == /\ Len(S[i]) <= Len(S[k])
                   /\ \A q \in 1 .. Len(S[i]) : S[k][q] = S[i][q]
           T == { k \in 0 .. Len(h) : k >= i => P(k) }
<1>1. Len(h) \in Nat
  BY LenProperties DEF EntriesOK
<1>2. \A k \in 0 .. Len(h) : Len(S[k]) \in Nat
  BY StacksDef, LenProperties
<1>3. P(i)
  BY <1>2
<1>4. ASSUME NEW k \in 1 .. Len(h), k > i, P(k - 1) PROVE P(k)
  <2>1. CASE Gives(h[k], n)
    <3>1. /\ S[k - 1] \in Seq(Strings) /\ Tail(h[k]) \in Strings
          /\ S[k] = Append(S[k - 1], Tail(h[k]))
      BY <2>1, StackStep
    <3> HIDE DEF S
    <3>2. /\ Len(S[k]) = Len(S[k - 1]) + 1 /\ Len(S[k - 1]) \in Nat
          /\ \A q \in 1 .. Len(S[k - 1]) : S[k][q] = S[k - 1][q]
      BY <3>1, AppendProperties, LenProperties
    <3>3. \A q \in 1 .. Len(S[i]) : q \in 1 .. Len(S[k - 1])
      BY <1>2, <1>4, <3>2
    <3> QED BY <1>2, <1>4, <3>2, <3>3
  <2>2. CASE ~Gives(h[k], n)
    <3>1. S[k] = S[k - 1]
      BY <2>2, StackStep
    <3> HIDE DEF S
    <3> QED BY <1>4, <3>1
  <2> QED BY <2>1, <2>2
<1> HIDE DEF P
<1>5. 0 .. Len(h) \subseteq T
  <2>1. 0 \in T
    <3>1. CASE i = 0
      BY <1>1, <1>3, <3>1
    <3>2. CASE i > 0
      BY <1>1, <3>2
    <3> QED BY <3>1, <3>2
  <2>2. ASSUME NEW k \in 1 .. Len(h), k - 1 \in T PROVE k \in T
    <3>1. CASE k < i
      BY <1>1, <3>1
    <3>2. CASE k = i
      BY <1>1, <1>3, <3>2
    <3>3. CASE k > i
      <4>1. P(k - 1)
        BY <1>1, <2>2, <3>3
      <4> QED BY <1>1, <1>4, <3>3, <4>1
    <3> QED BY <1>1, <3>1, <3>2, <3>3
  <2> HIDE DEF T
  <2> QED BY <1>1, <2>1, <2>2, Upto
<1>6. ASSUME NEW k \in i .. Len(h) PROVE P(k)
  <2>1. k \in 0 .. Len(h) /\ k >= i
    BY <1>1
  <2> QED BY <1>5, <2>1
<1> QED BY <1>6 DEF P

\* The entry a place of the stack is from, and the place of an entry.
LEMMA StackPlaces ==
    ASSUME NEW h, EntriesOK(h), NEW n
    PROVE  /\ \A k \in 0 .. Len(h) : \A q \in 1 .. Len(Stacks(h, n)[k]) :
                \E i \in 1 .. k : Gives(h[i], n) /\ Len(Stacks(h, n)[i]) = q
           /\ \A i \in 1 .. Len(h) : Gives(h[i], n) =>
                /\ Len(Stacks(h, n)[i]) \in 1 .. Len(Stacks(h, n)[Len(h)])
                /\ Stacks(h, n)[Len(h)][Len(Stacks(h, n)[i])] = Tail(h[i])
                /\ \A j \in 1 .. i - 1 : Len(Stacks(h, n)[j]) < Len(Stacks(h, n)[i])
<1> DEFINE S == Stacks(h, n)
           P(k) == \A q \in 1 .. Len(S[k]) : \E i \in 1 .. k : Gives(h[i], n) /\ Len(S[i]) = q
           T == { k \in 0 .. Len(h) : P(k) }
<1>1. Len(h) \in Nat
  BY LenProperties DEF EntriesOK
<1>2. \A k \in 0 .. Len(h) : S[k] \in Seq(Strings) /\ Len(S[k]) \in Nat
  BY StacksDef, LenProperties
<1>3. P(0)
  <2>1. S[0] = << >>
    BY StacksDef
  <2>2. Len(S[0]) = 0
    <3> HIDE DEF S
    <3> QED BY <2>1, EmptySeq
  <2> HIDE DEF S
  <2> QED BY <2>2
<1>4. ASSUME NEW k \in 1 .. Len(h), P(k - 1) PROVE P(k)
  <2>1. CASE Gives(h[k], n)
    <3>1. /\ S[k - 1] \in Seq(Strings) /\ Tail(h[k]) \in Strings
          /\ S[k] = Append(S[k - 1], Tail(h[k]))
      BY <2>1, StackStep
    <3> HIDE DEF S
    <3>2. Len(S[k]) = Len(S[k - 1]) + 1 /\ Len(S[k - 1]) \in Nat
      BY <3>1, AppendProperties, LenProperties
    <3> SUFFICES ASSUME NEW q \in 1 .. Len(S[k])
                 PROVE  \E i \in 1 .. k : Gives(h[i], n) /\ Len(S[i]) = q
      OBVIOUS
    <3>3. CASE q = Len(S[k])
      <4>1. k \in 1 .. k
        BY <1>1
      <4> QED BY <2>1, <3>3, <4>1
    <3>4. CASE q \in 1 .. Len(S[k - 1])
      <4>1. PICK i \in 1 .. k - 1 : Gives(h[i], n) /\ Len(S[i]) = q
        BY <1>4, <3>4
      <4>2. i \in 1 .. k
        BY <1>1
      <4> QED BY <4>1, <4>2
    <3> QED BY <3>2, <3>3, <3>4
  <2>2. CASE ~Gives(h[k], n)
    <3>1. S[k] = S[k - 1]
      BY <2>2, StackStep
    <3> HIDE DEF S
    <3>2. \A i \in 1 .. k - 1 : i \in 1 .. k
      BY <1>1
    <3> QED BY <1>4, <3>1, <3>2
  <2> QED BY <2>1, <2>2
<1>5. 0 .. Len(h) \subseteq T
  <2> HIDE DEF P
  <2>1. 0 \in T
    BY <1>1, <1>3
  <2>2. ASSUME NEW k \in 1 .. Len(h), k - 1 \in T PROVE k \in T
    BY <1>1, <1>4, <2>2
  <2> HIDE DEF T
  <2> QED BY <1>1, <2>1, <2>2, Upto
<1>6. ASSUME NEW i \in 1 .. Len(h), Gives(h[i], n)
      PROVE  /\ Len(S[i]) \in 1 .. Len(S[Len(h)])
             /\ S[Len(h)][Len(S[i])] = Tail(h[i])
             /\ \A j \in 1 .. i - 1 : Len(S[j]) < Len(S[i])
  <2>1. /\ S[i - 1] \in Seq(Strings) /\ Tail(h[i]) \in Strings
        /\ S[i] = Append(S[i - 1], Tail(h[i]))
    BY <1>6, StackStep
  <2>2. i \in 0 .. Len(h) /\ Len(h) \in i .. Len(h)
    BY <1>1
  <2>3. /\ Len(S[i]) <= Len(S[Len(h)])
        /\ \A q \in 1 .. Len(S[i]) : S[Len(h)][q] = S[i][q]
    BY <2>2, StacksBegin
  <2>4. ASSUME NEW j \in 1 .. i - 1 PROVE Len(S[j]) <= Len(S[i - 1])
    <3>1. j \in 0 .. Len(h) /\ i - 1 \in j .. Len(h)
      BY <1>1
    <3> QED BY <3>1, StacksBegin
  <2>5. \A j \in 1 .. i - 1 : Len(S[j]) \in Nat
    <3>1. \A j \in 1 .. i - 1 : j \in 0 .. Len(h)
      BY <1>1
    <3> QED BY <1>2, <3>1
  <2> HIDE DEF S
  <2>6. /\ Len(S[i]) = Len(S[i - 1]) + 1 /\ Len(S[i - 1]) \in Nat
        /\ S[i][Len(S[i - 1]) + 1] = Tail(h[i])
    BY <2>1, AppendProperties, LenProperties
  <2>7. Len(S[i]) \in 1 .. Len(S[i])
    BY <2>6
  <2>8. Len(S[Len(h)]) \in Nat
    BY <1>1, <1>2
  <2> QED BY <2>3, <2>4, <2>5, <2>6, <2>7, <2>8
<1> QED BY <1>5, <1>6 DEF S

-----------------------------------------------------------------------------
(* Each request does to the stacks what EnvMap says.                        *)

TopStack(h, n) == Stacks(h, n)[Len(h)]

LEMMA TopStackType ==
    ASSUME NEW h, EntriesOK(h), NEW n
    PROVE  TopStack(h, n) \in Seq(Strings)
<1>1. Len(h) \in Nat
  BY LenProperties DEF EntriesOK
<1>2. Len(h) \in 0 .. Len(h)
  BY <1>1
<1> QED BY <1>2, StacksDef DEF TopStack

LEMMA GivenNames ==
    ASSUME NEW h, EntriesOK(h), NEW n
    PROVE  (\E i \in 1 .. Len(h) : Gives(h[i], n)) <=> TopStack(h, n) # << >>
<1>1. Len(h) \in Nat
  BY LenProperties DEF EntriesOK
<1>2. ASSUME NEW i \in 1 .. Len(h), Gives(h[i], n) PROVE TopStack(h, n) # << >>
  <2>1. Len(Stacks(h, n)[i]) \in 1 .. Len(TopStack(h, n))
    BY <1>2, StackPlaces DEF TopStack
  <2>2. Len(TopStack(h, n)) # 0
    BY <2>1
  <2> QED BY <2>2, EmptySeq
<1>3. ASSUME \A i \in 1 .. Len(h) : ~Gives(h[i], n) PROVE TopStack(h, n) = << >>
  <2>1. Len(h) <= Len(h) /\ Len(h) \in 0 .. Len(h)
    BY <1>1
  <2> QED BY <1>1, <1>3, <2>1, StacksEmpty DEF TopStack
<1> QED BY <1>2, <1>3

LEMMA NamesAre ==
    ASSUME EntriesOK(heap_env)
    PROVE  /\ \A n : n \in Names <=> TopStack(heap_env, n) # << >>
           /\ DOMAIN EnvOf = Names
           /\ \A n \in Names : EnvOf[n] = TopStack(heap_env, n)
<1>1. DOMAIN heap_env = 1 .. Len(heap_env)
  BY LenProperties DEF EntriesOK
<1>2. \A n : n \in Names <=> \E i \in 1 .. Len(heap_env) : Gives(heap_env[i], n)
  BY <1>1 DEF Names, Gives
<1> QED BY <1>2, GivenNames DEF EnvOf, TopStack

LEMMA NamesWillBe ==
    ASSUME EntriesOK(heap_env')
    PROVE  /\ \A n : n \in Names' <=> TopStack(heap_env', n) # << >>
           /\ EnvOf' = [n \in Names' |-> TopStack(heap_env', n)]
<1>1. DOMAIN heap_env' = 1 .. Len(heap_env')
  BY LenProperties DEF EntriesOK
<1>2. \A n : n \in Names' <=> \E i \in 1 .. Len(heap_env') : Gives(heap_env'[i], n)
  BY <1>1 DEF Names, Gives
<1> QED BY <1>2, GivenNames DEF EnvOf, TopStack

LEMMA StackIs ==
    ASSUME EntriesOK(heap_env), NEW n
    PROVE  Map!Stack(n) = TopStack(heap_env, n)
BY NamesAre DEF Map!Stack

\* One stack changes and no other.
LEMMA Puts ==
    ASSUME EntriesOK(heap_env), EntriesOK(heap_env'), NEW n, NEW stack,
           TopStack(heap_env', n) = stack,
           \A m : m # n => TopStack(heap_env', m) = TopStack(heap_env, m)
    PROVE  Map!Put(n, stack)
<1> DEFINE names == IF stack = << >> THEN DOMAIN EnvOf \ { n } ELSE DOMAIN EnvOf \cup { n }
<1>1. Names' = names
  <2>1. ASSUME NEW m PROVE m \in Names' <=> m \in names
    <3>1. CASE m = n
      BY <3>1, NamesWillBe
    <3>2. CASE m # n
      BY <3>2, NamesAre, NamesWillBe
    <3> QED BY <3>1, <3>2
  <2> QED BY <2>1
<1>2. ASSUME NEW m \in names
      PROVE  TopStack(heap_env', m) = IF m = n THEN stack ELSE EnvOf[m]
  <2>1. CASE m = n
    BY <2>1
  <2>2. CASE m # n
    <3>1. m \in Names
      BY <2>2, NamesAre
    <3> QED BY <2>2, <3>1, NamesAre
  <2> QED BY <2>1, <2>2
<1> HIDE DEF names
<1>3. EnvOf' = [m \in names |-> IF m = n THEN stack ELSE EnvOf[m]]
  BY <1>1, <1>2, NamesWillBe
<1> QED BY <1>3 DEF Map!Put, names

LEMMA SetAssigns ==
    ASSUME EnvInv, alive, pending # << >>, NEW key, IsKey(key), Len(key) = 1,
           NEW value \in Values, Set(key, value)
    PROVE  \/ Crash
           \/ Map!Assign(key[1], value) /\ Handled(code)
<1> DEFINE n == key[1]
           h == heap_env
           e == key \o value
           s == TopStack(h, n)
<1>1. /\ IsEntry(e) /\ e \in Seq(Parts) /\ Len(e) > 1 /\ e[1] = n /\ Tail(e) = value
      /\ key \in Seq(Parts)
  BY EntryType DEF IsKey
<1>2. /\ EntriesOK(h) /\ h \in Seq(Seq(Parts)) /\ Len(h) \in Nat /\ DOMAIN h = 1 .. Len(h)
  BY LenProperties DEF EnvInv, TypeOK, EntriesOK
<1>3. PICK g : g = heap_env' /\ EntriesOK(g)
  <2>1. EntriesOK(heap_env')
    BY SetKeepsInv DEF EnvInv, TypeOK
  <2> QED BY <2>1
<1>4. \A i \in 1 .. Len(h) : Match(h[i], key) <=> Gives(h[i], n)
  BY <1>1, <1>2, ElementOfSeq, MatchesName DEF Gives, NameOf
<1>5. Gives(e, n) /\ \A m : m # n => ~Gives(e, m)
  BY <1>1 DEF Gives, NameOf
<1>6. value \in Strings /\ Map!Stack(n) = s /\ s \in Seq(Strings)
  BY <1>2, StackIs, TopStackType, EnvironmentAssumption DEF IsKey, Strings
<1> HIDE DEF e, h
<1>7. ASSUME Replace(key, value) PROVE Map!Assign(n, value)
  <2>1. PICK i \in DOMAIN h : FirstAt(key, i) /\ heap_env' = [h EXCEPT ![i] = e]
    BY <1>7 DEF Replace, e, h
  <2>2. i \in 1 .. Len(h) /\ Gives(h[i], n) /\ \A j \in 1 .. i - 1 : ~Gives(h[j], n)
    <3>1. i \in 1 .. Len(h) /\ \A j \in 1 .. i - 1 : j \in 1 .. Len(h)
      BY <1>2
    <3> QED BY <1>4, <2>1, <3>1 DEF FirstAt, h
  <2>3. /\ Len(heap_env') = Len(h) /\ heap_env'[i] = e
        /\ \A j \in 1 .. Len(h) : j # i => heap_env'[j] = h[j]
    <3>1. heap_env' = [h EXCEPT ![i] = e] /\ e \in Seq(Parts)
      BY <1>1, <2>1
    <3> QED BY <1>2, <2>2, <3>1, ExceptSeq
  <2>4. s # << >> /\ TopStack(heap_env', n) = << value >> \o Tail(s)
    <3>1. Len(h) \in i .. Len(h)
      BY <1>2, <2>2
    <3>2. EntriesOK(g) /\ Len(g) = Len(h) /\ g[i] = e /\ \A j \in 1 .. Len(h) : j # i => g[j] = h[j]
      BY <1>3, <2>3
    <3>3. Stacks(h, n)[Len(h)] # << >>
          /\ Stacks(g, n)[Len(h)] = << Tail(e) >> \o Tail(Stacks(h, n)[Len(h)])
      <4>1. ReplacedIn(h, g, n, i)
        BY <1>5, <2>2, <3>2 DEF ReplacedIn
      <4>2. PICK h0, n0 : h0 = h /\ n0 = n
        OBVIOUS
      <4>3. EntriesOK(h0) /\ EntriesOK(g) /\ ReplacedIn(h0, g, n0, i)
        BY <1>2, <3>2, <4>1, <4>2
      <4> HIDE DEF n
      <4>4. NewOnTop(h0, g, n0, i)
        BY <4>3, StacksReplaced
      <4> QED BY <3>1, <3>2, <4>2, <4>4 DEF NewOnTop
    <3> QED BY <1>1, <1>3, <3>2, <3>3 DEF TopStack
  <2>5. ASSUME NEW m, m # n PROVE TopStack(heap_env', m) = TopStack(h, m)
    <3>1. ~Gives(h[i], m)
      BY <2>2, <2>5 DEF Gives
    <3>2. \A j \in 1 .. Len(h) :
            h[j] = heap_env'[j] \/ (~Gives(h[j], m) /\ ~Gives(heap_env'[j], m))
      BY <1>5, <2>3, <2>5, <3>1
    <3>3. Len(h) <= Len(h) /\ Len(h) <= Len(heap_env') /\ Len(h) \in 0 .. Len(h)
      BY <1>2, <2>3
    <3>4. /\ EntriesOK(g) /\ Len(h) <= Len(g)
          /\ \A j \in 1 .. Len(h) : h[j] = g[j] \/ (~Gives(h[j], m) /\ ~Gives(g[j], m))
      BY <1>3, <3>2, <3>3
    <3>5. \A k \in 0 .. Len(h) : Stacks(h, m)[k] = Stacks(g, m)[k]
      BY <1>2, <3>3, <3>4, StacksAgree
    <3> QED BY <1>3, <2>3, <3>3, <3>5 DEF TopStack
  <2>6. Map!Put(n, << value >> \o Tail(s))
    BY <1>2, <1>3, <2>4, <2>5, Puts DEF h
  <2> QED BY <1>6, <2>4, <2>6 DEF Map!Assign
<1>8. ASSUME AppendEntry(key, value) PROVE Map!Assign(n, value)
  <2>1. \A i \in 1 .. Len(h) : ~Gives(h[i], n)
    BY <1>2, <1>4, <1>8 DEF AppendEntry, Absent, h
  <2>2. s = << >>
    BY <1>2, <2>1, GivenNames
  <2>3. /\ Len(heap_env') = Len(h) + 1 /\ heap_env'[Len(h) + 1] = e
        /\ \A j \in 1 .. Len(h) : heap_env'[j] = h[j]
    <3>1. heap_env' = Append(h, e)
      BY <1>8 DEF AppendEntry, e, h
    <3> QED BY <1>1, <1>2, <3>1, AppendOK
  <2>4. ASSUME NEW m
        PROVE  TopStack(heap_env', m) = IF m = n THEN << value >> ELSE TopStack(h, m)
    <3>1. \A k \in 0 .. Len(h) : Stacks(h, m)[k] = Stacks(heap_env', m)[k]
      <4>1. /\ EntriesOK(g) /\ Len(h) <= Len(h) /\ Len(h) <= Len(g)
            /\ \A j \in 1 .. Len(h) : h[j] = g[j]
        BY <1>2, <1>3, <2>3
      <4>2. \A k \in 0 .. Len(h) : Stacks(h, m)[k] = Stacks(g, m)[k]
        BY <1>2, <4>1, StacksAgree
      <4> QED BY <1>3, <4>2
    <3>2. Stacks(heap_env', m)[Len(h)] = TopStack(h, m)
      BY <1>2, <3>1 DEF TopStack
    <3>3. Len(h) + 1 \in 1 .. Len(heap_env') /\ Len(h) + 1 - 1 = Len(h)
      BY <1>2, <2>3
    <3>4. CASE m = n
      <4>1. Gives(heap_env'[Len(h) + 1], m) /\ Tail(heap_env'[Len(h) + 1]) = value
        BY <1>1, <1>5, <2>3, <3>4
      <4>2. TopStack(heap_env', m) = Append(Stacks(heap_env', m)[Len(h) + 1 - 1], value)
        <5>1. /\ EntriesOK(g) /\ Len(h) + 1 \in 1 .. Len(g) /\ Len(g) = Len(h) + 1
              /\ Gives(g[Len(h) + 1], m) /\ Tail(g[Len(h) + 1]) = value
          BY <1>3, <2>3, <3>3, <4>1
        <5>2. PICK l : l = Len(h) + 1
          OBVIOUS
        <5>3. EntriesOK(g) /\ l \in 1 .. Len(g) /\ Gives(g[l], m)
          BY <5>1, <5>2
        <5>4. Stacks(g, m)[l] = Append(Stacks(g, m)[l - 1], Tail(g[l]))
          BY <5>3, StackStep
        <5> QED BY <1>3, <5>1, <5>2, <5>4 DEF TopStack
      <4>3. TopStack(heap_env', m) = Append(<< >>, value)
        BY <2>2, <3>2, <3>3, <3>4, <4>2
      <4> QED BY <3>4, <4>3
    <3>5. CASE m # n
      <4>1. ~Gives(heap_env'[Len(h) + 1], m)
        BY <1>5, <2>3, <3>5
      <4>2. TopStack(heap_env', m) = Stacks(heap_env', m)[Len(h) + 1 - 1]
        <5>1. /\ EntriesOK(g) /\ Len(h) + 1 \in 1 .. Len(g) /\ Len(g) = Len(h) + 1
              /\ ~Gives(g[Len(h) + 1], m)
          BY <1>3, <2>3, <3>3, <4>1
        <5>2. PICK l : l = Len(h) + 1
          OBVIOUS
        <5>3. EntriesOK(g) /\ l \in 1 .. Len(g) /\ ~Gives(g[l], m)
          BY <5>1, <5>2
        <5>4. Stacks(g, m)[l] = Stacks(g, m)[l - 1]
          BY <5>3, StackStep
        <5> QED BY <1>3, <5>1, <5>2, <5>4 DEF TopStack
      <4> QED BY <3>2, <3>3, <3>5, <4>2
    <3> QED BY <3>4, <3>5
  <2>5. Map!Put(n, << value >>)
    BY <1>2, <1>3, <2>4, Puts DEF h
  <2>6. << value >> \o Tail(<< value >>) = << value >>
    <3>1. << value >> \in Seq(Strings) /\ Tail(<< value >>) = << >>
      BY <1>6
    <3> QED BY <3>1, ConcatEmptySeq
  <2> QED BY <1>6, <2>2, <2>5, <2>6 DEF Map!Assign
<1> QED BY <1>7, <1>8 DEF Set, e, h

(* The first of s are those of t. *)
LEMMA PrefixIs ==
    ASSUME NEW T, NEW s \in Seq(T), NEW t \in Seq(T), Len(t) <= Len(s)
    PROVE  SubSeq(s, 1, Len(t)) = t <=> \A q \in 1 .. Len(t) : s[q] = t[q]
<1>1. /\ Len(t) \in Nat /\ Len(s) \in Nat
      /\ \A q \in 1 .. Len(t) : s[q] \in T
  BY LenProperties, ElementOfSeq
<1>2. /\ SubSeq(s, 1, Len(t)) \in Seq(T)
      /\ Len(SubSeq(s, 1, Len(t))) = IF 1 <= Len(t) THEN Len(t) - 1 + 1 ELSE 0
      /\ \A q \in 1 .. Len(t) - 1 + 1 : SubSeq(s, 1, Len(t))[q] = s[1 + q - 1]
  BY <1>1, SubSeqProperties
<1>3. /\ Len(SubSeq(s, 1, Len(t))) = Len(t)
      /\ \A q \in 1 .. Len(t) : SubSeq(s, 1, Len(t))[q] = s[q]
  BY <1>1, <1>2
<1>4. ASSUME \A q \in 1 .. Len(t) : s[q] = t[q] PROVE SubSeq(s, 1, Len(t)) = t
  BY <1>2, <1>3, <1>4, SeqEqual
<1>5. ASSUME SubSeq(s, 1, Len(t)) = t, NEW q \in 1 .. Len(t) PROVE s[q] = t[q]
  BY <1>3, <1>5
<1> QED BY <1>4, <1>5

(* An entry matches a key when its name is the key's and its value is one   *)
(* that the key strikes.                                                    *)
LEMMA MatchStrikes ==
    ASSUME NEW e \in Seq(Parts), NEW key, IsKey(key)
    PROVE  Match(e, key) <=> Gives(e, key[1]) /\ Map!Strikes(key, Tail(e))
<1>1. /\ key \in Seq(Parts) /\ Len(key) \in Nat /\ Len(key) >= 1 /\ Len(e) \in Nat
      /\ Tail(key) \in Seq(Parts) /\ Len(Tail(key)) = Len(key) - 1
      /\ \A q \in 1 .. Len(key) - 1 : Tail(key)[q] = key[q + 1]
  BY EmptySeq, LenProperties, HeadTailProperties DEF IsKey
<1>2. CASE Len(e) > 1
  <2>1. /\ Tail(e) \in Seq(Parts) /\ Len(Tail(e)) = Len(e) - 1
        /\ \A q \in 1 .. Len(e) - 1 : Tail(e)[q] = e[q + 1]
    <3>1. e # << >>
      BY <1>2, EmptySeq
    <3> QED BY <3>1, HeadTailProperties
  <2>2. CASE Len(key) < Len(e)
    <3>1. SubSeq(e, 1, Len(key)) = key <=> \A q \in 1 .. Len(key) : e[q] = key[q]
      BY <1>1, <2>2, PrefixIs
    <3>2. SubSeq(Tail(e), 1, Len(key) - 1) = Tail(key)
            <=> \A q \in 1 .. Len(key) - 1 : Tail(e)[q] = Tail(key)[q]
      <4>1. Len(Tail(key)) <= Len(Tail(e))
        BY <1>1, <2>1, <2>2
      <4>2. SubSeq(Tail(e), 1, Len(Tail(key))) = Tail(key)
            <=> \A q \in 1 .. Len(Tail(key)) : Tail(e)[q] = Tail(key)[q]
        BY <1>1, <2>1, <4>1, PrefixIs
      <4> QED BY <1>1, <4>2
    <3>3. ASSUME \A q \in 1 .. Len(key) : e[q] = key[q]
          PROVE  e[1] = key[1] /\ \A q \in 1 .. Len(key) - 1 : Tail(e)[q] = Tail(key)[q]
      BY <1>1, <2>1, <2>2, <3>3
    <3>4. ASSUME e[1] = key[1], \A q \in 1 .. Len(key) - 1 : Tail(e)[q] = Tail(key)[q],
                 NEW q \in 1 .. Len(key)
          PROVE  e[q] = key[q]
      <4>1. CASE q = 1
        BY <3>4, <4>1
      <4>2. CASE q # 1
        <5>1. q - 1 \in 1 .. Len(key) - 1 /\ q - 1 \in 1 .. Len(e) - 1 /\ q - 1 + 1 = q
          BY <1>1, <2>2, <4>2
        <5>2. Tail(e)[q - 1] = e[q - 1 + 1] /\ Tail(key)[q - 1] = key[q - 1 + 1]
          BY <1>1, <2>1, <5>1
        <5> QED BY <3>4, <5>1, <5>2
      <4> QED BY <4>1, <4>2
    <3>5. Len(key) <= Len(Tail(e))
      BY <1>1, <2>1, <2>2
    <3> QED BY <1>2, <2>2, <3>1, <3>2, <3>3, <3>4, <3>5
            DEF Match, Gives, NameOf, Map!Strikes
  <2>3. CASE ~(Len(key) < Len(e))
    <3>1. ~(Len(key) <= Len(Tail(e)))
      BY <1>1, <2>1, <2>3
    <3> QED BY <2>3, <3>1 DEF Match, Map!Strikes
  <2> QED BY <2>2, <2>3
<1>3. CASE ~(Len(e) > 1)
  BY <1>1, <1>3 DEF Match, Gives
<1> QED BY <1>2, <1>3

(* Without the i-th entry the stack of its name is without that value, and  *)
(* the other stacks are as they were.                                       *)
LEMMA RemovedStacks ==
    ASSUME EntriesOK(heap_env), NEW i \in DOMAIN heap_env, heap_env' = Without(i), NEW n
    PROVE  /\ Gives(heap_env[i], n) =>
                TopStack(heap_env', n) = Cut(TopStack(heap_env, n), Len(Stacks(heap_env, n)[i]))
           /\ ~Gives(heap_env[i], n) => TopStack(heap_env', n) = TopStack(heap_env, n)
<1>1. PICK h, g : h = heap_env /\ g = heap_env'
  OBVIOUS
<1>2. /\ EntriesOK(h) /\ Len(h) \in Nat /\ i \in 1 .. Len(h)
  BY <1>1, LenProperties DEF EntriesOK
<1>3. /\ EntriesOK(g) /\ Len(g) = Len(h) - 1
      /\ \A j \in 1 .. Len(h) - 1 : g[j] = IF j < i THEN h[j] ELSE h[j + 1]
  BY <1>1, WithoutOK
<1>4. LostFrom(h, g, n, i)
  <2>1. EntriesOK(h) /\ EntriesOK(g) /\ RemovedIn(h, g, i)
    BY <1>2, <1>3 DEF RemovedIn
  <2> QED BY <2>1, StacksRemoved
<1>5. Len(h) \in i .. Len(h) /\ Len(g) = Len(h) - 1
  BY <1>2, <1>3
<1> QED BY <1>1, <1>4, <1>5 DEF TopStack, LostFrom

(* The q-th value of a stack is the one of an entry that gives the name.    *)
LEMMA ValueFrom ==
    ASSUME NEW h, EntriesOK(h), NEW n, NEW q \in 1 .. Len(TopStack(h, n))
    PROVE  \E i \in 1 .. Len(h) : /\ Gives(h[i], n) /\ Len(Stacks(h, n)[i]) = q
                                  /\ TopStack(h, n)[q] = Tail(h[i])
<1>1. Len(h) \in Nat /\ Len(h) \in 0 .. Len(h)
  BY LenProperties DEF EntriesOK
<1>2. PICK i \in 1 .. Len(h) : Gives(h[i], n) /\ Len(Stacks(h, n)[i]) = q
  BY <1>1, StackPlaces DEF TopStack
<1>3. Stacks(h, n)[Len(h)][Len(Stacks(h, n)[i])] = Tail(h[i])
  BY <1>2, StackPlaces
<1> QED BY <1>2, <1>3 DEF TopStack

LEMMA UnsetRemoves ==
    ASSUME EntriesOK(heap_env), NEW key, IsKey(key),
           NEW i \in DOMAIN heap_env, FirstAt(key, i), heap_env' = Without(i)
    PROVE  Map!Remove(key)
<1> DEFINE n == key[1]
           s == TopStack(heap_env, n)
           p == Len(Stacks(heap_env, n)[i])
<1>1. /\ DOMAIN heap_env = 1 .. Len(heap_env) /\ Len(heap_env) \in Nat
      /\ \A j \in 1 .. Len(heap_env) : heap_env[j] \in Seq(Parts)
  BY LenProperties, ElementOfSeq DEF EntriesOK
<1>2. \A j \in 1 .. Len(heap_env) :
        Match(heap_env[j], key) <=> Gives(heap_env[j], n) /\ Map!Strikes(key, Tail(heap_env[j]))
  BY <1>1, MatchStrikes
<1>3. Map!Stack(n) = s /\ s \in Seq(Strings)
  BY StackIs, TopStackType
<1>4. /\ Gives(heap_env[i], n) /\ Map!Strikes(key, Tail(heap_env[i]))
      /\ \A j \in 1 .. i - 1 : ~Match(heap_env[j], key)
  BY <1>1, <1>2 DEF FirstAt
<1>5. /\ p \in 1 .. Len(s) /\ s[p] = Tail(heap_env[i])
      /\ \A j \in 1 .. i - 1 : Len(Stacks(heap_env, n)[j]) < p
  BY <1>1, <1>4, StackPlaces DEF TopStack
<1>6. ASSUME NEW q \in 1 .. p - 1 PROVE ~Map!Strikes(key, s[q])
  <2>1. q \in 1 .. Len(s)
    BY <1>3, <1>5, LenProperties
  <2>2. PICK j \in 1 .. Len(heap_env) :
          /\ Gives(heap_env[j], n) /\ Len(Stacks(heap_env, n)[j]) = q
          /\ s[q] = Tail(heap_env[j])
    BY <2>1, ValueFrom
  <2>3. q # p
    BY <1>3, <1>5, LenProperties
  <2>4. j # i
    BY <2>2, <2>3
  <2>5. ~(i < j)
    <3>1. SUFFICES ASSUME i < j PROVE FALSE
      OBVIOUS
    <3>2. i \in 1 .. j - 1
      BY <1>1, <3>1
    <3>3. \A l \in 1 .. j - 1 : Len(Stacks(heap_env, n)[l]) < Len(Stacks(heap_env, n)[j])
      BY <2>2, StackPlaces
    <3>4. p < q
      BY <2>2, <3>2, <3>3
    <3> QED BY <1>3, <1>5, <3>4, LenProperties
  <2>6. j \in 1 .. i - 1
    BY <1>1, <2>4, <2>5
  <2> QED BY <1>2, <1>4, <2>2, <2>6
<1>7. Map!Put(n, Cut(s, p))
  <2>1. TopStack(heap_env', n) = Cut(s, p)
    BY <1>4, RemovedStacks
  <2>2. ASSUME NEW m, m # n PROVE TopStack(heap_env', m) = TopStack(heap_env, m)
    <3>1. ~Gives(heap_env[i], m)
      BY <1>4, <2>2 DEF Gives
    <3> QED BY <3>1, RemovedStacks
  <2>3. EntriesOK(heap_env')
    BY WithoutOK
  <2> QED BY <2>1, <2>2, <2>3, Puts
<1>8. p \in DOMAIN s
  BY <1>3, <1>5, LenProperties
<1>9. Map!Strikes(key, s[p]) /\ \A q \in 1 .. p - 1 : ~Map!Strikes(key, s[q])
  BY <1>4, <1>5, <1>6
<1> HIDE DEF n, s, p
<1>10. Map!Put(n, SubSeq(s, 1, p - 1) \o SubSeq(s, p + 1, Len(s)))
  BY <1>7 DEF Cut
<1> QED BY <1>3, <1>8, <1>9, <1>10 DEF Map!Remove, n

LEMMA UnsetKeeps ==
    ASSUME EntriesOK(heap_env), NEW key, IsKey(key), Absent(key), UNCHANGED heap_env
    PROVE  Map!Remove(key)
<1> DEFINE s == TopStack(heap_env, key[1])
<1>1. /\ DOMAIN heap_env = 1 .. Len(heap_env)
      /\ \A j \in 1 .. Len(heap_env) : heap_env[j] \in Seq(Parts)
  BY LenProperties, ElementOfSeq DEF EntriesOK
<1>2. Map!Stack(key[1]) = s /\ DOMAIN s = 1 .. Len(s)
  BY StackIs, TopStackType, LenProperties
<1>3. ASSUME NEW q \in DOMAIN s PROVE ~Map!Strikes(key, s[q])
  <2>1. PICK j \in 1 .. Len(heap_env) :
          /\ Gives(heap_env[j], key[1]) /\ Len(Stacks(heap_env, key[1])[j]) = q
          /\ s[q] = Tail(heap_env[j])
    BY <1>2, <1>3, ValueFrom
  <2>2. ~Match(heap_env[j], key)
    BY <1>1, <2>1 DEF Absent
  <2> QED BY <1>1, <2>1, <2>2, MatchStrikes
<1>4. UNCHANGED EnvOf
  BY DEF EnvOf, Names
<1> HIDE DEF s
<1> QED BY <1>2, <1>3, <1>4 DEF Map!Remove

(* What LevelStep reads is the first value of the name. *)
LEMMA FirstValue ==
    ASSUME EntriesOK(heap_env), NEW key \in Seq(Parts), Len(key) = 1
    PROVE  /\ Absent(key) => Map!Stack(key[1]) = << >>
           /\ \A i \in DOMAIN heap_env : FirstAt(key, i) =>
                 Map!Stack(key[1]) # << >> /\ Map!Stack(key[1])[1] = ValueOf(i, key)
<1> DEFINE n == key[1]
           s == TopStack(heap_env, n)
<1>0. EntriesOK(heap_env)
  OBVIOUS
<1>1. /\ DOMAIN heap_env = 1 .. Len(heap_env) /\ Len(heap_env) \in Nat
      /\ \A j \in 1 .. Len(heap_env) : heap_env[j] \in Seq(Parts)
  BY LenProperties, ElementOfSeq DEF EntriesOK
<1>2. \A j \in 1 .. Len(heap_env) : Match(heap_env[j], key) <=> Gives(heap_env[j], n)
  BY <1>1, MatchesName DEF Gives, NameOf
<1>3. Map!Stack(n) = s /\ s \in Seq(Strings)
  BY StackIs, TopStackType
<1>4. ASSUME Absent(key) PROVE s = << >>
  BY <1>1, <1>2, <1>4, GivenNames DEF Absent
<1>5. ASSUME NEW i \in DOMAIN heap_env, FirstAt(key, i)
      PROVE  s # << >> /\ s[1] = ValueOf(i, key)
  <2>1. Gives(heap_env[i], n) /\ \A j \in 1 .. i - 1 : ~Gives(heap_env[j], n)
    BY <1>1, <1>2, <1>5 DEF FirstAt
  <2>2. s # << >>
    BY <1>1, <2>1, GivenNames
  <2>3. 1 \in 1 .. Len(s)
    BY <1>3, <2>2, EmptySeq
  <2>4. PICK j \in 1 .. Len(heap_env) :
          /\ Gives(heap_env[j], n) /\ Len(Stacks(heap_env, n)[j]) = 1
          /\ s[1] = Tail(heap_env[j])
    <3>1. PICK q : q = 1
      OBVIOUS
    <3>2. q \in 1 .. Len(TopStack(heap_env, n))
      BY <2>3, <3>1
    <3>3. \E j \in 1 .. Len(heap_env) :
             /\ Gives(heap_env[j], n) /\ Len(Stacks(heap_env, n)[j]) = q
             /\ TopStack(heap_env, n)[q] = Tail(heap_env[j])
      BY <1>0, <3>2, ValueFrom
    <3> QED BY <3>1, <3>3
  <2>5. ~(i < j)
    <3>1. SUFFICES ASSUME i < j PROVE FALSE
      OBVIOUS
    <3>2. i \in 1 .. j - 1
      BY <1>1, <3>1
    <3>3. \A l \in 1 .. j - 1 : Len(Stacks(heap_env, n)[l]) < Len(Stacks(heap_env, n)[j])
      BY <2>4, StackPlaces
    <3>4. Len(Stacks(heap_env, n)[i]) \in 1 .. Len(Stacks(heap_env, n)[Len(heap_env)])
      BY <1>1, <2>1, StackPlaces
    <3> QED BY <2>4, <3>2, <3>3, <3>4
  <2>6. ~(j < i)
    BY <1>1, <2>1, <2>4
  <2>7. j = i
    BY <1>1, <2>4, <2>5, <2>6
  <2>8. Tail(heap_env[i]) = ValueOf(i, key)
    <3>1. heap_env[i] # << >> /\ heap_env[i] \in Seq(Parts)
      BY <1>1, <2>1, EmptySeq DEF Gives
    <3>2. Tail(heap_env[i]) = SubSeq(heap_env[i], 2, Len(heap_env[i]))
      BY <3>1, TailIsSubSeq
    <3> QED BY <3>2 DEF ValueOf
  <2> QED BY <2>2, <2>4, <2>7, <2>8
<1> QED BY <1>3, <1>4, <1>5

(* A crash and a step that leaves the array alone. *)
LEMMA EnvKept ==
    UNCHANGED heap_env => UNCHANGED EnvOf
BY DEF EnvOf, Names

LEMMA HandledIs ==
    ASSUME Handled(code) PROVE pending' = Tail(pending) /\ UNCHANGED code
BY DEF Handled

LEMMA StartBegins ==
    ASSUME NEW requests, Start(requests) PROVE Map!Begin
BY EnvKept DEF Start, Map!Begin

(* Each request does to the map what it asks for, or ends the shell. *)
LEMMA RequestMap ==
    EnvInv /\ (SetStep \/ LevelStep \/ UnsetStep \/ ExportOther) => Crash \/ Map!Advance
<1> SUFFICES ASSUME EnvInv, SetStep \/ LevelStep \/ UnsetStep \/ ExportOther
             PROVE  Crash \/ Map!Advance
  OBVIOUS
<1>0. EntriesOK(heap_env) /\ (pending # << >> => GoodRequest(Head(pending)))
  BY TailGood DEF EnvInv, TypeOK
<1>2. CASE SetStep /\ ~Crash
  <2>1. /\ alive /\ pending # << >> /\ Head(pending).op = "set"
        /\ Set(Head(pending).key, Head(pending).value)
    BY <1>2 DEF SetStep
  <2>2. /\ IsKey(Head(pending).key) /\ Len(Head(pending).key) = 1
        /\ Head(pending).value \in Values
    BY <1>0, <2>1 DEF GoodRequest
  <2>3. Map!Assign(Head(pending).key[1], Head(pending).value) /\ Handled(code)
    BY <1>2, <2>1, <2>2, SetAssigns
  <2> QED BY <2>1, <2>3, HandledIs DEF Map!Advance, Map!Handle
<1>3. CASE LevelStep /\ ~Crash
  <2> DEFINE key == Head(pending).key
             s == Map!Stack(key[1])
  <2>1. /\ alive /\ pending # << >> /\ Head(pending).op = "level"
        /\ \/ Absent(key) /\ Set(key, FirstLevel)
           \/ \E i \in DOMAIN heap_env : FirstAt(key, i) /\ Set(key, NextLevel[ValueOf(i, key)])
    BY <1>3 DEF LevelStep
  <2>2. IsKey(key) /\ Len(key) = 1 /\ key \in Seq(Parts)
    BY <1>0, <2>1 DEF GoodRequest, IsKey
  <2>3. FirstLevel \in Values /\ NextLevel \in [Values -> Values]
    BY EnvironmentAssumption
  <2>4. PICK v \in Values :
          Set(key, v) /\ v = IF s # << >> THEN NextLevel[s[1]] ELSE FirstLevel
    <3>1. CASE Absent(key) /\ Set(key, FirstLevel)
      BY <1>0, <2>2, <2>3, <3>1, FirstValue
    <3>2. CASE \E i \in DOMAIN heap_env : FirstAt(key, i) /\ Set(key, NextLevel[ValueOf(i, key)])
      <4>1. PICK i \in DOMAIN heap_env : FirstAt(key, i) /\ Set(key, NextLevel[ValueOf(i, key)])
        BY <3>2
      <4>2. ValueOf(i, key) \in Values
        BY <1>0, <2>2, <4>1, ValueGood
      <4>3. s # << >> /\ s[1] = ValueOf(i, key)
        BY <1>0, <2>2, <4>1, FirstValue
      <4> QED BY <2>3, <4>1, <4>2, <4>3
    <3> QED BY <2>1, <3>1, <3>2
  <2>5. Map!Assign(key[1], v) /\ Handled(code)
    BY <1>3, <2>1, <2>2, <2>4, SetAssigns
  <2> QED BY <2>1, <2>4, <2>5, HandledIs DEF Map!Advance, Map!Handle
<1>4. CASE UnsetStep /\ ~Crash
  <2> DEFINE key == Head(pending).key
  <2>1. /\ pending # << >> /\ Head(pending).op = "unset" /\ Handled(code)
        /\ \/ Absent(key) /\ UNCHANGED heap_env
           \/ \E i \in DOMAIN heap_env : FirstAt(key, i) /\ heap_env' = Without(i)
    BY <1>4 DEF UnsetStep
  <2>2. IsKey(key)
    BY <1>0, <2>1 DEF GoodRequest
  <2>3. Map!Remove(key)
    BY <1>0, <2>1, <2>2, UnsetKeeps, UnsetRemoves
  <2> QED BY <2>1, <2>3, HandledIs DEF Map!Advance, Map!Handle
<1>5. CASE ExportOther /\ ~Crash
  <2>1. /\ pending # << >> /\ Head(pending).op \in { "bad", "plain" }
        /\ pending' = Tail(pending)
        /\ code' = IF Head(pending).op = "bad" THEN 1 ELSE code
        /\ UNCHANGED EnvOf
    BY <1>5, EnvKept DEF ExportOther, Handled
  <2> QED BY <2>1 DEF Map!Advance, Map!Handle
<1> QED BY <1>2, <1>3, <1>4, <1>5

LEMMA NextMap == EnvInv /\ [Next]_vars => [Map!Next]_Map!mapvars
<1> SUFFICES ASSUME EnvInv, [Next]_vars PROVE [Map!Next]_Map!mapvars
  OBVIOUS
<1>1. CASE Crash
  BY <1>1, EnvKept DEF Crash, Map!mapvars
<1>2. CASE SetStep \/ LevelStep \/ UnsetStep \/ ExportOther
  BY <1>1, <1>2, RequestMap DEF Map!Next
<1>3. CASE Export
  BY <1>3, StartBegins DEF Export, Map!Next
<1>4. CASE Unset
  BY <1>4, StartBegins DEF Unset, Map!Next
<1>5. CASE Cd
  BY <1>5, StartBegins DEF Cd, Map!Next
<1>6. CASE List /\ ~Crash
  <2>1. pending = << >> /\ code' = 0 /\ UNCHANGED << heap_env, pending >>
    BY <1>6 DEF List
  <2> QED BY <2>1, EnvKept DEF Map!Next, Map!Begin
<1>7. CASE Other
  <2>1. pending = << >> /\ code' \in 0 .. 1 /\ UNCHANGED << heap_env, pending >>
    BY <1>7 DEF Other
  <2> QED BY <2>1, EnvKept DEF Map!Next, Map!Begin
<1>8. CASE UNCHANGED vars
  BY <1>8, EnvKept DEF vars, Map!mapvars
<1> QED BY <1>1, <1>2, <1>3, <1>4, <1>5, <1>6, <1>7, <1>8 DEF Next

(* The array, its scans and its moves of entries implement a map from names *)
(* to stacks of values: a command changes the variables it names, each to   *)
(* the value it gives, and no other, whatever the order of the entries and  *)
(* whatever duplicates the shell was started with.                          *)
THEOREM ImplementsMap == Spec => RefinesMap
BY EnvInvariant, NextMap, PTL DEF Spec, RefinesMap, Map!Spec

-----------------------------------------------------------------------------
(* Directory.                                                               *)

dirvars == << vars, dvars >>

\* The directories of the cds are the environment's, and the process is in
\* none that does not exist: one that is made again is another one. The shell
\* keeps what getcwd() last told it.
PlacesOK ==
    /\ dirs \subseteq Dirs
    /\ working_directory \in Dirs
    /\ cwd \in dirs \cup Deep \cup { Gone }
    /\ named = working_directory

LEMMA InitPlaces == DirInit => PlacesOK /\ Believes
<1> SUFFICES ASSUME DirInit PROVE PlacesOK /\ Believes
  OBVIOUS
<1>1. PICK d \in Dirs : pending = Opening(d)
  BY DEF DirInit, Init
<1>2. pending[Len(pending)].value = d
  BY <1>1 DEF Opening, Request
<1>3. working_directory = d /\ cwd = d
  BY <1>2 DEF DirInit
<1>4. dirs \subseteq Dirs /\ cwd \in dirs
  BY DEF DirInit
<1>5. named = d
  BY <1>3 DEF DirInit
<1> QED BY <1>3, <1>4, <1>5 DEF PlacesOK, Believes, Known

LEMMA NextPlaces == PlacesOK /\ Believes /\ [DirNext]_dirvars => (PlacesOK /\ Believes)'
<1> SUFFICES ASSUME PlacesOK, Believes, [DirNext]_dirvars PROVE (PlacesOK /\ Believes)'
  OBVIOUS
<1> USE DEF PlacesOK, Believes, Known
<1>1. CASE UNCHANGED dvars
  BY <1>1 DEF dvars
<1>2. ASSUME NEW path, Chdir(path) PROVE (PlacesOK /\ Believes)'
  <2>1. CASE UNCHANGED dvars
    BY <2>1, <1>1
  <2>2. CASE /\ path \in dirs \cup Deep /\ cwd' = path /\ moving' = << Known >>
             /\ moved' = FALSE /\ UNCHANGED << dirs, working_directory, named, left >>
    BY <2>2
  <2> QED BY <1>2, <2>1, <2>2 DEF Chdir
<1>3. CASE CdTo
  BY <1>2, <1>3 DEF CdTo
<1>4. CASE CdHere
  BY <1>4 DEF CdHere
<1>5. CASE CdVariable
  BY <1>1, <1>2, <1>5 DEF CdVariable
<1>6. CASE Getcwd
  BY <1>6 DEF Getcwd
<1>7. CASE Pwd
  BY <1>7 DEF Pwd
<1>8. CASE Others
  <2>1. PICK d \in Dirs, e \in Dirs : Make(d) \/ Remove(d) \/ Rename(d, e)
    BY <1>8 DEF Others
  <2>2. UNCHANGED << working_directory, moving, named >>
    BY <1>8 DEF Others
  <2>3. Gone \notin Dirs /\ Deep \cap Dirs = {}
    BY DirectoryAssumption DEF DirectoryAssumption
  <2>4. CASE Make(d)
    BY <2>2, <2>3, <2>4 DEF Make
  <2>5. CASE Remove(d)
    BY <2>2, <2>3, <2>5 DEF Remove
  <2>6. CASE Rename(d, e)
    BY <2>2, <2>3, <2>6 DEF Rename
  <2> QED BY <2>1, <2>4, <2>5, <2>6
<1>9. CASE EnvStep \/ OtherBuiltin \/ UNCHANGED dirvars
  BY <1>1, <1>9 DEF EnvStep, OtherBuiltin, dirvars
<1> QED BY <1>3, <1>4, <1>5, <1>6, <1>7, <1>8, <1>9 DEF DirNext

LEMMA PlacesInvariant == DirSpec => [](PlacesOK /\ Believes)
BY InitPlaces, NextPlaces, PTL DEF DirSpec, dirvars

(* Between its commands the shell's working_directory is where the process  *)
(* is, or, where another process renamed or removed that directory or its   *)
(* path is too long for getcwd(), the last one getcwd() named: whatever cd, *)
(* pwd and other processes do, it is never another.                         *)
THEOREM WorkingDirectoryCorrect == DirSpec => []Believes
BY PlacesInvariant, PTL

-----------------------------------------------------------------------------
(* Each step is one of Environment's, or leaves its variables alone.        *)

LEMMA NextEnvironment == PlacesOK /\ [DirNext]_dirvars => [Next]_vars
<1> SUFFICES ASSUME PlacesOK, DirNext PROVE [Next]_vars
  BY DEF dirvars, vars
<1>1. ASSUME NEW path, Chdir(path) PROVE [Next]_vars
  BY <1>1 DEF Chdir, Fail, Next
<1>2. CASE EnvStep
  BY <1>2 DEF EnvStep, Next
<1>3. CASE CdTo
  BY <1>1, <1>3 DEF CdTo
<1>4. CASE CdHere
  BY <1>4 DEF CdHere
<1>5. CASE CdVariable
  <2>1. PICK key \in { << "HOME" >>, << "OLDPWD" >> } :
          /\ AtPrompt
          /\ \/ Faults(key) /\ Crash
             \/ Fail
             \/ \E i \in DOMAIN heap_env : Chdir(ValueOf(i, key))
    BY <1>5 DEF CdVariable
  <2>2. CASE Faults(key) /\ Crash
    BY <2>1, <2>2 DEF AtPrompt, Faults, List, Next
  <2>3. CASE Fail
    BY <2>3 DEF Fail, Next
  <2>4. CASE \E i \in DOMAIN heap_env : Chdir(ValueOf(i, key))
    BY <1>1, <2>4
  <2> QED BY <2>1, <2>2, <2>3, <2>4
<1>6. CASE Getcwd
  <2>1. CASE Fail
    BY <2>1 DEF Fail, Next
  <2>2. CASE cwd \in dirs /\ Start(Moved(cwd))
    <3>1. cwd \in Dirs /\ working_directory \in Dirs
      BY <2>2 DEF PlacesOK
    <3>2. Cd
      BY <2>2, <3>1 DEF Cd, Moved
    <3> QED BY <3>2 DEF Next
  <2> QED BY <1>6, <2>1, <2>2 DEF Getcwd
<1>7. CASE Pwd
  BY <1>7 DEF Pwd, Next
<1>8. CASE OtherBuiltin
  BY <1>8 DEF OtherBuiltin, Next
<1>9. CASE Others
  BY <1>9 DEF Others
<1> QED BY <1>2, <1>3, <1>4, <1>5, <1>6, <1>7, <1>8, <1>9 DEF DirNext

(* The shell with its directories does to the environment what Environment  *)
(* says: a cd that succeeds, with its failures on the way, is a Cd or none. *)
THEOREM ImplementsEnvironment == DirSpec => Spec
<1>1. DirInit => Init
  BY DEF DirInit
<1>2. PlacesOK /\ Believes /\ [DirNext]_dirvars => [Next]_vars
  BY NextEnvironment
<1> QED BY <1>1, <1>2, PlacesInvariant, PTL DEF DirSpec, Spec, dirvars

-----------------------------------------------------------------------------
(* What cd leaves in OLDPWD. Of the map: what becomes of one name.          *)

LEMMA PutKeeps ==
    ASSUME NEW n, NEW stack, NEW m, m # n, Map!Put(n, stack)
    PROVE  Map!Stack(m)' = Map!Stack(m)
BY DEF Map!Put, Map!Stack

LEMMA PutGives ==
    ASSUME NEW n, NEW stack, stack # << >>, Map!Put(n, stack)
    PROVE  Map!Stack(n)' = stack
BY DEF Map!Put, Map!Stack

LEMMA StackKept ==
    ASSUME UNCHANGED EnvOf, NEW n PROVE Map!Stack(n)' = Map!Stack(n)
BY DEF Map!Stack

LEMMA HandleKeeps ==
    ASSUME NEW r, ~Touches(r), Map!Handle(r)
    PROVE  Map!Stack("OLDPWD")' = Map!Stack("OLDPWD")
<1>1. CASE r.op \in { "bad", "plain" }
  <2>1. UNCHANGED EnvOf
    BY <1>1 DEF Map!Handle
  <2> QED BY <2>1, StackKept
<1>2. CASE r.op \notin { "bad", "plain" }
  <2>1. r.key[1] # "OLDPWD"
    BY <1>2 DEF Touches
  <2>2. CASE r.op = "set" \/ r.op = "level"
    <3>1. PICK v : Map!Assign(r.key[1], v)
      BY <2>2 DEF Map!Handle
    <3> QED BY <2>1, <3>1, PutKeeps DEF Map!Assign
  <2>3. CASE r.op = "unset"
    <3>1. Map!Remove(r.key)
      BY <2>3 DEF Map!Handle
    <3> DEFINE n == r.key[1]
               t == Map!Stack(n)
               put(i) == Map!Put(n, SubSeq(t, 1, i - 1) \o SubSeq(t, i + 1, Len(t)))
    <3>2. UNCHANGED EnvOf \/ \E i \in DOMAIN t : put(i)
      BY <3>1, Zenon DEF Map!Remove
    <3>3. ASSUME NEW i, put(i) PROVE Map!Stack("OLDPWD")' = Map!Stack("OLDPWD")
      BY <2>1, <3>3, PutKeeps
    <3> QED BY <3>2, <3>3, StackKept
  <2> QED BY <1>2, <2>2, <2>3 DEF Map!Handle
<1> QED BY <1>1, <1>2

(* The first value of the map is the value that get_env_var() finds. *)
LEMMA HoldsFirst ==
    ASSUME EntriesOK(heap_env), NEW n \in Parts, NEW v,
           Map!Stack(n) # << >>, Map!Stack(n)[1] = v
    PROVE  Holds(n, v)
<1> DEFINE s == TopStack(heap_env, n)
<1>0. EntriesOK(heap_env)
  OBVIOUS
<1>1. /\ DOMAIN heap_env = 1 .. Len(heap_env) /\ Len(heap_env) \in Nat
      /\ \A j \in 1 .. Len(heap_env) : heap_env[j] \in Seq(Parts)
  BY LenProperties, ElementOfSeq DEF EntriesOK
<1>2. << n >> \in Seq(Parts) /\ Len(<< n >>) = 1
  BY Singleton
<1>3. \A j \in 1 .. Len(heap_env) : Match(heap_env[j], << n >>) <=> Gives(heap_env[j], n)
  BY <1>1, <1>2, MatchesName DEF Gives, NameOf
<1>4. s # << >> /\ s \in Seq(Strings)
  BY StackIs, TopStackType
<1>5. PICK q : q = 1 /\ q \in 1 .. Len(s)
  BY <1>4, EmptySeq
<1>6. \E i \in 1 .. Len(heap_env) :
         /\ Gives(heap_env[i], n) /\ Len(Stacks(heap_env, n)[i]) = q
         /\ TopStack(heap_env, n)[q] = Tail(heap_env[i])
  <2>1. q \in 1 .. Len(TopStack(heap_env, n))
    BY <1>5
  <2> QED BY <1>0, <2>1, ValueFrom
<1>7. PICK i \in 1 .. Len(heap_env) : Gives(heap_env[i], n) /\ Len(Stacks(heap_env, n)[i]) = 1
  BY <1>5, <1>6
<1>8. ASSUME NEW j \in 1 .. i - 1 PROVE ~Match(heap_env[j], << n >>)
  <2>1. j \in 1 .. Len(heap_env)
    BY <1>1
  <2>2. Len(Stacks(heap_env, n)[j]) < 1
    <3>1. \A l \in 1 .. i - 1 : Len(Stacks(heap_env, n)[l]) < Len(Stacks(heap_env, n)[i])
      BY <1>7, StackPlaces
    <3> QED BY <1>7, <3>1
  <2>3. ~Gives(heap_env[j], n)
    <3>1. SUFFICES ASSUME Gives(heap_env[j], n) PROVE FALSE
      OBVIOUS
    <3>2. Len(Stacks(heap_env, n)[j]) \in 1 .. Len(Stacks(heap_env, n)[Len(heap_env)])
      BY <2>1, <3>1, StackPlaces
    <3> QED BY <2>2, <3>2
  <2> QED BY <1>3, <2>1, <2>3
<1>9. FirstAt(<< n >>, i)
  BY <1>1, <1>3, <1>7, <1>8 DEF FirstAt
<1>10. ValueOf(i, << n >>) = v
  <2>1. Map!Stack(<< n >>[1])[1] = ValueOf(i, << n >>)
    BY <1>1, <1>2, <1>9, FirstValue
  <2> QED BY <2>1
<1> QED BY <1>1, <1>9, <1>10 DEF Holds

-----------------------------------------------------------------------------
(* The invariant. Between chdir() and getcwd() no request waits, and        *)
(* working_directory is what the shell knows of where the cd came from. What*)
(* cd should have left in OLDPWD is there, or is what the next request sets *)
(* it to; no later request touches it.                                      *)

Untouched(s) == \A i \in DOMAIN s : ~Touches(s[i])

Going ==
    moving # << >> => pending = << >> /\ moving[1] = working_directory

HoldsLeft == Map!Stack("OLDPWD") # << >> /\ Map!Stack("OLDPWD")[1] = left

Claim ==
    alive /\ left # Gone =>
        \/ HoldsLeft /\ Untouched(pending)
        \/ /\ pending # << >> /\ Untouched(Tail(pending))
           /\ Head(pending) = Request("set", << "OLDPWD" >>, left)

LEMMA HeadUntouched ==
    ASSUME pending \in Seq(Requests), pending # << >>, Untouched(pending)
    PROVE  ~Touches(Head(pending)) /\ Untouched(Tail(pending))
<1>1. /\ Len(pending) \in Nat \ {0} /\ DOMAIN pending = 1 .. Len(pending)
      /\ Tail(pending) \in Seq(Requests) /\ Len(Tail(pending)) = Len(pending) - 1
      /\ \A i \in 1 .. Len(Tail(pending)) : Tail(pending)[i] = pending[i + 1]
      /\ DOMAIN Tail(pending) = 1 .. Len(Tail(pending))
  BY EmptySeq, LenProperties, HeadTailProperties
<1>2. Head(pending) = pending[1] /\ 1 \in DOMAIN pending
  BY <1>1 DEF Head
<1>3. \A i \in DOMAIN Tail(pending) : i + 1 \in DOMAIN pending
  BY <1>1
<1> QED BY <1>1, <1>2, <1>3 DEF Untouched

(* A step that leaves alone what the claim is about. *)
LEMMA ClaimKept ==
    ASSUME Claim, UNCHANGED << heap_env, alive, pending, left >>
    PROVE  Claim'
BY EnvKept, StackKept DEF Claim, HoldsLeft, Untouched, Touches

LEMMA RequestClaim ==
    ASSUME EnvInv, Claim, UNCHANGED left, pending # << >>, alive,
           SetStep \/ LevelStep \/ UnsetStep \/ ExportOther
    PROVE  Claim'
<1>1. CASE Crash
  BY <1>1 DEF Crash, Claim
<1>2. CASE ~Crash /\ left = Gone
  BY <1>2 DEF Claim
<1>3. CASE ~Crash /\ left # Gone
  <2>1. Map!Handle(Head(pending)) /\ pending' = Tail(pending)
    BY <1>3, RequestMap DEF Map!Advance
  <2>2. CASE HoldsLeft /\ Untouched(pending)
    <3>1. ~Touches(Head(pending)) /\ Untouched(Tail(pending))
      BY <2>2, HeadUntouched DEF EnvInv, TypeOK
    <3>2. Map!Stack("OLDPWD")' = Map!Stack("OLDPWD")
      BY <2>1, <3>1, HandleKeeps
    <3>3. Untouched(pending')
      BY <2>1, <3>1
    <3> QED BY <2>2, <3>2, <3>3 DEF Claim, HoldsLeft, Untouched, Touches
  <2>3. CASE /\ Untouched(Tail(pending))
             /\ Head(pending) = Request("set", << "OLDPWD" >>, left)
    <3> DEFINE s == << left >> \o Tail(IF Map!Stack("OLDPWD") = << >> THEN << left >>
                                       ELSE Map!Stack("OLDPWD"))
    <3>1. Map!Assign("OLDPWD", left)
      BY <2>1, <2>3 DEF Map!Handle, Request
    <3>2. s # << >> /\ s[1] = left
      <4>1. left \in Strings
        BY <2>3, TailGood, EnvironmentAssumption
           DEF EnvInv, TypeOK, GoodRequest, Request, IsKey, Strings
      <4>2. Map!Stack("OLDPWD") \in Seq(Strings)
        BY StackIs, TopStackType DEF EnvInv, TypeOK
      <4>3. PICK t \in Seq(Strings) : s = << left >> \o t
        <5>1. PICK u : u = IF Map!Stack("OLDPWD") = << >> THEN << left >> ELSE Map!Stack("OLDPWD")
          OBVIOUS
        <5>2. u \in Seq(Strings) /\ u # << >>
          BY <4>1, <4>2, <5>1
        <5>3. Tail(u) \in Seq(Strings)
          BY <5>2, HeadTailProperties
        <5> QED BY <5>1, <5>3
      <4> HIDE DEF s
      <4>4. /\ s \in Seq(Strings) /\ Len(s) = 1 + Len(t) /\ Len(t) \in Nat
            /\ s[1] = left
        BY <4>1, <4>3, ConcatProperties, LenProperties
      <4> QED BY <4>4, EmptySeq
    <3>3. Map!Stack("OLDPWD")' = s
      BY <3>1, <3>2, PutGives DEF Map!Assign
    <3>4. Untouched(pending')
      BY <2>1, <2>3
    <3> HIDE DEF s
    <3>5. HoldsLeft'
      BY <3>2, <3>3 DEF HoldsLeft
    <3> QED BY <3>4, <3>5 DEF Claim, Untouched, Touches
  <2> QED BY <1>3, <2>2, <2>3 DEF Claim
<1> QED BY <1>1, <1>2, <1>3

LEMMA StartClaim ==
    ASSUME Claim, NEW a, Start(a),
           left' = IF \E i \in DOMAIN pending' : Touches(pending'[i]) THEN Gone ELSE left
    PROVE  Claim'
<1>1. UNCHANGED << heap_env, alive >> /\ pending = << >>
  BY DEF Start
<1>2. CASE \E i \in DOMAIN pending' : Touches(pending'[i])
  BY <1>2 DEF Claim
<1>3. CASE ~\E i \in DOMAIN pending' : Touches(pending'[i])
  <2>1. UNCHANGED left
    BY <1>3
  <2>2. Untouched(pending)'
    BY <1>3 DEF Untouched, Touches
  <2>3. Map!Stack("OLDPWD")' = Map!Stack("OLDPWD")
    BY <1>1, EnvKept, StackKept
  <2>4. alive /\ left # Gone => HoldsLeft
    BY <1>1 DEF Claim
  <2> QED BY <1>1, <2>1, <2>2, <2>3, <2>4 DEF Claim, HoldsLeft
<1> QED BY <1>2, <1>3

LEMMA InitLeft == DirInit => Going /\ Claim
BY DEF DirInit, Going, Claim

LEMMA NextLeft ==
    EnvInv /\ PlacesOK /\ Believes /\ Going /\ Claim /\ [DirNext]_dirvars => (Going /\ Claim)'
<1> SUFFICES ASSUME EnvInv, PlacesOK, Believes, Going, Claim, [DirNext]_dirvars
             PROVE  (Going /\ Claim)'
  OBVIOUS
<1>1. ASSUME UNCHANGED << heap_env, alive, pending, left >>,
             UNCHANGED << moving, working_directory >> \/ moving' = << >>
      PROVE  (Going /\ Claim)'
  BY <1>1, ClaimKept DEF Going
<1>2. ASSUME AtPrompt, moving' = << Known >>,
             UNCHANGED << vars, working_directory, left >>
      PROVE  (Going /\ Claim)'
  <2>1. Known = working_directory
    BY <1>2 DEF AtPrompt, Believes
  <2>2. Going'
    BY <1>2, <2>1 DEF AtPrompt, Going, vars
  <2> QED BY <1>2, <2>2, ClaimKept DEF vars
<1>3. CASE Crash /\ UNCHANGED dvars
  BY <1>3 DEF Crash, dvars, Going, Claim
<1>4. CASE Other /\ UNCHANGED dvars
  BY <1>1, <1>4 DEF Other, dvars
<1>5. ASSUME NEW path, AtPrompt, Chdir(path) PROVE (Going /\ Claim)'
  BY <1>2, <1>4, <1>5 DEF Chdir, Fail
<1>6. CASE CdTo
  BY <1>5, <1>6 DEF CdTo
<1>7. CASE CdHere
  BY <1>2, <1>7 DEF CdHere
<1>8. CASE CdVariable
  <2>1. \/ Crash /\ UNCHANGED dvars
        \/ Other /\ UNCHANGED dvars
        \/ \E path : AtPrompt /\ Chdir(path)
    BY <1>8 DEF CdVariable, Fail
  <2> QED BY <1>3, <1>4, <1>5, <2>1
<1>9. CASE Getcwd
  <2>1. CASE Fail
    BY <1>1, <1>9, <2>1 DEF Getcwd, Fail, Other, Start
  <2>2. CASE Start(Moved(cwd)) /\ left' = moving[1]
    <3>1. moving # << >> /\ moving' = << >>
      BY <1>9 DEF Getcwd
    <3>2. left' = working_directory
      BY <2>2, <3>1 DEF Going
    <3>3. /\ pending' # << >>
          /\ Head(pending') = Request("set", << "OLDPWD" >>, working_directory)
          /\ Tail(pending') = << Request("set", << "PWD" >>, cwd) >>
      BY <2>2 DEF Start, Moved
    <3>4. Untouched(Tail(pending'))
      <4>1. PICK r : r = Request("set", << "PWD" >>, cwd)
        OBVIOUS
      <4>2. r.key = << "PWD" >>
        BY <4>1 DEF Request
      <4>3. << "PWD" >>[1] = "PWD" /\ "PWD" # "OLDPWD"
        OBVIOUS
      <4>4. ~Touches(r)
        BY <4>2, <4>3 DEF Touches
      <4>5. Tail(pending') = << r >> /\ \A i \in DOMAIN << r >> : << r >>[i] = r
        BY <3>3, <4>1
      <4> QED BY <4>4, <4>5 DEF Untouched
    <3>5. Claim'
      BY <3>2, <3>3, <3>4 DEF Claim, Untouched, Touches
    <3> QED BY <3>1, <3>5 DEF Going
  <2> QED BY <1>9, <2>1, <2>2 DEF Getcwd
<1>10. CASE Pwd
  BY <1>1, <1>10 DEF Pwd, Other, AtPrompt
<1>11. CASE OtherBuiltin
  BY <1>4, <1>11 DEF OtherBuiltin
<1>12. CASE Others
  BY <1>1, <1>12 DEF Others, vars
<1>13. CASE EnvStep
  <2>1. Going'
    BY <1>13 DEF EnvStep, Going
  <2>2. ASSUME pending = << >> PROVE Claim'
    <3>1. left' = IF \E i \in DOMAIN pending' : Touches(pending'[i]) THEN Gone ELSE left
      BY <1>13, <2>2 DEF EnvStep
    <3>2. ASSUME NEW a, Start(a) PROVE Claim'
      BY <3>1, <3>2, StartClaim
    <3>3. CASE List
      <4>1. CASE Crash
        BY <4>1 DEF Crash, Claim
      <4>2. CASE UNCHANGED << heap_env, alive, pending >>
        <5>1. UNCHANGED left
          BY <2>2, <3>1, <4>2
        <5>2. UNCHANGED << heap_env, alive, pending, left >>
          BY <4>2, <5>1
        <5> QED BY <5>2, ClaimKept
      <4> QED BY <3>3, <4>1, <4>2 DEF List
    <3> QED BY <1>13, <2>2, <3>2, <3>3
            DEF EnvStep, SetStep, LevelStep, UnsetStep, ExportOther, Export, Unset
  <2>3. ASSUME pending # << >> PROVE Claim'
    <3>1. /\ SetStep \/ LevelStep \/ UnsetStep \/ ExportOther
          /\ alive /\ UNCHANGED left
      BY <1>13, <2>3 DEF EnvStep, SetStep, LevelStep, UnsetStep, ExportOther,
                         Export, Unset, List, Start
    <3>2. /\ UNCHANGED left /\ pending # << >> /\ alive
          /\ SetStep \/ LevelStep \/ UnsetStep \/ ExportOther
      BY <2>3, <3>1
    <3>3. EnvInv /\ Claim
      OBVIOUS
    <3> QED BY <3>2, <3>3, RequestClaim
  <2> QED BY <2>1, <2>2, <2>3
<1>14. CASE UNCHANGED dirvars
  BY <1>1, <1>14 DEF dirvars, vars, dvars
<1> QED BY <1>6, <1>7, <1>8, <1>9, <1>10, <1>11, <1>12, <1>13, <1>14 DEF DirNext

(* Whatever other processes do to the directories, and whichever cds fail,  *)
(* working_directory and OLDPWD are what Believes and DirectoriesAgree say: *)
(* OLDPWD is where the last cd that succeeded started, as far as the shell  *)
(* could know, until an export or unset names it.                           *)
THEOREM DirectoriesCorrect == DirSpec => []DirectoriesAgree
<1>1. EnvInv /\ Believes /\ Claim => DirectoriesAgree
  <2> SUFFICES ASSUME EnvInv, Claim, AtPrompt, left # Gone PROVE Holds("OLDPWD", left)
    BY DEF DirectoriesAgree
  <2>1. HoldsLeft
    BY DEF Claim, AtPrompt
  <2>2. EntriesOK(heap_env) /\ "OLDPWD" \in Parts
    BY EnvironmentAssumption DEF EnvInv, TypeOK
  <2> QED BY <2>1, <2>2, HoldsFirst DEF HoldsLeft
<1>2. DirSpec => []EnvInv
  BY ImplementsEnvironment, EnvInvariant, PTL
<1>3. DirSpec => [](Going /\ Claim)
  BY <1>2, PlacesInvariant, InitLeft, NextLeft, PTL DEF DirSpec, dirvars
<1> QED BY <1>1, <1>2, <1>3, PlacesInvariant, PTL

==============================================================================
