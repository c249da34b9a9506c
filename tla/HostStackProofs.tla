-------------------------- MODULE HostStackProofs --------------------------
(***************************************************************************)
(* What TLAPS proves of HostStack, for any number of threads, whatever the *)
(* host and the bundle hold: the type; that a target is loaded only once   *)
(* the global-scope set has been asked for; that the target is the right   *)
(* one; that whoever may use libva finds its list in place; and, of the    *)
(* conf files of HostConf, that the walk which leads the search to the     *)
(* host's directories finds all that they name.                            *)
(***************************************************************************)
EXTENDS HostConf, SequenceTheorems, InductionLemmas

Labels  == {"off", "boot", "idle", "va", "va_scan", "va_list", "set",
            "set_begin", "set_next", "choose", "bundled_env", "bundled",
            "host", "alt", "rest", "last_env", "last", "adopt", "may_use"}
Returns == {"boot", "idle", "va", "set_next", "choose", "adopt", "may_use"}
Resting == {"off", "boot", "idle"}

\* A thread has returns ahead of it unless it rests, and the last of them, and
\* no other, is to a place where it rests.
ShapeInv ==
  \A t \in Threads :
    /\ pc[t] \in Resting <=> back[t] = <<>>
    /\ \A i \in 1 .. Len(back[t]) :
         back[t][i] \in {"boot", "idle"} <=> i = Len(back[t])

TypeInv == TypeOK /\ world \in Worlds /\ ShapeInv
-----------------------------------------------------------------------------
\* A return put in front of a stack of returns.
LEMMA PushFacts ==
  ASSUME NEW S, NEW s \in Seq(S), NEW x \in S
  PROVE  /\ <<x>> \o s \in Seq(S) /\ <<x>> \o s # <<>>
         /\ Len(<<x>> \o s) = Len(s) + 1
         /\ (<<x>> \o s)[1] = x
         /\ \A i \in 2 .. Len(s) + 1 : (<<x>> \o s)[i] = s[i - 1]
         /\ ToSet(<<x>> \o s) = {x} \cup ToSet(s)
<1> DEFINE p == <<x>> \o s
<1>1. p \in Seq(S) /\ Len(p) = Len(s) + 1 /\ p[1] = x
  OBVIOUS
<1>2. \A i \in 2 .. Len(s) + 1 : p[i] = s[i - 1]
  OBVIOUS
<1>3. ToSet(p) = {x} \cup ToSet(s)
  <2>1. DOMAIN p = 1 .. Len(s) + 1 /\ DOMAIN s = 1 .. Len(s) /\ Len(s) \in Nat
    BY <1>1
  <2>2. \A i \in DOMAIN s : p[i + 1] = s[i] /\ i + 1 \in DOMAIN p
    BY <1>2, <2>1
  <2>3. \A i \in DOMAIN p : i = 1 \/ (i - 1 \in DOMAIN s /\ p[i] = s[i - 1])
    BY <1>2, <2>1
  <2> HIDE DEF p
  <2>4. 1 \in DOMAIN p
    BY <2>1
  <2>5. ASSUME NEW y \in ToSet(p) PROVE y \in {x} \cup ToSet(s)
    BY <1>1, <2>3 DEF ToSet
  <2>6. ASSUME NEW y \in {x} \cup ToSet(s) PROVE y \in ToSet(p)
    BY <1>1, <2>2, <2>4 DEF ToSet
  <2> QED  BY <2>5, <2>6
<1>4. p # <<>>
  BY <1>1
<1> QED  BY <1>1, <1>2, <1>3, <1>4

\* A stack of returns without its first.
LEMMA PopFacts ==
  ASSUME NEW S, NEW s \in Seq(S), s # <<>>
  PROVE  /\ Tail(s) \in Seq(S) /\ Len(Tail(s)) = Len(s) - 1
         /\ Len(s) \in Nat \ {0} /\ Head(s) = s[1] /\ Head(s) \in S
         /\ \A i \in 1 .. Len(s) - 1 : Tail(s)[i] = s[i + 1]
         /\ ToSet(s) = {Head(s)} \cup ToSet(Tail(s))
         /\ Tail(s) = <<>> <=> Len(s) = 1
<1>1. /\ Tail(s) \in Seq(S) /\ Len(Tail(s)) = Len(s) - 1
      /\ Len(s) \in Nat \ {0} /\ Head(s) = s[1] /\ Head(s) \in S
  OBVIOUS
<1>2. \A i \in 1 .. Len(s) - 1 : Tail(s)[i] = s[i + 1]
  OBVIOUS
<1>3. DOMAIN s = 1 .. Len(s) /\ DOMAIN Tail(s) = 1 .. Len(s) - 1
  BY <1>1
<1>4. \A i \in DOMAIN s : i = 1 \/ (i - 1 \in DOMAIN Tail(s) /\ s[i] = Tail(s)[i - 1])
  BY <1>1, <1>2, <1>3
<1>5. \A i \in DOMAIN Tail(s) : i + 1 \in DOMAIN s /\ Tail(s)[i] = s[i + 1]
  BY <1>1, <1>2, <1>3
<1>6. 1 \in DOMAIN s
  BY <1>1, <1>3
<1>7. ToSet(s) = {Head(s)} \cup ToSet(Tail(s))
  <2>1. ASSUME NEW y \in ToSet(s) PROVE y \in {Head(s)} \cup ToSet(Tail(s))
    BY <1>1, <1>4 DEF ToSet
  <2>2. ASSUME NEW y \in {Head(s)} \cup ToSet(Tail(s)) PROVE y \in ToSet(s)
    BY <1>1, <1>5, <1>6 DEF ToSet
  <2> QED  BY <2>1, <2>2
<1>8. Tail(s) = <<>> <=> Len(s) = 1
  <2>1. Tail(s) = <<>> <=> Len(Tail(s)) = 0
    BY <1>1, EmptySeq
  <2> QED  BY <1>1, <2>1
<1> QED  BY <1>1, <1>2, <1>7, <1>8

\* The four ways a step moves its thread: into a dlopen or past a failed one,
\* back to where it was called from, on, and out of rest.
Moved(t) ==
  /\ pc' \in [Threads -> Labels] /\ back' \in [Threads -> Seq(Returns)]
  /\ ShapeInv'
  /\ \A u \in Threads \ {t} : pc'[u] = pc[u] /\ back'[u] = back[u]

\* A dlopen that succeeds enters cld_va_setup with a place to return to; one
\* that fails goes on.
LEMMA OpenTypes ==
  ASSUME TypeInv, NEW t \in Threads, NEW object, NEW loads,
         NEW there \in Returns \ {"boot", "idle"},
         NEW otherwise \in Labels \ Resting, pc[t] \notin Resting,
         Open(t, object, loads, there, otherwise)
  PROVE  Moved(t) /\ loaded' \subseteq loaded \cup {object}
<1>1. /\ pc \in [Threads -> Labels] /\ back \in [Threads -> Seq(Returns)]
      /\ ShapeInv
  BY DEF TypeInv, TypeOK, Labels, Returns
<1>2. CASE loads
  <2>1. /\ pc' = [pc EXCEPT ![t] = "va"] /\ loaded' = loaded \cup {object}
        /\ back' = [back EXCEPT ![t] = <<there>> \o @]
    BY <1>2 DEF Open, Goto
  <2> DEFINE s == back[t]
             p == <<there>> \o s
  <2>2. /\ p \in Seq(Returns) /\ p # <<>> /\ Len(p) = Len(s) + 1 /\ p[1] = there
        /\ \A i \in 2 .. Len(s) + 1 : p[i] = s[i - 1]
    BY <1>1, PushFacts
  <2>3. s \in Seq(Returns) /\ s # <<>>
    BY <1>1 DEF ShapeInv
  <2>4. Len(s) \in Nat \ {0}
    BY <2>3
  <2>5. back'[t] = p /\ pc'[t] = "va" /\ \A u \in Threads \ {t} : pc'[u] = pc[u] /\ back'[u] = back[u]
    BY <1>1, <2>1
  <2>6. \A i \in 1 .. Len(s) : s[i] \in {"boot", "idle"} <=> i = Len(s)
    BY <1>1 DEF ShapeInv
  <2> HIDE DEF p, s
  <2>7. \A i \in 1 .. Len(p) : p[i] \in {"boot", "idle"} <=> i = Len(p)
    <3> SUFFICES ASSUME NEW i \in 1 .. Len(p)
                 PROVE  p[i] \in {"boot", "idle"} <=> i = Len(p)
      OBVIOUS
    <3>1. CASE i = 1
      BY <2>2, <2>4, <3>1
    <3>2. CASE i # 1
      <4>1. i \in 2 .. Len(s) + 1 /\ i - 1 \in 1 .. Len(s)
        BY <2>2, <2>4, <3>2
      <4> QED  BY <2>2, <2>4, <2>6, <4>1
    <3> QED  BY <3>1, <3>2
  <2>8. ShapeInv'
    BY <1>1, <2>2, <2>5, <2>7 DEF ShapeInv, Resting
  <2>9. pc' \in [Threads -> Labels] /\ back' \in [Threads -> Seq(Returns)]
    BY <1>1, <2>1, <2>2 DEF Labels, p, s
  <2> QED  BY <2>1, <2>5, <2>8, <2>9 DEF Moved
<1>3. CASE ~loads
  <2>1. /\ pc' = [pc EXCEPT ![t] = otherwise] /\ loaded' = loaded /\ back' = back
    BY <1>3 DEF Open, Goto
  <2> QED  BY <1>1, <2>1 DEF ShapeInv, Moved
<1> QED  BY <1>2, <1>3

\* A return takes one place off the stack.
LEMMA ReturnTypes ==
  ASSUME TypeInv, NEW t \in Threads, pc[t] \notin Resting, Return(t)
  PROVE  /\ Moved(t)
         /\ pc'[t] = Head(back[t]) /\ back'[t] = Tail(back[t])
         /\ ToSet(back[t]) = {pc'[t]} \cup ToSet(back'[t])
<1>1. /\ pc \in [Threads -> Labels] /\ back \in [Threads -> Seq(Returns)]
      /\ ShapeInv
  BY DEF TypeInv, TypeOK, Labels, Returns
<1> DEFINE s == back[t]
<1>2. s \in Seq(Returns) /\ s # <<>>
  BY <1>1 DEF ShapeInv
<1>3. \A i \in 1 .. Len(s) : s[i] \in {"boot", "idle"} <=> i = Len(s)
  BY <1>1 DEF ShapeInv
<1>4. /\ pc' = [pc EXCEPT ![t] = Head(s)] /\ back' = [back EXCEPT ![t] = Tail(s)]
  BY DEF Return, Goto
<1> HIDE DEF s
<1>5. /\ Tail(s) \in Seq(Returns) /\ Len(Tail(s)) = Len(s) - 1
      /\ Len(s) \in Nat \ {0} /\ Head(s) = s[1] /\ Head(s) \in Returns
      /\ \A i \in 1 .. Len(s) - 1 : Tail(s)[i] = s[i + 1]
      /\ ToSet(s) = {Head(s)} \cup ToSet(Tail(s))
      /\ Tail(s) = <<>> <=> Len(s) = 1
  BY <1>2, PopFacts
<1>6. /\ pc'[t] = Head(s) /\ back'[t] = Tail(s)
      /\ \A u \in Threads \ {t} : pc'[u] = pc[u] /\ back'[u] = back[u]
  BY <1>1, <1>4
<1>7. pc'[t] \in Resting <=> back'[t] = <<>>
  <2>1. Head(s) \in Resting <=> Head(s) \in {"boot", "idle"}
    BY <1>5 DEF Returns, Resting
  <2>2. Head(s) \in {"boot", "idle"} <=> Len(s) = 1
    <3>1. 1 \in 1 .. Len(s)
      BY <1>5
    <3>2. s[1] \in {"boot", "idle"} <=> 1 = Len(s)
      BY <1>3, <3>1
    <3> QED  BY <1>5, <3>2
  <2> QED  BY <1>5, <1>6, <2>1, <2>2
<1>8. \A i \in 1 .. Len(back'[t]) : back'[t][i] \in {"boot", "idle"} <=> i = Len(back'[t])
  <2> SUFFICES ASSUME NEW i \in 1 .. Len(Tail(s))
               PROVE  Tail(s)[i] \in {"boot", "idle"} <=> i = Len(Tail(s))
    BY <1>6
  <2>1. i \in 1 .. Len(s) - 1 /\ i + 1 \in 1 .. Len(s)
    BY <1>5
  <2>2. s[i + 1] \in {"boot", "idle"} <=> i + 1 = Len(s)
    BY <1>3, <2>1
  <2>3. Tail(s)[i] = s[i + 1]
    BY <1>5, <2>1
  <2>4. i + 1 = Len(s) <=> i = Len(Tail(s))
    BY <1>5, <2>1
  <2> QED  BY <2>2, <2>3, <2>4
<1>9. ShapeInv'
  <2> SUFFICES ASSUME NEW u \in Threads
               PROVE  /\ pc'[u] \in Resting <=> back'[u] = <<>>
                      /\ \A i \in 1 .. Len(back'[u]) :
                           back'[u][i] \in {"boot", "idle"} <=> i = Len(back'[u])
    BY DEF ShapeInv
  <2>1. CASE u = t
    BY <1>7, <1>8, <2>1
  <2>2. CASE u # t
    <3>1. pc'[u] = pc[u] /\ back'[u] = back[u]
      BY <1>6, <2>2
    <3> QED  BY <1>1, <3>1 DEF ShapeInv
  <2> QED  BY <2>1, <2>2
<1>10. pc' \in [Threads -> Labels] /\ back' \in [Threads -> Seq(Returns)]
  BY <1>1, <1>4, <1>5 DEF Labels, Returns
<1> QED  BY <1>5, <1>6, <1>9, <1>10 DEF Moved, s

\* A thread that goes on without a call or a return.
LEMMA GotoTypes ==
  ASSUME TypeInv, NEW t \in Threads, NEW there \in Labels,
         pc[t] \in Resting <=> there \in Resting,
         Goto(t, there), UNCHANGED back
  PROVE  Moved(t) /\ pc'[t] = there /\ back'[t] = back[t]
BY DEF TypeInv, TypeOK, ShapeInv, Moved, Goto, Labels, Returns

\* A resting thread that enters the library, with what it returns to.
LEMMA EnterTypes ==
  ASSUME TypeInv, NEW t \in Threads, NEW there \in Labels \ Resting,
         NEW s \in Seq(Returns), s # <<>>, pc[t] \in Resting,
         \A i \in 1 .. Len(s) : s[i] \in {"boot", "idle"} <=> i = Len(s),
         Goto(t, there), back' = [back EXCEPT ![t] = s]
  PROVE  Moved(t) /\ pc'[t] = there /\ back'[t] = s
<1>1. /\ pc \in [Threads -> Labels] /\ back \in [Threads -> Seq(Returns)]
      /\ ShapeInv
  BY DEF TypeInv, TypeOK, Labels, Returns
<1>3. /\ pc' = [pc EXCEPT ![t] = there] /\ pc'[t] = there /\ back'[t] = s
      /\ \A u \in Threads \ {t} : pc'[u] = pc[u] /\ back'[u] = back[u]
  BY <1>1 DEF Goto
<1>4. ShapeInv'
  BY <1>1, <1>3 DEF ShapeInv
<1>5. pc' \in [Threads -> Labels] /\ back' \in [Threads -> Seq(Returns)]
  BY <1>1, <1>3
<1> QED  BY <1>3, <1>4, <1>5 DEF Moved
-----------------------------------------------------------------------------
(* The type.                                                               *)

\* The search for a soname ends in a directory or in none.
LEMMA FoundTypes ==
  ASSUME NEW w \in Worlds, NEW files
  PROVE  Found(w, files) \in Dirs \cup {None}
<1> DEFINE firsts == {i \in DOMAIN Places(w) : First(w, files, i)}
<1>1. Places(w) \in Seq(Dirs)
  BY WorldsAssumption
<1>2. CASE firsts = {}
  BY <1>2 DEF Found
<1>3. CASE firsts # {}
  <2>1. (CHOOSE i \in firsts : TRUE) \in DOMAIN Places(w)
    BY <1>3
  <2>2. \A i \in DOMAIN Places(w) : Places(w)[i] \in Dirs
    BY <1>1
  <2>3. Found(w, files) = Places(w)[CHOOSE i \in firsts : TRUE]
    BY <1>3 DEF Found
  <2> QED  BY <2>1, <2>2, <2>3
<1> QED  BY <1>2, <1>3

\* The initial state has the types, and every thread rests.
LEMMA TypeInit == Init => TypeInv
<1> SUFFICES ASSUME Init PROVE TypeInv
  OBVIOUS
<1>1. /\ pc = [t \in Threads |-> IF t = Main THEN "boot" ELSE "off"]
      /\ back = [t \in Threads |-> <<>>]
  BY DEF Init
<1>2. ShapeInv
  BY <1>1 DEF ShapeInv, Resting
<1>3. TypeOK
  <2>1. pc \in [Threads -> Labels]
    BY <1>1 DEF Labels
  <2>2. back \in [Threads -> Seq(Returns)]
    BY <1>1
  <2>3. libs \in [Threads -> Seq(ToSet(SetLibs))]
    BY DEF Init
  <2>4. /\ setDone \in BOOLEAN /\ vaDone \in BOOLEAN /\ tried = {}
        /\ loaded \subseteq {Libva} /\ glState = 0 /\ users = {}
        /\ opened = Nothing /\ target = Nothing
    BY DEF Init
  <2> QED  BY <2>1, <2>2, <2>3, <2>4 DEF TypeOK, Labels, Returns
<1>4. world \in Worlds
  BY DEF Init
<1> QED  BY <1>2, <1>3, <1>4 DEF TypeInv

\* The variables other than the place of a thread.
DataOK ==
  /\ libs \in [Threads -> Seq(ToSet(SetLibs))]
  /\ setDone \in BOOLEAN /\ vaDone \in BOOLEAN
  /\ tried \subseteq ToSet(SetLibs)
  /\ loaded \subseteq Targets \cup {Libva, SetLib, Shim}
  /\ glState \in 0 .. 2
  /\ opened \in Targets \cup {Nothing, Shim}
  /\ target \in Targets \cup {Nothing}
  /\ users \subseteq Threads
  /\ world \in Worlds

\* The type is that of the data and that of one thread that moves.
LEMMA TypeParts ==
  /\ TypeInv => DataOK
  /\ \A t \in Threads : DataOK' /\ Moved(t) => TypeInv'
BY DEF TypeInv, TypeOK, DataOK, Moved, Labels, Returns

\* The steps of cld_va_setup keep the types.
LEMMA VaTypes ==
  ASSUME TypeInv, NEW t \in Threads, VaTest(t) \/ VaScan(t) \/ VaList(t)
  PROVE  DataOK' /\ Moved(t)
<1>1. DataOK
  BY TypeParts
<1>2. DataOK'
  BY <1>1 DEF DataOK, VaTest, VaScan, VaList, setVars, glVars, vaVars
<1>3. pc[t] \notin Resting
  BY DEF VaTest, VaScan, VaList, At, Resting
<1>4. Return(t) \/ \E there \in Labels \ Resting : Goto(t, there) /\ UNCHANGED back
  BY DEF VaTest, VaScan, VaList, Labels, Resting
<1> QED  BY <1>2, <1>3, <1>4, ReturnTypes, GotoTypes

\* The steps of cld_load_global_scope_libs keep the types.
LEMMA SetTypes ==
  ASSUME TypeInv, NEW t \in Threads,
         SetTest(t) \/ SetBegin(t) \/ SetNext(t) \/ SetEnd(t)
  PROVE  DataOK' /\ Moved(t)
<1>1. DataOK
  BY TypeParts
<1>2. pc[t] \notin Resting
  BY DEF SetTest, SetBegin, SetNext, SetEnd, At, Resting
<1>3. CASE SetTest(t) \/ SetEnd(t)
  <2>1. DataOK'
    BY <1>1, <1>3 DEF DataOK, SetTest, SetEnd, setVars, glVars, vaVars
  <2>2. Return(t) \/ \E there \in Labels \ Resting : Goto(t, there) /\ UNCHANGED back
    BY <1>3 DEF SetTest, SetEnd, Labels, Resting
  <2> QED  BY <1>2, <2>1, <2>2, ReturnTypes, GotoTypes
<1>4. CASE SetBegin(t)
  <2>1. libs' \in [Threads -> Seq(ToSet(SetLibs))]
    BY <1>1, <1>4, SetLibsAssumption DEF DataOK, SetBegin
  <2>2. DataOK'
    BY <1>1, <1>4, <2>1 DEF DataOK, SetBegin, glVars, vaVars
  <2>3. Return(t) \/ \E there \in Labels \ Resting : Goto(t, there) /\ UNCHANGED back
    BY <1>4 DEF SetBegin, Labels, Resting
  <2> QED  BY <1>2, <2>2, <2>3, ReturnTypes, GotoTypes
<1>5. CASE SetNext(t)
  <2> DEFINE lib == Head(libs[t])
  <2>1. libs[t] \in Seq(ToSet(SetLibs)) /\ libs[t] # <<>>
    BY <1>1, <1>5 DEF DataOK, SetNext
  <2>2. lib \in ToSet(SetLibs) /\ Tail(libs[t]) \in Seq(ToSet(SetLibs))
    BY <2>1, PopFacts
  <2>3. /\ tried' = tried \cup {lib} /\ libs' = [libs EXCEPT ![t] = Tail(@)]
        /\ Open(t, SetLib, lib \in world.set, "set_next", "set_next")
        /\ UNCHANGED <<world, setDone, glVars, vaVars>>
    BY <1>5 DEF SetNext
  <2> HIDE DEF lib
  <2>4. Moved(t) /\ loaded' \subseteq loaded \cup {SetLib}
    BY <1>2, <2>3, OpenTypes DEF Returns, Labels, Resting
  <2>5. DataOK'
    BY <1>1, <2>2, <2>3, <2>4 DEF DataOK, glVars, vaVars
  <2> QED  BY <2>4, <2>5
<1> QED  BY <1>3, <1>4, <1>5

\* Opening one candidate keeps the types.
LEMMA OpenTargetTypes ==
  ASSUME TypeInv, NEW t \in Threads, NEW object \in Targets, NEW file,
         NEW otherwise \in {"host", "rest", "alt", "adopt"}, pc[t] \notin Resting,
         OpenTarget(t, object, file, otherwise)
  PROVE  DataOK' /\ Moved(t)
<1> DEFINE got == IF file = "self" THEN Shim ELSE object
<1>1. /\ Open(t, got, file \in {"good", "self"}, "adopt", otherwise)
      /\ opened' = IF file \in {"good", "self"} THEN got ELSE opened
      /\ UNCHANGED <<world, libs, setDone, tried, glState, target, vendors,
                     vaDone, vaPath, users>>
  BY DEF OpenTarget, setVars, vaVars
<1>2. got \in Targets \cup {Shim}
  OBVIOUS
<1> HIDE DEF got
<1>3. Moved(t) /\ loaded' \subseteq loaded \cup {got}
  BY <1>1, OpenTypes DEF Returns, Labels, Resting
<1>4. DataOK
  BY TypeParts
<1> QED  BY <1>1, <1>2, <1>3, <1>4 DEF DataOK

\* The steps of glfwd_load_target keep the types.
LEMMA GlTypes ==
  ASSUME TypeInv, NEW t \in Threads,
         \/ Choose(t) \/ SetVendors(t) \/ OpenBundled(t) \/ OpenHost(t)
         \/ OpenAlt(t) \/ Rest(t) \/ OpenLast(t) \/ Adopt(t)
  PROVE  DataOK' /\ Moved(t)
<1>1. DataOK
  BY TypeParts
<1>2. pc[t] \notin Resting
  BY DEF Choose, SetVendors, OpenBundled, OpenHost, OpenAlt, Rest, OpenLast,
         Adopt, At, Resting
<1>3. ASSUME NEW there \in Labels \ Resting, Miss(t, there)
      PROVE  DataOK' /\ Moved(t)
  <2>1. DataOK'
    BY <1>1, <1>3 DEF DataOK, Miss, setVars, glVars, vaVars
  <2>2. Goto(t, there) /\ UNCHANGED back
    BY <1>3 DEF Miss
  <2> QED  BY <1>2, <2>1, <2>2, GotoTypes
<1>4. CASE Choose(t) \/ SetVendors(t)
  <2>1. DataOK'
    BY <1>1, <1>4 DEF DataOK, Choose, SetVendors, setVars, glVars, vaVars
  <2>2. \E there \in Labels \ Resting : Goto(t, there) /\ UNCHANGED back
    BY <1>4 DEF Choose, SetVendors, Labels, Resting
  <2> QED  BY <1>2, <2>1, <2>2, GotoTypes
<1>5. CASE OpenBundled(t) \/ OpenLast(t)
  BY <1>2, <1>5, OpenTargetTypes DEF OpenBundled, OpenLast, Targets
<1>6. CASE OpenHost(t) \/ OpenAlt(t)
  <2> DEFINE d == Found(world, world.lib)
             e == Found(world, world.alt)
  <2>1. d \in Dirs \cup {None} /\ e \in Dirs \cup {None}
    BY <1>1, FoundTypes DEF DataOK
  <2>2. \/ Miss(t, "alt") \/ Miss(t, "rest")
        \/ d # None /\ OpenTarget(t, Host(d), world.lib[d], "alt")
        \/ e # None /\ OpenTarget(t, Alt(e), world.alt[e], "rest")
    BY <1>6 DEF OpenHost, OpenAlt
  <2> HIDE DEF d, e
  <2>3. d # None => Host(d) \in Targets
    BY <2>1 DEF Targets
  <2>4. e # None => Alt(e) \in Targets
    BY <2>1 DEF Targets
  <2>5. {"alt", "rest"} \subseteq Labels \ Resting
    BY DEF Labels, Resting
  <2> QED  BY <1>2, <1>3, <2>2, <2>3, <2>4, <2>5, OpenTargetTypes
<1>7. CASE Rest(t)
  <2>1. {"last_env", "adopt"} \subseteq Labels \ Resting
    BY DEF Labels, Resting
  <2> QED  BY <1>3, <1>7, <2>1 DEF Rest
<1>8. CASE Adopt(t)
  <2>1. DataOK'
    BY <1>1, <1>8 DEF DataOK, Adopt, setVars, vaVars
  <2> QED  BY <1>2, <1>8, <2>1, ReturnTypes DEF Adopt
<1> QED  BY <1>4, <1>5, <1>6, <1>7, <1>8

\* The steps of the application and of the constructors keep the types.
LEMMA AppTypes ==
  ASSUME TypeInv, NEW t \in Threads,
         \/ Draw(t) \/ Construct(t) \/ Start(t) \/ LoadVa(t) \/ LoadOther(t)
         \/ MayUse(t)
  PROVE  DataOK' /\ Moved(t)
<1>1. DataOK /\ pc \in [Threads -> Labels]
  BY TypeParts DEF TypeInv, TypeOK, Labels
<1>2. CASE Draw(t)
  <2>1. DataOK'
    BY <1>1, <1>2 DEF DataOK, Draw, setVars, vaVars
  <2> DEFINE s == <<"choose", pc[t]>>
  <2>2. pc[t] \in {"boot", "idle"} /\ Goto(t, "set") /\ back' = [back EXCEPT ![t] = s]
    BY <1>2 DEF Draw
  <2>3. /\ s \in Seq(Returns) /\ Len(s) = 2
        /\ \A i \in 1 .. 2 : s[i] \in {"boot", "idle"} <=> i = 2
    BY <2>2 DEF Returns
  <2> HIDE DEF s
  <2>4. /\ s # <<>>
        /\ \A i \in 1 .. Len(s) : s[i] \in {"boot", "idle"} <=> i = Len(s)
    BY <2>3
  <2>5. pc[t] \in Resting /\ "set" \in Labels \ Resting
    BY <2>2 DEF Labels, Resting
  <2> QED  BY <2>1, <2>2, <2>3, <2>4, <2>5, EnterTypes
<1>3. CASE Construct(t)
  <2>1. DataOK'
    BY <1>1, <1>3 DEF DataOK, Construct, setVars, glVars, vaVars
  <2> DEFINE s == <<"va", "may_use", "idle">>
             q == <<"va", "idle">>
  <2>2. /\ pc[t] = "boot" /\ Goto(t, "set")
        /\ back' = [back EXCEPT ![t] = s] \/ back' = [back EXCEPT ![t] = q]
    BY <1>3 DEF Construct, At
  <2>3. /\ s \in Seq(Returns) /\ Len(s) = 3
        /\ \A i \in 1 .. 3 : s[i] \in {"boot", "idle"} <=> i = 3
    BY DEF Returns
  <2>4. /\ q \in Seq(Returns) /\ Len(q) = 2
        /\ \A i \in 1 .. 2 : q[i] \in {"boot", "idle"} <=> i = 2
    BY DEF Returns
  <2> HIDE DEF s, q
  <2>5. /\ s # <<>>
        /\ \A i \in 1 .. Len(s) : s[i] \in {"boot", "idle"} <=> i = Len(s)
    BY <2>3
  <2>7. /\ q # <<>>
        /\ \A i \in 1 .. Len(q) : q[i] \in {"boot", "idle"} <=> i = Len(q)
    BY <2>4
  <2>6. pc[t] \in Resting /\ "set" \in Labels \ Resting
    BY <2>2 DEF Labels, Resting
  <2> QED  BY <2>1, <2>2, <2>3, <2>4, <2>5, <2>6, <2>7, EnterTypes
<1>4. CASE Start(t)
  <2>1. DataOK'
    BY <1>1, <1>4 DEF DataOK, Start, setVars, glVars, vaVars
  <2>2. pc[t] = "off" /\ Goto(t, "idle") /\ UNCHANGED back
    BY <1>4 DEF Start, At
  <2> QED  BY <2>1, <2>2, GotoTypes DEF Labels, Resting
<1>5. CASE LoadVa(t)
  <2>1. DataOK'
    BY <1>1, <1>5 DEF DataOK, LoadVa, setVars, glVars, vaVars
  <2> DEFINE s == <<"may_use", pc[t]>>
  <2>2. pc[t] \in {"boot", "idle"} /\ Goto(t, "va") /\ back' = [back EXCEPT ![t] = s]
    BY <1>5 DEF LoadVa
  <2>3. /\ s \in Seq(Returns) /\ Len(s) = 2
        /\ \A i \in 1 .. 2 : s[i] \in {"boot", "idle"} <=> i = 2
    BY <2>2 DEF Returns
  <2> HIDE DEF s
  <2>4. /\ s # <<>>
        /\ \A i \in 1 .. Len(s) : s[i] \in {"boot", "idle"} <=> i = Len(s)
    BY <2>3
  <2>5. pc[t] \in Resting /\ "va" \in Labels \ Resting
    BY <2>2 DEF Labels, Resting
  <2> QED  BY <2>1, <2>2, <2>3, <2>4, <2>5, EnterTypes
<1>6. CASE LoadOther(t)
  <2>1. DataOK'
    BY <1>1, <1>6 DEF DataOK, LoadOther, setVars, glVars, vaVars
  <2> DEFINE s == <<pc[t]>>
  <2>2. pc[t] \in {"boot", "idle"} /\ Goto(t, "va") /\ back' = [back EXCEPT ![t] = s]
    BY <1>6 DEF LoadOther
  <2>3. /\ s \in Seq(Returns) /\ Len(s) = 1
        /\ \A i \in 1 .. 1 : s[i] \in {"boot", "idle"} <=> i = 1
    BY <2>2 DEF Returns
  <2> HIDE DEF s
  <2>4. /\ s # <<>>
        /\ \A i \in 1 .. Len(s) : s[i] \in {"boot", "idle"} <=> i = Len(s)
    BY <2>3
  <2>5. pc[t] \in Resting /\ "va" \in Labels \ Resting
    BY <2>2 DEF Labels, Resting
  <2> QED  BY <2>1, <2>2, <2>3, <2>4, <2>5, EnterTypes
<1>7. CASE MayUse(t)
  <2>1. DataOK'
    BY <1>1, <1>7 DEF DataOK, MayUse, setVars, glVars
  <2> QED  BY <1>7, <2>1, ReturnTypes DEF MayUse, At, Resting
<1> QED  BY <1>2, <1>3, <1>4, <1>5, <1>6, <1>7

\* Every step is one thread's, and keeps the types.
LEMMA TypeStep ==
  ASSUME TypeInv, NEW t \in Threads, Step(t)
  PROVE  TypeInv' /\ Moved(t)
<1>1. DataOK' /\ Moved(t)
  BY VaTypes, SetTypes, GlTypes, AppTypes DEF Step
<1> QED  BY <1>1, TypeParts

\* The type is inductive.
LEMMA TypeNext == TypeInv /\ [Next]_vars => TypeInv'
<1> SUFFICES ASSUME TypeInv, [Next]_vars PROVE TypeInv'
  OBVIOUS
<1>1. CASE Next
  BY <1>1, TypeStep DEF Next
<1>2. CASE UNCHANGED vars
  BY <1>2 DEF vars, setVars, glVars, vaVars, TypeInv, TypeOK, ShapeInv, Resting
<1> QED  BY <1>1, <1>2

\* The variables keep their types, whatever the threads do and the host holds.
THEOREM TypeCorrect == Spec => []TypeOK
<1>1. TypeInv => TypeOK
  BY DEF TypeInv
<1> QED  BY <1>1, TypeInit, TypeNext, PTL DEF Spec
-----------------------------------------------------------------------------
(* The global-scope set.                                                   *)

Libs == ToSet(SetLibs)

\* The places a thread comes to only after its init_now, and those it will.
Stages == {"choose", "bundled_env", "bundled", "host", "alt", "rest",
           "last_env", "last", "adopt"}
AfterSet(t) ==
  \/ pc[t] \in Stages \/ "adopt" \in ToSet(back[t])
  \/ "choose" \in ToSet(back[t]) /\ pc[t] \notin {"set", "set_begin"}

\* What a thread in the loop has not asked for yet it still has on its list;
\* and once `done' is set everything is asked for or a thread is in the loop.
SetInv ==
  /\ \A t \in Threads : InSet(t) => Libs \subseteq tried \cup ToSet(libs[t])
  /\ setDone /\ world.cross => tried = Libs \/ \E t \in Threads : InSet(t)
  /\ \A t \in Threads : AfterSet(t) => setDone

\* Nothing of the set is asked for, and nobody has begun.
LEMMA SetInit == Init => SetInv
<1> SUFFICES ASSUME Init PROVE SetInv
  OBVIOUS
<1>1. \A t \in Threads : pc[t] \in {"boot", "off"} /\ back[t] = <<>>
  BY DEF Init
<1>2. \A t \in Threads : ToSet(back[t]) = {}
  BY <1>1 DEF ToSet
<1>3. setDone = FALSE
  BY DEF Init
<1> QED  BY <1>1, <1>2, <1>3 DEF SetInv, InSet, AfterSet, At, Stages

\* A step of t that leaves the set alone, neither takes t out of the loop nor
\* past an init_now that has not run.
LEMMA SetQuiet ==
  ASSUME TypeInv, SetInv, NEW t \in Threads, Moved(t),
         UNCHANGED <<world, setVars>>,
         InSet(t)' <=> InSet(t), AfterSet(t)' => AfterSet(t) \/ setDone
  PROVE  SetInv'
<1>1. \A u \in Threads \ {t} : /\ InSet(u)' <=> InSet(u)
                               /\ AfterSet(u)' <=> AfterSet(u)
  BY DEF Moved, InSet, AfterSet, At
<1>2. tried' = tried /\ setDone' = setDone /\ libs' = libs /\ world' = world
  BY DEF setVars
<1>3. \A u \in Threads : InSet(u)' => Libs \subseteq tried' \cup ToSet(libs'[u])
  BY <1>1, <1>2 DEF SetInv
<1>4. setDone' /\ world'.cross => tried' = Libs \/ \E u \in Threads : InSet(u)'
  BY <1>1, <1>2 DEF SetInv
<1>5. \A u \in Threads : AfterSet(u)' => setDone'
  BY <1>1, <1>2 DEF SetInv
<1> QED  BY <1>3, <1>4, <1>5 DEF SetInv

\* A return from outside the loop leaves what the loops have left to ask for.
LEMMA SetReturn ==
  ASSUME TypeInv, SetInv, NEW t \in Threads, Return(t),
         pc[t] \notin Resting, pc[t] \notin {"set_next", "set", "set_begin"},
         UNCHANGED <<world, setVars>>
  PROVE  SetInv'
<1>1. Moved(t) /\ ToSet(back[t]) = {pc'[t]} \cup ToSet(back'[t])
  BY ReturnTypes
<1>2. InSet(t)' <=> InSet(t)
  BY <1>1 DEF InSet, At
<1>3. pc'[t] \in Returns
  <2>1. back[t] \in Seq(Returns) /\ back[t] # <<>>
    BY DEF TypeInv, TypeOK, ShapeInv, Returns
  <2> QED  BY <2>1, PopFacts, ReturnTypes
<1>4. AfterSet(t)' => AfterSet(t)
  BY <1>1, <1>3 DEF AfterSet, Stages, Returns
<1> QED  BY <1>1, <1>2, <1>4, SetQuiet

\* So does a step from one place outside the loop to another.
LEMMA SetGoto ==
  ASSUME TypeInv, SetInv, NEW t \in Threads, NEW there \in Labels,
         pc[t] \in Resting <=> there \in Resting, pc[t] # "set_next", there # "set_next",
         there \in Stages => pc[t] \in Stages,
         pc[t] \in {"set", "set_begin"} => there \in {"set", "set_begin"},
         Goto(t, there), UNCHANGED back, UNCHANGED <<world, setVars>>
  PROVE  SetInv'
<1>1. Moved(t) /\ pc'[t] = there /\ back'[t] = back[t]
  BY GotoTypes
<1>2. InSet(t)' <=> InSet(t)
  BY <1>1 DEF InSet, At
<1>3. AfterSet(t)' => AfterSet(t)
  BY <1>1 DEF AfterSet
<1> QED  BY <1>1, <1>2, <1>3, SetQuiet

\* So does the open of a candidate.
LEMMA SetOpen ==
  ASSUME TypeInv, SetInv, NEW t \in Threads, pc[t] \in Stages, NEW object,
         NEW file, NEW otherwise \in {"host", "alt", "rest", "adopt"},
         OpenTarget(t, object, file, otherwise)
  PROVE  SetInv'
<1> DEFINE got == IF file = "self" THEN Shim ELSE object
<1>1. /\ Open(t, got, file \in {"good", "self"}, "adopt", otherwise)
      /\ UNCHANGED <<world, setVars>>
  BY DEF OpenTarget, setVars
<1> HIDE DEF got
<1>2. back[t] \in Seq(Returns) /\ back \in [Threads -> Seq(Returns)] /\ pc \in [Threads -> Labels]
  BY DEF TypeInv, TypeOK, Returns, Labels
<1>3. Moved(t)
  BY <1>1, OpenTypes DEF Returns, Labels, Resting, Stages
<1>4. InSet(t)' <=> InSet(t)
  <2>1. CASE file \in {"good", "self"}
    <3>1. pc'[t] = "va" /\ back'[t] = <<"adopt">> \o back[t]
      BY <1>1, <1>2, <2>1 DEF Open, Goto
    <3>2. ToSet(back'[t]) = {"adopt"} \cup ToSet(back[t])
      BY <1>2, <3>1, PushFacts DEF Returns
    <3> QED  BY <3>1, <3>2 DEF InSet, At, Stages
  <2>2. CASE file \notin {"good", "self"}
    BY <1>1, <1>2, <2>2 DEF Open, Goto, InSet, At, Stages
  <2> QED  BY <2>1, <2>2
<1>5. AfterSet(t)
  BY DEF AfterSet
<1>6. setDone
  BY <1>5 DEF SetInv
<1> QED  BY <1>1, <1>3, <1>4, <1>6, SetQuiet

\* Every step keeps account of what of the set has been asked for.
LEMMA SetNextStep ==
  ASSUME TypeInv, SetInv, NEW t \in Threads, Step(t)
  PROVE  SetInv'
<1>1. /\ TypeInv' /\ Moved(t)
      /\ pc \in [Threads -> Labels] /\ back \in [Threads -> Seq(Returns)]
      /\ libs \in [Threads -> Seq(Libs)] /\ tried \subseteq Libs
  BY TypeStep DEF TypeInv, TypeOK, Labels, Returns, Libs
<1>2. \A u \in Threads \ {t} : /\ InSet(u)' <=> InSet(u)
                               /\ AfterSet(u)' <=> AfterSet(u)
  BY <1>1 DEF Moved, InSet, AfterSet, At
<1>3. CASE VaTest(t) \/ VaScan(t) \/ VaList(t) \/ MayUse(t) \/ Adopt(t)
  <2>1. pc[t] \notin Resting /\ pc[t] \notin {"set_next", "set", "set_begin"}
    BY <1>3 DEF VaTest, VaScan, VaList, MayUse, Adopt, At, Resting
  <2>2. UNCHANGED <<world, setVars>>
    BY <1>3 DEF VaTest, VaScan, VaList, MayUse, Adopt
  <2>3. Return(t) \/ \E there \in {"va_scan", "va_list"} : Goto(t, there) /\ UNCHANGED back
    BY <1>3 DEF VaTest, VaScan, VaList, MayUse, Adopt
  <2>4. {"va_scan", "va_list"} \subseteq Labels \ (Resting \cup Stages \cup {"set_next"})
    BY DEF Labels, Resting, Stages
  <2> QED  BY <2>1, <2>2, <2>3, <2>4, SetReturn, SetGoto
<1>4. CASE SetTest(t)
  <2>1. At(t, "set") /\ UNCHANGED <<world, setVars>>
    BY <1>4 DEF SetTest
  <2>2. CASE setDone
    <3>1. Return(t)
      BY <1>4, <2>2 DEF SetTest
    <3>2. ToSet(back[t]) = {pc'[t]} \cup ToSet(back'[t])
      BY <2>1, <3>1, ReturnTypes DEF At, Resting
    <3>3. InSet(t)' <=> InSet(t)
      BY <2>1, <3>2 DEF InSet, At
    <3> QED  BY <1>1, <2>1, <2>2, <3>3, SetQuiet
  <2>3. CASE ~setDone
    <3>1. Goto(t, "set_begin") /\ UNCHANGED back
      BY <1>4, <2>3 DEF SetTest
    <3> QED  BY <2>1, <3>1, SetGoto DEF At, Labels, Resting, Stages
  <2> QED  BY <2>2, <2>3
<1>5. CASE SetBegin(t)
  <2>1. At(t, "set_begin") /\ setDone' = TRUE /\ UNCHANGED <<world, tried>>
    BY <1>5 DEF SetBegin
  <2>2. CASE world.cross
    <3>1. pc'[t] = "set_next" /\ libs'[t] = SetLibs /\ \A u \in Threads \ {t} : libs'[u] = libs[u]
      BY <1>1, <1>5, <2>2 DEF SetBegin, Goto
    <3>2. InSet(t)'
      BY <3>1 DEF InSet, At
    <3>3. \A u \in Threads : InSet(u)' => Libs \subseteq tried' \cup ToSet(libs'[u])
      BY <1>2, <2>1, <3>1 DEF SetInv, Libs
    <3> QED  BY <2>1, <3>2, <3>3 DEF SetInv
  <2>3. CASE ~world.cross
    <3>1. Return(t) /\ libs' = libs
      BY <1>5, <2>3 DEF SetBegin
    <3>2. ToSet(back[t]) = {pc'[t]} \cup ToSet(back'[t])
      BY <2>1, <3>1, ReturnTypes DEF At, Resting
    <3>3. InSet(t)' <=> InSet(t)
      BY <2>1, <3>2 DEF InSet, At
    <3>4. \A u \in Threads : InSet(u)' => Libs \subseteq tried' \cup ToSet(libs'[u])
      BY <1>2, <2>1, <3>1, <3>3 DEF SetInv
    <3> QED  BY <2>1, <2>3, <3>4 DEF SetInv
  <2> QED  BY <2>2, <2>3
<1>6. CASE SetNext(t)
  <2> DEFINE lib == Head(libs[t])
  <2>1. /\ At(t, "set_next") /\ libs[t] # <<>> /\ tried' = tried \cup {lib}
        /\ libs' = [libs EXCEPT ![t] = Tail(@)]
        /\ Open(t, SetLib, lib \in world.set, "set_next", "set_next")
        /\ UNCHANGED <<world, setDone>>
    BY <1>6 DEF SetNext
  <2>2. /\ ToSet(libs[t]) = {lib} \cup ToSet(libs'[t])
        /\ \A u \in Threads \ {t} : libs'[u] = libs[u]
    BY <1>1, <2>1, PopFacts
  <2> HIDE DEF lib
  <2>3. InSet(t) /\ InSet(t)' /\ (AfterSet(t)' => AfterSet(t))
    <3>1. CASE lib \in world.set
      <4>1. pc'[t] = "va" /\ back'[t] = <<"set_next">> \o back[t]
        BY <1>1, <2>1, <3>1 DEF Open, Goto
      <4>2. ToSet(back'[t]) = {"set_next"} \cup ToSet(back[t])
        BY <1>1, <4>1, PushFacts DEF Returns
      <4> QED  BY <2>1, <4>1, <4>2 DEF InSet, AfterSet, At, Stages
    <3>2. CASE lib \notin world.set
      <4>1. pc'[t] = "set_next" /\ back'[t] = back[t]
        BY <1>1, <2>1, <3>2 DEF Open, Goto
      <4> QED  BY <2>1, <4>1 DEF InSet, AfterSet, At, Stages
    <3> QED  BY <3>1, <3>2
  <2>4. \A u \in Threads : InSet(u)' => Libs \subseteq tried' \cup ToSet(libs'[u])
    BY <1>2, <2>1, <2>2, <2>3 DEF SetInv
  <2>5. \A u \in Threads : AfterSet(u)' => setDone'
    BY <1>2, <2>1, <2>3 DEF SetInv
  <2> QED  BY <2>3, <2>4, <2>5 DEF SetInv
<1>7. CASE SetEnd(t)
  <2>1. /\ At(t, "set_next") /\ libs[t] = <<>> /\ Return(t)
        /\ UNCHANGED <<world, setVars>>
    BY <1>7 DEF SetEnd
  <2>2. ToSet(back[t]) = {pc'[t]} \cup ToSet(back'[t])
    BY <2>1, ReturnTypes DEF At, Resting
  <2>3. ToSet(libs[t]) = {} /\ InSet(t)
    BY <2>1 DEF ToSet, InSet
  <2>4. tried = Libs
    BY <1>1, <2>3 DEF SetInv
  <2>5. pc'[t] \in Returns
    <3>1. back[t] \in Seq(Returns) /\ back[t] # <<>>
      BY <1>1, <2>1 DEF TypeInv, ShapeInv, At, Resting
    <3> QED  BY <2>1, <3>1, PopFacts, ReturnTypes DEF At, Resting
  <2>6. AfterSet(t)' => AfterSet(t)
    BY <2>1, <2>2, <2>5 DEF AfterSet, Stages, Returns, At
  <2>7. UNCHANGED <<world, libs, setDone, tried>>
    BY <2>1 DEF setVars
  <2>8. \A u \in Threads : InSet(u)' => Libs \subseteq tried' \cup ToSet(libs'[u])
    BY <2>4, <2>7
  <2>9. \A u \in Threads : AfterSet(u)' => setDone'
    BY <1>2, <2>6, <2>7 DEF SetInv
  <2> QED  BY <2>4, <2>7, <2>8, <2>9 DEF SetInv
<1>8. CASE Choose(t) \/ SetVendors(t)
  <2>1. pc[t] \in Stages /\ pc[t] # "set_next" /\ pc[t] \notin Resting /\ UNCHANGED <<world, setVars>>
    BY <1>8 DEF Choose, SetVendors, At, Stages, Resting
  <2>2. \E there \in Stages : Goto(t, there) /\ UNCHANGED back
    BY <1>8 DEF Choose, SetVendors, Stages
  <2>3. Stages \subseteq Labels \ (Resting \cup {"set_next", "set", "set_begin"})
    BY DEF Stages, Labels, Resting
  <2> QED  BY <2>1, <2>2, <2>3, SetGoto
<1>9. ASSUME NEW there \in {"alt", "rest", "last_env", "adopt"}, Miss(t, there), pc[t] \in Stages
      PROVE  SetInv'
  <2>1. {"alt", "rest", "last_env", "adopt"} \subseteq Stages
    BY DEF Stages
  <2>2. Stages \subseteq Labels \ (Resting \cup {"set_next", "set", "set_begin"})
    BY DEF Stages, Labels, Resting
  <2>3. Goto(t, there) /\ UNCHANGED back /\ UNCHANGED <<world, setVars>>
    BY <1>9 DEF Miss
  <2> QED  BY <1>9, <2>1, <2>2, <2>3, SetGoto
<1>10. CASE OpenBundled(t) \/ OpenLast(t)
  BY <1>10, SetOpen DEF OpenBundled, OpenLast, At, Stages
<1>11. CASE OpenHost(t)
  BY <1>9, <1>11, SetOpen DEF OpenHost, At, Stages
<1>12. CASE OpenAlt(t)
  BY <1>9, <1>12, SetOpen DEF OpenAlt, At, Stages
<1>13. CASE Rest(t)
  BY <1>9, <1>13 DEF Rest, At, Stages
<1>14. CASE Draw(t) \/ Construct(t) \/ LoadVa(t) \/ LoadOther(t)
  <2>1. pc[t] \in {"boot", "idle"} /\ UNCHANGED <<world, setVars>>
    BY <1>14 DEF Draw, Construct, LoadVa, LoadOther, At
  <2>2. back[t] = <<>>
    BY <2>1 DEF TypeInv, ShapeInv, Resting
  <2>3. ~InSet(t)
    BY <2>1, <2>2 DEF InSet, At, ToSet
  <2>4. /\ pc'[t] \in {"set", "va"}
        /\ ToSet(back'[t]) \subseteq {"choose", "va", "may_use", "boot", "idle"}
        /\ pc'[t] = "va" => ToSet(back'[t]) \subseteq {"may_use", "boot", "idle"}
    <3>1. pc'[t] \in {"set", "va"}
      BY <1>1, <1>14 DEF Draw, Construct, LoadVa, LoadOther, Goto
    <3>2. CASE Draw(t)
      BY <1>1, <2>1, <3>2 DEF Draw, Goto, ToSet
    <3>3. CASE Construct(t)
      BY <1>1, <2>1, <3>3 DEF Construct, Goto, ToSet
    <3>4. CASE LoadVa(t)
      BY <1>1, <2>1, <3>4 DEF LoadVa, Goto, ToSet
    <3>5. CASE LoadOther(t)
      BY <1>1, <2>1, <3>5 DEF LoadOther, Goto, ToSet
    <3> QED  BY <1>14, <3>1, <3>2, <3>3, <3>4, <3>5
  <2>5. ~InSet(t)'
    BY <2>4 DEF InSet, At
  <2>6. ~AfterSet(t)'
    BY <2>4 DEF AfterSet, Stages
  <2> QED  BY <1>1, <2>1, <2>3, <2>5, <2>6, SetQuiet
<1>15. CASE Start(t)
  <2>1. pc[t] = "off" /\ Goto(t, "idle") /\ UNCHANGED back /\ UNCHANGED <<world, setVars>>
    BY <1>15 DEF Start, At
  <2> QED  BY <2>1, SetGoto DEF Labels, Resting, Stages
<1> QED  BY <1>3, <1>4, <1>5, <1>6, <1>7, <1>8, <1>10, <1>11, <1>12, <1>13, <1>14, <1>15 DEF Step

\* The objects that are not targets are none of the candidates.
LEMMA NotTargets == Libva \notin Targets /\ SetLib \notin Targets /\ Shim \notin Targets
BY DEF Libva, SetLib, Shim, Targets, Bundled, Host, Alt

\* Only the search for a target brings one in.
LEMMA LoadedBy ==
  ASSUME TypeInv, NEW t \in Threads, Step(t)
  PROVE  \/ loaded' \cap Targets = loaded \cap Targets
         \/ OpenBundled(t) \/ OpenHost(t) \/ OpenAlt(t) \/ OpenLast(t)
<1>1. CASE SetNext(t)
  <2>1. loaded' \subseteq loaded \cup {SetLib} /\ loaded \subseteq loaded'
    BY <1>1 DEF SetNext, Open
  <2> QED  BY <2>1, NotTargets
<1>2. CASE LoadVa(t)
  BY <1>2, NotTargets DEF LoadVa
<1>3. CASE VaTest(t) \/ VaScan(t) \/ VaList(t) \/ SetTest(t) \/ SetBegin(t) \/ SetEnd(t)
  BY <1>3 DEF VaTest, VaScan, VaList, SetTest, SetBegin, SetEnd
<1>4. CASE Draw(t) \/ Choose(t) \/ SetVendors(t) \/ Rest(t) \/ Adopt(t)
  BY <1>4 DEF Draw, Choose, SetVendors, Rest, Miss, Adopt
<1>5. CASE Construct(t) \/ Start(t) \/ LoadOther(t) \/ MayUse(t)
  BY <1>5 DEF Construct, Start, LoadOther, MayUse
<1> QED  BY <1>1, <1>2, <1>3, <1>4, <1>5 DEF Step

\* The account of the set is inductive.
LEMMA SetNext0 == TypeInv /\ SetInv /\ [Next]_vars => SetInv'
<1> SUFFICES ASSUME TypeInv, SetInv, [Next]_vars PROVE SetInv'
  OBVIOUS
<1>1. CASE Next
  BY <1>1, SetNextStep DEF Next
<1>2. CASE UNCHANGED vars
  BY <1>2 DEF vars, setVars, glVars, vaVars, SetInv, InSet, AfterSet, At
<1> QED  BY <1>1, <1>2

\* When a target is loaded the whole global-scope set has been asked for, or
\* another thread is in the middle of doing so: whichever constructor or thread
\* makes the first GL call.
THEOREM GlobalsBeforeTarget == Spec => GlobalsFirst
<1> DEFINE A == \A o \in Targets :
                  /\ o \in loaded' \ loaded
                  /\ world.cross
                  => \/ tried = ToSet(SetLibs)
                     \/ \E t \in Threads : InSet(t)
<1>1. TypeInv /\ SetInv /\ [Next]_vars => [A]_vars
  <2> SUFFICES ASSUME TypeInv, SetInv, NEW t \in Threads, Step(t),
                      NEW o \in Targets, o \in loaded' \ loaded, world.cross
               PROVE  tried = Libs \/ \E u \in Threads : InSet(u)
    BY DEF Next, Libs
  <2>1. OpenBundled(t) \/ OpenHost(t) \/ OpenAlt(t) \/ OpenLast(t)
    BY LoadedBy
  <2>2. pc[t] \in Stages
    BY <2>1 DEF OpenBundled, OpenHost, OpenAlt, OpenLast, At, Stages
  <2>3. setDone
    BY <2>2 DEF SetInv, AfterSet
  <2> QED  BY <2>3 DEF SetInv
<1> QED  BY <1>1, TypeInit, TypeNext, SetInit, SetNext0, PTL DEF Spec, GlobalsFirst
-----------------------------------------------------------------------------
(* The target.                                                             *)

\* One thread, at most, looks for the target.
Looking(t) ==
  \/ pc[t] \in Stages
  \/ "choose" \in ToSet(back[t]) \/ "adopt" \in ToSet(back[t])

\* Nothing has been opened yet while the thread can still get to a dlopen.
Unopened(t) == pc[t] \in Stages \ {"adopt"} \/ "choose" \in ToSet(back[t])

\* What the search knows where it is: why it left the bundle, what the host
\* turned out not to have, and that the environment is ready for a dispatcher.
VendorsReady ==
  world.egl /\ world.xdg # <<>> => vendors # None

KnownAt(label) ==
  /\ label \in {"bundled_env", "bundled"} => UseBundled(world) /\ HaveBundled(world)
  /\ label \in {"host", "alt", "rest", "last_env", "last"} =>
       (UseBundled(world) /\ HaveBundled(world) => world.dispatcher # "good")
  /\ label \in {"alt", "rest", "last_env", "last"} =>
       world.force = "bundled" \/ ~Loadable(world, world.lib)
  /\ label \in {"rest", "last_env", "last"} =>
       world.force = "bundled" \/ ~Loadable(world, world.alt)
  /\ label \in {"last_env", "last"} => ~UseBundled(world)
  /\ label \in {"bundled", "last"} => VendorsReady
  /\ label = "adopt" => opened # Nothing \/ NoTarget(world)

\* A thread that has left init_now has only its place of rest to return to, and
\* `choose' and `adopt' are always the last return before that one.
PlaceInv ==
  \A t \in Threads :
    /\ pc[t] \in Stages => Len(back[t]) = 1
    /\ \A i \in 1 .. Len(back[t]) :
         back[t][i] \in {"choose", "adopt"} => i = Len(back[t]) - 1

TargetInv ==
  /\ \A t \in Threads : Looking(t) => glState = 1
  /\ \A t, u \in Threads : Looking(t) /\ Looking(u) => t = u
  /\ \A t \in Threads : Unopened(t) => opened = Nothing
  /\ \A t \in Threads : "adopt" \in ToSet(back[t]) => opened # Nothing
  /\ \A t \in Threads : KnownAt(pc[t])
  /\ glState = 0 => opened = Nothing
  /\ loaded \cap Targets \subseteq {opened}
  /\ opened \in Targets => opened \in loaded
  /\ Contained(world) => opened \in {Nothing, Bundled, Shim}
  /\ opened = Bundled => VendorsReady
  /\ world.vendors # None => vendors = world.vendors
  /\ glState = 2 => /\ target = IF opened = Shim THEN Nothing ELSE opened
                    /\ opened = Nothing => NoTarget(world)

\* Nobody searches, nothing is opened.
LEMMA TargetInit == Init => TargetInv
<1> SUFFICES ASSUME Init PROVE TargetInv
  OBVIOUS
<1>1. \A t \in Threads : pc[t] \in {"boot", "off"} /\ ToSet(back[t]) = {}
  BY DEF Init, ToSet
<1>2. /\ glState = 0 /\ opened = Nothing /\ vendors = world.vendors
      /\ loaded \subseteq {Libva}
  BY DEF Init
<1>3. Nothing \notin Targets /\ Nothing # Bundled
  BY DEF Nothing, Targets, Bundled, Host, Alt
<1> QED  BY <1>1, <1>2, <1>3, NotTargets DEF TargetInv, Looking, Unopened, KnownAt, Stages

\* What the invariant says of the target is that it is right.
LEMMA TargetImplies ==
  ASSUME TypeInv, TargetInv
  PROVE  TargetRight
<1>1. OneStack
  <2>1. Cardinality({opened}) = 1 /\ IsFiniteSet({opened})
    BY FS_Singleton
  <2>2. /\ Cardinality(loaded \cap Targets) <= Cardinality({opened})
    BY <2>1, FS_Subset DEF TargetInv
  <2>3. Contained(world) => loaded \cap Targets \subseteq {Bundled}
    <3>1. Nothing \notin Targets
      BY DEF Nothing, Targets, Bundled, Host, Alt
    <3> QED  BY <3>1, NotTargets DEF TargetInv
  <2> QED  BY <2>1, <2>2, <2>3 DEF OneStack
<1>2. EndsSomewhere
  <2> SUFFICES ASSUME glState = 2
               PROVE  /\ target # Nothing => target \in loaded \cap Targets
                      /\ target = Nothing /\ opened # Shim => NoTarget(world)
    BY DEF EndsSomewhere
  <2>1. /\ target = IF opened = Shim THEN Nothing ELSE opened
        /\ opened = Nothing => NoTarget(world)
        /\ opened \in Targets => opened \in loaded
    BY DEF TargetInv
  <2>2. opened \in Targets \cup {Nothing, Shim}
    BY DEF TypeInv, TypeOK
  <2> QED  BY <2>1, <2>2
<1>3. VendorsFirst
  <2>1. Bundled \in loaded => opened = Bundled
    BY DEF TargetInv, Targets
  <2> QED  BY <2>1 DEF TargetInv, VendorsFirst, VendorsReady
<1> QED  BY <1>1, <1>2, <1>3 DEF TargetRight

\* No stack holds a return of the search.
LEMMA PlaceInit == Init => PlaceInv
BY DEF Init, PlaceInv, Stages

\* Every way a step moves its thread, seen as what becomes of the returns.
LEMMA Moves ==
  ASSUME TypeInv, NEW t \in Threads, Step(t)
  PROVE  \/ Return(t) /\ pc[t] \notin Resting
         \/ /\ back' = back
            /\ pc'[t] \in Stages => pc[t] \in Stages
         \/ /\ pc'[t] = "va" /\ pc[t] \notin Resting
            /\ \/ back' = [back EXCEPT ![t] = <<"set_next">> \o @]
               \/ /\ back' = [back EXCEPT ![t] = <<"adopt">> \o @]
                  /\ pc[t] \in Stages
         \/ /\ pc'[t] \in {"set", "va"} /\ pc[t] \in {"boot", "idle"}
            /\ \/ back' = [back EXCEPT ![t] = <<"choose", pc[t]>>] /\ Draw(t)
               \/ back' = [back EXCEPT ![t] = <<"va", "may_use", "idle">>]
               \/ back' = [back EXCEPT ![t] = <<"va", "idle">>]
               \/ back' = [back EXCEPT ![t] = <<"may_use", pc[t]>>]
               \/ back' = [back EXCEPT ![t] = <<pc[t]>>]
<1>1. pc \in [Threads -> Labels]
  BY DEF TypeInv, TypeOK, Labels
<1>2. CASE VaTest(t) \/ VaScan(t) \/ VaList(t)
  BY <1>1, <1>2 DEF VaTest, VaScan, VaList, Goto, At, Resting, Stages
<1>3. CASE SetTest(t) \/ SetBegin(t) \/ SetEnd(t)
  BY <1>1, <1>3 DEF SetTest, SetBegin, SetEnd, Goto, At, Resting, Stages
<1>4. CASE SetNext(t)
  BY <1>1, <1>4 DEF SetNext, Open, Goto, At, Resting, Stages
<1>5. CASE Choose(t) \/ SetVendors(t) \/ Rest(t)
  BY <1>1, <1>5 DEF Choose, SetVendors, Rest, Miss, Goto, At, Resting, Stages
<1>6. ASSUME NEW object, NEW file, NEW otherwise, pc[t] \in Stages,
             OpenTarget(t, object, file, otherwise)
      PROVE  \/ back' = back
             \/ pc'[t] = "va" /\ back' = [back EXCEPT ![t] = <<"adopt">> \o @]
  BY <1>1, <1>6 DEF OpenTarget, Open, Goto
<1>7. CASE OpenBundled(t) \/ OpenLast(t)
  <2>1. pc[t] \in Stages \ Resting
    BY <1>7 DEF OpenBundled, OpenLast, At, Stages, Resting
  <2>2. \E object, file, otherwise : OpenTarget(t, object, file, otherwise)
    BY <1>7 DEF OpenBundled, OpenLast
  <2> QED  BY <1>6, <2>1, <2>2
<1>8. CASE OpenHost(t) \/ OpenAlt(t)
  <2>1. pc[t] \in Stages \ Resting
    BY <1>8 DEF OpenHost, OpenAlt, At, Stages, Resting
  <2>2. \/ \E object, file, otherwise : OpenTarget(t, object, file, otherwise)
        \/ back' = back
    BY <1>8 DEF OpenHost, OpenAlt, Miss
  <2> QED  BY <1>6, <2>1, <2>2
<1>9. CASE Adopt(t) \/ MayUse(t)
  BY <1>9 DEF Adopt, MayUse, At, Resting
<1>10. CASE Draw(t)
  BY <1>1, <1>10 DEF Draw, Goto
<1>11. CASE Construct(t)
  BY <1>1, <1>11 DEF Construct, Goto, At
<1>12. CASE LoadVa(t) \/ LoadOther(t)
  BY <1>1, <1>12 DEF LoadVa, LoadOther, Goto
<1>13. CASE Start(t)
  BY <1>1, <1>13 DEF Start, Goto, Stages
<1> QED  BY <1>2, <1>3, <1>4, <1>5, <1>7, <1>8, <1>9, <1>10, <1>11, <1>12, <1>13 DEF Step

\* Every step keeps the search's returns where they belong.
LEMMA PlaceStep ==
  ASSUME TypeInv, PlaceInv, NEW t \in Threads, Step(t)
  PROVE  PlaceInv'
<1>1. /\ Moved(t) /\ ShapeInv
      /\ pc \in [Threads -> Labels] /\ back \in [Threads -> Seq(Returns)]
  BY TypeStep DEF TypeInv, TypeOK, Labels, Returns
<1> DEFINE s == back[t]
           Good(label, q) ==
             /\ label \in Stages => Len(q) = 1
             /\ \A i \in 1 .. Len(q) : q[i] \in {"choose", "adopt"} => i = Len(q) - 1
<1>2. Good(pc[t], s) /\ s \in Seq(Returns)
  BY <1>1 DEF PlaceInv
<1>3. SUFFICES Good(pc'[t], back'[t])
  <2>1. ASSUME Good(pc'[t], back'[t]), NEW u \in Threads
        PROVE  Good(pc'[u], back'[u])
    <3>1. CASE u = t
      BY <2>1, <3>1
    <3>2. CASE u # t
      <4>1. pc'[u] = pc[u] /\ back'[u] = back[u]
        BY <1>1, <3>2 DEF Moved
      <4>2. Good(pc[u], back[u])
        BY DEF PlaceInv
      <4> QED  BY <4>1, <4>2
    <3> QED  BY <3>1, <3>2
  <2> QED  BY <2>1 DEF PlaceInv
<1>4. CASE Return(t) /\ pc[t] \notin Resting
  <2>1. /\ s # <<>> /\ pc'[t] = Head(s) /\ back'[t] = Tail(s)
    BY <1>1, <1>4, ReturnTypes DEF ShapeInv
  <2> HIDE DEF s
  <2>2. /\ Len(Tail(s)) = Len(s) - 1 /\ Len(s) \in Nat \ {0} /\ Head(s) = s[1]
        /\ \A i \in 1 .. Len(s) - 1 : Tail(s)[i] = s[i + 1]
        /\ Head(s) \in Returns
    BY <1>2, <2>1, PopFacts
  <2>3. 1 \in 1 .. Len(s)
    BY <2>2
  <2>4. Head(s) \in Stages => Len(Tail(s)) = 1
    <3>1. Head(s) \in Stages => Head(s) \in {"choose", "adopt"}
      BY <2>2 DEF Stages, Returns
    <3> QED  BY <1>2, <2>2, <2>3, <3>1
  <2>5. ASSUME NEW i \in 1 .. Len(Tail(s)), Tail(s)[i] \in {"choose", "adopt"}
        PROVE  i = Len(Tail(s)) - 1
    <3>1. i \in 1 .. Len(s) - 1 /\ i + 1 \in 1 .. Len(s)
      BY <2>2
    <3>2. s[i + 1] \in {"choose", "adopt"}
      BY <2>2, <2>5, <3>1
    <3>3. i + 1 = Len(s) - 1
      BY <1>2, <3>1, <3>2
    <3>4. i \in Int /\ Len(s) \in Int /\ Len(Tail(s)) = Len(s) - 1
      BY <2>2
    <3> HIDE <1>2, <2>2, <2>5
    <3> QED  BY <3>3, <3>4
  <2> QED  BY <2>1, <2>4, <2>5
<1>5. CASE back' = back /\ (pc'[t] \in Stages => pc[t] \in Stages)
  BY <1>2, <1>5
<1>6. ASSUME NEW x \in {"set_next", "adopt"}, back' = [back EXCEPT ![t] = <<x>> \o @],
             pc'[t] = "va", x = "adopt" => pc[t] \in Stages
      PROVE  Good(pc'[t], back'[t])
  <2> DEFINE p == <<x>> \o s
  <2>1. back'[t] = p /\ x \in Returns /\ "va" \notin Stages
    BY <1>1, <1>6 DEF Returns, Stages
  <2>2. /\ Len(p) = Len(s) + 1 /\ p[1] = x
        /\ \A i \in 2 .. Len(s) + 1 : p[i] = s[i - 1]
    BY <1>2, <2>1, PushFacts
  <2>3. Len(s) \in Nat
    BY <1>2
  <2> HIDE DEF p, s
  <2>4. ASSUME NEW i \in 1 .. Len(p), p[i] \in {"choose", "adopt"}
        PROVE  i = Len(p) - 1
    <3>1. CASE i = 1
      <4>1. x = "adopt"
        BY <2>2, <2>4, <3>1
      <4>2. Len(s) = 1
        BY <1>2, <1>6, <4>1
      <4> QED  BY <2>2, <3>1, <4>2
    <3>2. CASE i # 1
      <4>1. i \in 2 .. Len(s) + 1 /\ i - 1 \in 1 .. Len(s)
        BY <2>2, <2>3, <3>2
      <4>2. s[i - 1] \in {"choose", "adopt"}
        BY <2>2, <2>4, <4>1
      <4>3. i - 1 = Len(s) - 1
        BY <1>2, <4>1, <4>2
      <4> QED  BY <2>2, <2>3, <4>1, <4>3
    <3> QED  BY <3>1, <3>2
  <2> QED  BY <1>6, <2>1, <2>4
<1>7. ASSUME pc'[t] \in {"set", "va"}, pc[t] \in {"boot", "idle"},
             NEW q \in {<<"choose", pc[t]>>, <<"va", "may_use", "idle">>,
                        <<"va", "idle">>, <<"may_use", pc[t]>>, <<pc[t]>>},
             back' = [back EXCEPT ![t] = q]
      PROVE  Good(pc'[t], back'[t])
  <2>1. back'[t] = q /\ pc'[t] \notin Stages
    BY <1>1, <1>7 DEF Stages
  <2>2. pc[t] \notin {"choose", "adopt"}
    BY <1>7
  <2>3. \A i \in 1 .. Len(q) : q[i] \in {"choose", "adopt"} => i = Len(q) - 1
    <3>1. CASE q = <<"choose", pc[t]>>
      <4>1. Len(q) = 2 /\ q[2] = pc[t]
        BY <3>1
      <4> QED  BY <2>2, <4>1
    <3>2. CASE q = <<"va", "may_use", "idle">>
      <4>1. Len(q) = 3 /\ q[1] = "va" /\ q[2] = "may_use" /\ q[3] = "idle"
        BY <3>2
      <4> QED  BY <4>1
    <3>3. CASE q = <<"va", "idle">>
      <4>1. Len(q) = 2 /\ q[1] = "va" /\ q[2] = "idle"
        BY <3>3
      <4> QED  BY <4>1
    <3>4. CASE q = <<"may_use", pc[t]>>
      <4>1. Len(q) = 2 /\ q[1] = "may_use" /\ q[2] = pc[t]
        BY <3>4
      <4> QED  BY <2>2, <4>1
    <3>5. CASE q = <<pc[t]>>
      <4>1. Len(q) = 1 /\ q[1] = pc[t]
        BY <3>5
      <4> QED  BY <2>2, <4>1
    <3> QED  BY <1>7, <3>1, <3>2, <3>3, <3>4, <3>5
  <2> QED  BY <2>1, <2>3
<1> HIDE DEF Good, s
<1> QED  BY <1>4, <1>5, <1>6, <1>7, Moves

\* A step that neither looks for the target nor brings the thread to it.
LEMMA TargetQuiet ==
  ASSUME TypeInv, TargetInv, NEW t \in Threads, Moved(t),
         UNCHANGED <<world, glVars>>, loaded' \cap Targets = loaded \cap Targets,
         Looking(t)' => Looking(t), Unopened(t)' => Unopened(t),
         "adopt" \in ToSet(back'[t]) => "adopt" \in ToSet(back[t]),
         KnownAt(pc'[t])
  PROVE  TargetInv'
<1>1. \A u \in Threads \ {t} : pc'[u] = pc[u] /\ back'[u] = back[u]
  BY DEF Moved
<1>2. UNCHANGED <<world, glState, opened, target, vendors>>
  BY DEF glVars
<1>3. \A u \in Threads : /\ (Looking(u)' => Looking(u))
                        /\ (Unopened(u)' => Unopened(u))
                        /\ ("adopt" \in ToSet(back'[u]) => "adopt" \in ToSet(back[u]))
  <2>1. ASSUME NEW u \in Threads \ {t}
        PROVE  /\ Looking(u)' => Looking(u)
               /\ Unopened(u)' => Unopened(u)
               /\ "adopt" \in ToSet(back'[u]) => "adopt" \in ToSet(back[u])
    BY <1>1 DEF Looking, Unopened
  <2> QED  BY <2>1
<1>4. \A u \in Threads : KnownAt(pc[u])' <=> KnownAt(pc'[u])
  BY <1>2 DEF KnownAt, VendorsReady
<1>5. \A u \in Threads : KnownAt(pc'[u])
  BY <1>1 DEF TargetInv
<1>6. \A u \in Threads : KnownAt(pc[u])'
  BY <1>4, <1>5
<1>7. VendorsReady' <=> VendorsReady
  BY <1>2 DEF VendorsReady
<1> QED  BY <1>2, <1>3, <1>6, <1>7 DEF TargetInv

\* While one thread searches no other does.
LEMMA Elsewhere ==
  ASSUME TargetInv, NEW t \in Threads, Looking(t), NEW u \in Threads \ {t}
  PROVE  /\ pc[u] \notin Stages
         /\ "choose" \notin ToSet(back[u]) /\ "adopt" \notin ToSet(back[u])
BY DEF TargetInv, Looking

\* Outside the search there is nothing to know.
LEMMA KnownOutside ==
  ASSUME NEW label, label \notin Stages
  PROVE  KnownAt(label)
BY DEF KnownAt, Stages

\* A step of the thread that looks for the target.  The others do not.
LEMMA TargetLoud ==
  ASSUME TypeInv, TargetInv, NEW t \in Threads, Moved(t), Looking(t),
         world' = world,
         Looking(t)' => glState' = 1,
         Unopened(t)' => opened' = Nothing,
         "adopt" \in ToSet(back'[t]) => opened' # Nothing,
         KnownAt(pc[t])',
         glState' \in {1, 2},
         loaded' \cap Targets \subseteq {opened'},
         opened' \in Targets => opened' \in loaded',
         Contained(world) => opened' \in {Nothing, Bundled, Shim},
         opened' = Bundled => VendorsReady',
         world.vendors # None => vendors' = world.vendors,
         glState' = 2 =>
           target' = (IF opened' = Shim THEN Nothing ELSE opened'),
         glState' = 2 /\ opened' = Nothing => NoTarget(world)
  PROVE  TargetInv'
<1>1. \A u \in Threads \ {t} : /\ pc'[u] = pc[u] /\ pc[u] \notin Stages
                               /\ "choose" \notin ToSet(back'[u])
                               /\ "adopt" \notin ToSet(back'[u])
  BY Elsewhere DEF Moved
<1>2. \A u \in Threads \ {t} : ~Looking(u)' /\ ~Unopened(u)'
  BY <1>1 DEF Looking, Unopened
<1>3. \A u \in Threads \ {t} : KnownAt(pc[u])'
  BY <1>1, KnownOutside DEF KnownAt, Stages
<1>4. NoTarget(world') <=> NoTarget(world)
  OBVIOUS
<1> QED  BY <1>1, <1>2, <1>3, <1>4 DEF TargetInv

\* Where the search finds nothing, or what does not load, nothing loadable is
\* found.
LEMMA FoundLoadable ==
  ASSUME NEW w \in Worlds, NEW files
  PROVE  /\ Found(w, files) = None => ~Loadable(w, files)
         /\ Found(w, files) # None /\ files[Found(w, files)] # "good" => ~Loadable(w, files)
<1> DEFINE firsts == {i \in DOMAIN Places(w) : First(w, files, i)}
           k      == CHOOSE i \in firsts : TRUE
<1>1. Places(w) \in Seq(Dirs) /\ DOMAIN Places(w) \subseteq Nat \ {0}
  BY WorldsAssumption
<1>2. SUFFICES ASSUME NEW i \in 1 .. Len(Places(w)), files[Places(w)[i]] = "good",
                      \A j \in 1 .. i - 1 : files[Places(w)[j]] \in {"none", "other"}
               PROVE  Found(w, files) # None /\ files[Found(w, files)] = "good"
  BY <1>1 DEF Loadable
<1>3. i \in firsts
  BY <1>1, <1>2 DEF First
<1>4. k \in firsts
  BY <1>3
<1>5. k = i
  <2>1. k \in Nat \ {0} /\ i \in Nat \ {0} /\ First(w, files, k)
    BY <1>1, <1>4
  <2>2. ~(k < i)
    BY <1>2, <2>1 DEF First
  <2>3. ~(i < k)
    BY <1>2, <2>1 DEF First
  <2> QED  BY <2>1, <2>2, <2>3
<1>6. Found(w, files) = Places(w)[k]
  BY <1>3 DEF Found
<1>7. Places(w)[i] \in Dirs
  BY <1>1
<1> QED  BY <1>2, <1>5, <1>6, <1>7, MainAssumption

\* The open of a candidate, with what its failure lets the search know.
LEMMA TargetOpen ==
  ASSUME TypeInv, PlaceInv, TargetInv, NEW t \in Threads, pc[t] \in Stages \ {"adopt"},
         NEW object \in Targets, NEW file,
         NEW otherwise \in {"host", "alt", "rest", "adopt"},
         OpenTarget(t, object, file, otherwise), Moved(t),
         file = "good" /\ Contained(world) => object = Bundled,
         file = "good" /\ object = Bundled => VendorsReady,
         file \notin {"good", "self"} => KnownAt(otherwise)
  PROVE  TargetInv'
<1> DEFINE got == IF file = "self" THEN Shim ELSE object
<1>1. /\ Open(t, got, file \in {"good", "self"}, "adopt", otherwise)
      /\ opened' = IF file \in {"good", "self"} THEN got ELSE opened
      /\ UNCHANGED <<world, glState, target, vendors>>
  BY DEF OpenTarget
<1>2. /\ pc \in [Threads -> Labels] /\ back \in [Threads -> Seq(Returns)]
      /\ Looking(t) /\ Unopened(t) /\ glState = 1 /\ opened = Nothing
  BY DEF TypeInv, TypeOK, Labels, Returns, Looking, Unopened, TargetInv
<1>3. /\ Nothing \notin Targets /\ Shim # Nothing /\ Shim # Bundled
  BY NotTargets DEF Nothing, Targets, Bundled, Host, Alt, Shim
<1>4. loaded \cap Targets = {}
  BY <1>2, <1>3 DEF TargetInv
<1>5. "choose" \notin ToSet(back[t]) /\ "adopt" \notin ToSet(back[t])
  <2>1. Len(back[t]) = 1 /\ DOMAIN back[t] = 1 .. Len(back[t])
        /\ \A i \in 1 .. Len(back[t]) : back[t][i] \in {"choose", "adopt"} => i = Len(back[t]) - 1
    BY <1>2 DEF PlaceInv
  <2>2. \A i \in DOMAIN back[t] : back[t][i] \notin {"choose", "adopt"}
    BY <2>1
  <2> QED  BY <2>2 DEF ToSet
<1>6. CASE file \in {"good", "self"}
  <2>1. /\ pc'[t] = "va" /\ back'[t] = <<"adopt">> \o back[t]
        /\ loaded' = loaded \cup {got} /\ opened' = got
    BY <1>1, <1>2, <1>6 DEF Open, Goto
  <2>2. ToSet(back'[t]) = {"adopt"} \cup ToSet(back[t])
    BY <1>2, <2>1, PushFacts DEF Returns
  <2>3. ~Unopened(t)'
    BY <1>5, <2>1, <2>2 DEF Unopened, Stages
  <2>4. got # Nothing
    BY <1>3
  <2>5. KnownAt(pc[t])'
    BY <2>1 DEF KnownAt
  <2>6. VendorsReady' <=> VendorsReady
    BY <1>1 DEF VendorsReady
  <2>7. loaded' \cap Targets \subseteq {got}
    BY <1>4, <2>1
  <2>8. (Contained(world) => got \in {Nothing, Bundled, Shim}) /\ (got = Bundled => VendorsReady)
    BY <1>3, <1>6
  <2>9. world.vendors # None => vendors' = world.vendors
    BY <1>1 DEF TargetInv
  <2> HIDE DEF got
  <2> QED  BY <1>1, <1>2, <2>1, <2>3, <2>4, <2>5, <2>6, <2>7, <2>8, <2>9, TargetLoud
<1>7. CASE file \notin {"good", "self"}
  <2>1. /\ pc'[t] = otherwise /\ back' = back /\ loaded' = loaded /\ opened' = opened
    BY <1>1, <1>2, <1>7 DEF Open, Goto
  <2>2. KnownAt(otherwise)
    BY <1>7
  <2>3. KnownAt(pc[t])'
    BY <1>1, <2>1, <2>2 DEF KnownAt, VendorsReady
  <2>4. VendorsReady' <=> VendorsReady
    BY <1>1 DEF VendorsReady
  <2>5. /\ loaded' \cap Targets \subseteq {opened'}
        /\ opened' \in Targets => opened' \in loaded'
        /\ Contained(world) => opened' \in {Nothing, Bundled, Shim}
        /\ opened' = Bundled => VendorsReady'
        /\ world.vendors # None => vendors' = world.vendors
        /\ opened' = Nothing /\ glState' = 1 /\ "adopt" \notin ToSet(back'[t])
    BY <1>1, <1>2, <1>3, <1>4, <1>5, <2>1, <2>4 DEF TargetInv
  <2> QED  BY <1>1, <1>2, <2>3, <2>5, TargetLoud
<1> QED  BY <1>6, <1>7

\* A return leaves what is known of the target.
LEMMA TargetReturn ==
  ASSUME TypeInv, TargetInv, NEW t \in Threads, Return(t), pc[t] \notin Resting,
         UNCHANGED <<world, glVars>>, loaded' \cap Targets = loaded \cap Targets
  PROVE  TargetInv'
<1>1. Moved(t) /\ ToSet(back[t]) = {pc'[t]} \cup ToSet(back'[t])
  BY ReturnTypes
<1>2. pc'[t] \in Returns
  <2>1. back[t] \in Seq(Returns) /\ back[t] # <<>>
    BY DEF TypeInv, TypeOK, ShapeInv, Returns
  <2> QED  BY <2>1, PopFacts, ReturnTypes
<1>3. pc'[t] \in Stages => pc'[t] \in {"choose", "adopt"}
  BY <1>2 DEF Stages, Returns
<1>4. /\ (Looking(t)' => Looking(t)) /\ (Unopened(t)' => Unopened(t))
      /\ ("adopt" \in ToSet(back'[t]) => "adopt" \in ToSet(back[t]))
  BY <1>1, <1>3 DEF Looking, Unopened
<1>5. KnownAt(pc'[t])
  <2>1. CASE pc'[t] = "adopt"
    BY <1>1, <2>1 DEF TargetInv, KnownAt
  <2>2. CASE pc'[t] # "adopt"
    BY <1>3, <2>2 DEF KnownAt, Stages
  <2> QED  BY <2>1, <2>2
<1> QED  BY <1>1, <1>4, <1>5, TargetQuiet

\* A thread that goes on, calls or comes to life away from the search.
LEMMA TargetAway ==
  ASSUME TypeInv, TargetInv, NEW t \in Threads, Moved(t), pc'[t] \notin Stages,
         ToSet(back'[t]) \cap {"choose", "adopt"} \subseteq ToSet(back[t]),
         UNCHANGED <<world, glVars>>, loaded' \cap Targets = loaded \cap Targets
  PROVE  TargetInv'
<1>1. /\ (Looking(t)' => Looking(t)) /\ (Unopened(t)' => Unopened(t))
      /\ ("adopt" \in ToSet(back'[t]) => "adopt" \in ToSet(back[t]))
  BY DEF Looking, Unopened
<1>2. KnownAt(pc'[t])
  BY KnownOutside
<1> QED  BY <1>1, <1>2, TargetQuiet

\* The steps that do not belong to the search.
LEMMA TargetOthers ==
  ASSUME TypeInv, TargetInv, NEW t \in Threads, Step(t),
         \/ VaTest(t) \/ VaScan(t) \/ VaList(t) \/ SetTest(t) \/ SetBegin(t)
         \/ SetNext(t) \/ SetEnd(t) \/ Construct(t) \/ Start(t) \/ LoadVa(t)
         \/ LoadOther(t) \/ MayUse(t)
  PROVE  TargetInv'
<1>1. /\ Moved(t) /\ pc \in [Threads -> Labels] /\ back \in [Threads -> Seq(Returns)]
  BY TypeStep DEF TypeInv, TypeOK, Labels, Returns
<1>2. UNCHANGED <<world, glVars>>
  BY DEF VaTest, VaScan, VaList, SetTest, SetBegin, SetNext, SetEnd, Construct,
         Start, LoadVa, LoadOther, MayUse
<1>3. loaded' \cap Targets = loaded \cap Targets
  <2>1. pc[t] \notin Stages
    BY DEF VaTest, VaScan, VaList, SetTest, SetBegin, SetNext, SetEnd, Construct,
           Start, LoadVa, LoadOther, MayUse, At, Stages
  <2>2. ~(OpenBundled(t) \/ OpenHost(t) \/ OpenAlt(t) \/ OpenLast(t))
    BY <2>1 DEF OpenBundled, OpenHost, OpenAlt, OpenLast, At, Stages
  <2> QED  BY <2>2, LoadedBy
<1>4. CASE VaTest(t) \/ VaScan(t) \/ VaList(t) \/ SetTest(t) \/ SetBegin(t) \/ SetEnd(t) \/ MayUse(t)
  <2>1. pc[t] \notin Resting
    BY <1>4 DEF VaTest, VaScan, VaList, SetTest, SetBegin, SetEnd, MayUse, At, Resting
  <2>2. \/ Return(t)
        \/ back' = back /\ pc'[t] \notin Stages
    BY <1>1, <1>4 DEF VaTest, VaScan, VaList, SetTest, SetBegin, SetEnd, MayUse,
                      Goto, Stages
  <2>3. CASE Return(t)
    BY <1>2, <1>3, <2>1, <2>3, TargetReturn
  <2>4. CASE back' = back /\ pc'[t] \notin Stages
    BY <1>1, <1>2, <1>3, <2>4, TargetAway
  <2> QED  BY <2>2, <2>3, <2>4
<1>5. CASE SetNext(t)
  <2>1. pc'[t] \notin Stages
    BY <1>1, <1>5 DEF SetNext, Open, Goto, Stages
  <2>2. back'[t] = back[t] \/ back'[t] = <<"set_next">> \o back[t]
    BY <1>1, <1>5 DEF SetNext, Open
  <2>3. ToSet(<<"set_next">> \o back[t]) = {"set_next"} \cup ToSet(back[t])
    BY <1>1, PushFacts DEF Returns
  <2> QED  BY <1>1, <1>2, <1>3, <2>1, <2>2, <2>3, TargetAway
<1>6. CASE Construct(t) \/ LoadVa(t) \/ LoadOther(t)
  <2>1. pc'[t] \notin Stages /\ pc[t] \in {"boot", "idle"}
    BY <1>1, <1>6 DEF Construct, LoadVa, LoadOther, Goto, At, Stages
  <2>2. \E q \in {<<"va", "may_use", "idle">>, <<"va", "idle">>, <<"may_use", pc[t]>>, <<pc[t]>>} :
          back'[t] = q
    BY <1>1, <1>6 DEF Construct, LoadVa, LoadOther
  <2>3. "choose" \notin ToSet(back'[t]) /\ "adopt" \notin ToSet(back'[t])
    BY <2>1, <2>2 DEF ToSet
  <2> QED  BY <1>1, <1>2, <1>3, <2>1, <2>3, TargetAway
<1>7. CASE Start(t)
  <2>1. pc'[t] \notin Stages /\ back' = back
    BY <1>1, <1>7 DEF Start, Goto, Stages
  <2> QED  BY <1>1, <1>2, <1>3, <2>1, TargetAway
<1> QED  BY <1>4, <1>5, <1>6, <1>7

\* The first GL call: nobody looked for the target before.
LEMMA TargetDraw ==
  ASSUME TypeInv, TargetInv, NEW t \in Threads, Draw(t), Moved(t)
  PROVE  TargetInv'
<1>1. /\ pc \in [Threads -> Labels] /\ back \in [Threads -> Seq(Returns)]
  BY DEF TypeInv, TypeOK, Labels, Returns
<1>2. /\ glState = 0 /\ glState' = 1 /\ pc[t] \in {"boot", "idle"}
      /\ UNCHANGED <<world, loaded, opened, target, vendors>>
  BY DEF Draw
<1>3. pc'[t] = "set" /\ back'[t] = <<"choose", pc[t]>>
  BY <1>1 DEF Draw, Goto
<1>4. "adopt" \notin ToSet(back'[t])
  BY <1>2, <1>3 DEF ToSet
<1>5. \A u \in Threads : ~Looking(u)
  BY <1>2 DEF TargetInv
<1>6. \A u \in Threads \ {t} : pc'[u] = pc[u] /\ back'[u] = back[u]
  BY DEF Moved
<1>7. \A u \in Threads \ {t} : /\ ~Looking(u)' /\ pc'[u] \notin Stages
                               /\ "adopt" \notin ToSet(back'[u])
  BY <1>5, <1>6 DEF Looking
<1>8. \A u \in Threads : KnownAt(pc[u])'
  <2>1. \A u \in Threads : pc'[u] \notin Stages
    BY <1>3, <1>7 DEF Stages
  <2> QED  BY <2>1 DEF KnownAt, Stages
<1>9. opened = Nothing
  BY <1>2 DEF TargetInv
<1>10. VendorsReady' <=> VendorsReady
  BY <1>2 DEF VendorsReady
<1> QED  BY <1>2, <1>4, <1>7, <1>8, <1>9, <1>10 DEF TargetInv

\* A step of the search that neither opens anything nor ends it.
LEMMA TargetGoes ==
  ASSUME TypeInv, TargetInv, NEW t \in Threads, Moved(t), pc[t] \in Stages \ {"adopt"},
         UNCHANGED <<world, back, loaded, glState, opened, target>>,
         KnownAt(pc[t])',
         VendorsReady => VendorsReady',
         world.vendors # None => vendors' = world.vendors
  PROVE  TargetInv'
<1>1. Looking(t) /\ Unopened(t) /\ opened = Nothing /\ glState = 1
  BY DEF Looking, Unopened, TargetInv
<1>2. /\ loaded' \cap Targets \subseteq {opened'}
      /\ opened' \in Targets => opened' \in loaded'
      /\ "adopt" \notin ToSet(back'[t])
  BY <1>1 DEF TargetInv
<1>3. opened' = Nothing /\ Nothing # Bundled
  BY <1>1 DEF Nothing, Bundled
<1> QED  BY <1>1, <1>2, <1>3, TargetLoud

\* The choice between bundle and host, and the vendor list.
LEMMA TargetChoose ==
  ASSUME TypeInv, TargetInv, NEW t \in Threads, Choose(t) \/ SetVendors(t), Moved(t)
  PROVE  TargetInv'
<1>1. /\ pc \in [Threads -> Labels] /\ KnownAt(pc[t])
      /\ UNCHANGED <<world, back, loaded, glState, opened, target>>
      /\ pc[t] \in Stages \ {"adopt"}
  BY DEF TypeInv, TypeOK, Labels, TargetInv, Choose, SetVendors, glVars, At, Stages
<1>2. CASE Choose(t)
  <2>1. vendors' = vendors
    BY <1>2 DEF Choose, glVars
  <2>2. KnownAt(pc[t])'
    <3>1. CASE UseBundled(world) /\ HaveBundled(world)
      <4>1. pc'[t] = "bundled_env"
        BY <1>1, <1>2, <3>1 DEF Choose, Goto
      <4> QED  BY <1>1, <3>1, <4>1 DEF KnownAt
    <3>2. CASE ~(UseBundled(world) /\ HaveBundled(world))
      <4>1. pc'[t] = "host"
        BY <1>1, <1>2, <3>2 DEF Choose, Goto
      <4> QED  BY <1>1, <3>2, <4>1 DEF KnownAt
    <3> QED  BY <3>1, <3>2
  <2>3. (VendorsReady => VendorsReady') /\ (world.vendors # None => vendors' = world.vendors)
    BY <1>1, <2>1 DEF VendorsReady, TargetInv
  <2> QED  BY <1>1, <2>2, <2>3, TargetGoes
<1>3. CASE SetVendors(t)
  <2>1. world.xdg # None
    BY WorldsAssumption DEF TypeInv
  <2>2. VendorsReady' /\ (world.vendors # None => vendors' = world.vendors)
    BY <1>1, <1>3, <2>1 DEF SetVendors, VendorsReady, TargetInv
  <2>3. KnownAt(pc[t])'
    <3>1. CASE pc[t] = "bundled_env"
      <4>1. pc'[t] = "bundled"
        BY <1>1, <1>3, <3>1 DEF SetVendors, Goto, At
      <4> QED  BY <1>1, <2>2, <3>1, <4>1 DEF KnownAt
    <3>2. CASE pc[t] = "last_env"
      <4>1. pc'[t] = "last"
        BY <1>1, <1>3, <3>2 DEF SetVendors, Goto, At
      <4> QED  BY <1>1, <2>2, <3>2, <4>1 DEF KnownAt
    <3> QED  BY <1>3, <3>1, <3>2 DEF SetVendors
  <2> QED  BY <1>1, <2>2, <2>3, TargetGoes
<1> QED  BY <1>2, <1>3

\* A candidate passed over.
LEMMA TargetMiss ==
  ASSUME TypeInv, TargetInv, NEW t \in Threads, Moved(t), pc[t] \in Stages \ {"adopt"},
         NEW there, Miss(t, there), KnownAt(there)
  PROVE  TargetInv'
<1>1. pc'[t] = there /\ UNCHANGED <<world, back, loaded, glState, opened, target, vendors>>
  BY DEF TypeInv, TypeOK, Miss, Goto, glVars
<1>2. KnownAt(pc[t])'
  BY <1>1 DEF KnownAt, VendorsReady
<1>3. (VendorsReady => VendorsReady') /\ (world.vendors # None => vendors' = world.vendors)
  BY <1>1 DEF VendorsReady, TargetInv
<1> QED  BY <1>1, <1>2, <1>3, TargetGoes

\* A bundle with a stack of its own is used, so that the host is not asked.
LEMMA ContainedUsed ==
  ASSUME Contained(world)
  PROVE  UseBundled(world) /\ HaveBundled(world) /\ world.dispatcher = "good"
BY DEF Contained, UseBundled, HaveBundled, BundleVendor

\* The steps that try one candidate after the other.
LEMMA TargetSearch ==
  ASSUME TypeInv, PlaceInv, TargetInv, NEW t \in Threads, Moved(t),
         OpenBundled(t) \/ OpenHost(t) \/ OpenAlt(t) \/ OpenLast(t)
  PROVE  TargetInv'
<1>1. KnownAt(pc[t]) /\ pc[t] \in Stages \ {"adopt"} /\ world \in Worlds
  BY DEF TargetInv, TypeInv, OpenBundled, OpenHost, OpenAlt, OpenLast, At, Stages
<1>2. CASE OpenBundled(t)
  <2>1. At(t, "bundled") /\ OpenTarget(t, Bundled, world.dispatcher, "host")
    BY <1>2 DEF OpenBundled
  <2>2. VendorsReady /\ (world.dispatcher \notin {"good", "self"} => KnownAt("host"))
    BY <1>1, <2>1 DEF KnownAt, At
  <2> QED  BY <1>1, <2>1, <2>2, TargetOpen DEF Targets
<1>3. CASE OpenLast(t)
  <2>1. At(t, "last") /\ OpenTarget(t, Bundled, world.dispatcher, "adopt")
    BY <1>3 DEF OpenLast
  <2>2. VendorsReady /\ (world.dispatcher \notin {"good", "self"} => KnownAt("adopt"))
    BY <1>1, <2>1 DEF KnownAt, At, NoTarget
  <2> QED  BY <1>1, <2>1, <2>2, TargetOpen DEF Targets
<1>4. CASE OpenHost(t)
  <2> DEFINE d == Found(world, world.lib)
  <2>1. At(t, "host") /\ d \in Dirs \cup {None}
    BY <1>1, <1>4, FoundTypes DEF OpenHost
  <2>2. UseBundled(world) /\ HaveBundled(world) => world.dispatcher # "good"
    BY <1>1, <2>1 DEF KnownAt, At
  <2>3. world.force = "bundled" \/ ~Loadable(world, world.lib) => KnownAt("alt")
    BY <2>2 DEF KnownAt
  <2>4. CASE world.force = "bundled" \/ d = None
    <3>1. Miss(t, "alt")
      BY <1>4, <2>4 DEF OpenHost
    <3>2. KnownAt("alt")
      BY <1>1, <2>3, <2>4, FoundLoadable
    <3> QED  BY <1>1, <3>1, <3>2, TargetMiss
  <2>5. CASE world.force # "bundled" /\ d # None
    <3>1. OpenTarget(t, Host(d), world.lib[d], "alt") /\ Host(d) \in Targets /\ Host(d) # Bundled
      BY <1>4, <2>1, <2>5 DEF OpenHost, Targets, Host, Bundled
    <3>2. world.lib[d] \notin {"good", "self"} => KnownAt("alt")
      BY <1>1, <2>3, <2>5, FoundLoadable
    <3>3. ~Contained(world)
      BY <2>2, ContainedUsed
    <3> HIDE DEF d
    <3> QED  BY <1>1, <3>1, <3>2, <3>3, TargetOpen
  <2> QED  BY <2>4, <2>5
<1>5. CASE OpenAlt(t)
  <2> DEFINE d == Found(world, world.alt)
  <2>1. At(t, "alt") /\ d \in Dirs \cup {None}
    BY <1>1, <1>5, FoundTypes DEF OpenAlt
  <2>2. /\ UseBundled(world) /\ HaveBundled(world) => world.dispatcher # "good"
        /\ world.force = "bundled" \/ ~Loadable(world, world.lib)
    BY <1>1, <2>1 DEF KnownAt, At
  <2>3. world.force = "bundled" \/ ~Loadable(world, world.alt) => KnownAt("rest")
    BY <2>2 DEF KnownAt
  <2>4. CASE world.force = "bundled" \/ d = None
    <3>1. Miss(t, "rest")
      BY <1>5, <2>4 DEF OpenAlt
    <3>2. KnownAt("rest")
      BY <1>1, <2>3, <2>4, FoundLoadable
    <3> QED  BY <1>1, <3>1, <3>2, TargetMiss
  <2>5. CASE world.force # "bundled" /\ d # None
    <3>1. OpenTarget(t, Alt(d), world.alt[d], "rest") /\ Alt(d) \in Targets /\ Alt(d) # Bundled
      BY <1>5, <2>1, <2>5 DEF OpenAlt, Targets, Alt, Bundled
    <3>2. world.alt[d] \notin {"good", "self"} => KnownAt("rest")
      BY <1>1, <2>3, <2>5, FoundLoadable
    <3>3. ~Contained(world)
      BY <2>2, ContainedUsed
    <3> HIDE DEF d
    <3> QED  BY <1>1, <3>1, <3>2, <3>3, TargetOpen
  <2> QED  BY <2>4, <2>5
<1> QED  BY <1>2, <1>3, <1>4, <1>5

\* Where the search goes once the host has nothing.
LEMMA TargetRest ==
  ASSUME TypeInv, TargetInv, NEW t \in Threads, Moved(t), Rest(t)
  PROVE  TargetInv'
<1>1. At(t, "rest") /\ KnownAt("rest") /\ pc[t] \in Stages \ {"adopt"}
  BY DEF Rest, TargetInv, At, Stages
<1>2. CASE ~UseBundled(world) /\ HaveBundled(world)
  <2>1. Miss(t, "last_env") /\ KnownAt("last_env")
    BY <1>1, <1>2 DEF Rest, KnownAt
  <2> QED  BY <1>1, <2>1, TargetMiss
<1>3. CASE UseBundled(world) \/ ~HaveBundled(world)
  <2>1. ~(world.root /\ world.dispatcher = "good")
    BY <1>1, <1>3 DEF KnownAt, HaveBundled
  <2>2. Miss(t, "adopt") /\ KnownAt("adopt")
    BY <1>1, <1>3, <2>1 DEF Rest, KnownAt, NoTarget
  <2> QED  BY <1>1, <2>2, TargetMiss
<1> QED  BY <1>2, <1>3

\* The search is over, and its thread is back where it came from.
LEMMA TargetAdopt ==
  ASSUME TypeInv, PlaceInv, TargetInv, NEW t \in Threads, Moved(t), Adopt(t)
  PROVE  TargetInv'
<1>1. /\ pc[t] = "adopt" /\ pc[t] \in Stages /\ Looking(t) /\ Return(t) /\ pc[t] \notin Resting
      /\ UNCHANGED <<world, loaded, opened, vendors>> /\ glState' = 2
      /\ target' = (IF opened = Shim THEN Nothing ELSE opened)
  BY DEF Adopt, At, Stages, Looking, Resting
<1>2. /\ Len(back[t]) = 1 /\ back[t] \in Seq(Returns) /\ back[t] # <<>>
  BY <1>1 DEF PlaceInv, TypeInv, TypeOK, ShapeInv, Returns
<1>3. pc'[t] = back[t][1] /\ back'[t] = <<>>
  BY <1>1, <1>2, ReturnTypes, PopFacts
<1>4. back[t][1] \in {"boot", "idle"}
  <2>1. 1 \in 1 .. Len(back[t])
    BY <1>2
  <2> QED  BY <1>2, <2>1 DEF TypeInv, ShapeInv
<1>5. pc'[t] \notin Stages /\ ToSet(back'[t]) = {}
  BY <1>3, <1>4 DEF Stages, ToSet
<1>6. ~Looking(t)' /\ ~Unopened(t)' /\ "adopt" \notin ToSet(back'[t]) /\ KnownAt(pc[t])'
  BY <1>5 DEF Looking, Unopened, KnownAt, Stages
<1>7. opened' = Nothing => NoTarget(world)
  BY <1>1 DEF TargetInv, KnownAt
<1>8. VendorsReady' <=> VendorsReady
  BY <1>1 DEF VendorsReady
<1>9. /\ loaded' \cap Targets \subseteq {opened'}
      /\ opened' \in Targets => opened' \in loaded'
      /\ Contained(world) => opened' \in {Nothing, Bundled, Shim}
      /\ opened' = Bundled => VendorsReady'
      /\ world.vendors # None => vendors' = world.vendors
  BY <1>1, <1>8 DEF TargetInv
<1> QED  BY <1>1, <1>6, <1>7, <1>9, TargetLoud

\* Every step keeps what is known of the target.
LEMMA TargetStep ==
  TypeInv /\ PlaceInv /\ TargetInv /\ [Next]_vars => TargetInv' /\ PlaceInv'
<1> SUFFICES ASSUME TypeInv, PlaceInv, TargetInv, [Next]_vars
             PROVE  TargetInv' /\ PlaceInv'
  OBVIOUS
<1>1. ASSUME NEW t \in Threads, Step(t) PROVE TargetInv'
  <2>1. Moved(t)
    BY <1>1, TypeStep
  <2> QED  BY <1>1, <2>1, TargetOthers, TargetDraw, TargetChoose, TargetSearch,
              TargetRest, TargetAdopt DEF Step
<1>2. CASE Next
  BY <1>1, <1>2, PlaceStep DEF Next
<1>3. CASE UNCHANGED vars
  <2>1. UNCHANGED <<world, pc, back, loaded, glState, opened, target, vendors>>
    BY <1>3 DEF vars, glVars
  <2> QED  BY <2>1 DEF PlaceInv, TargetInv, Looking, Unopened, KnownAt, VendorsReady
<1> QED  BY <1>2, <1>3

\* Whatever the bundle and the host hold and whichever threads draw when: there
\* is one GL stack in the process, the bundle's own when it has one; the search
\* ends with a target unless there is none; and a bundled dispatcher is loaded
\* with the vendors in the environment.
THEOREM TargetIsRight == Spec => []TargetRight
<1>1. TypeInv /\ TargetInv => TargetRight
  BY TargetImplies
<1> QED  BY <1>1, TypeInit, TypeNext, PlaceInit, TargetInit, TargetStep, PTL DEF Spec
-----------------------------------------------------------------------------
(* What a list of directories takes.                                       *)

\* g adds up what the entries of s take, one by one.
Sums(g, s) ==
  /\ g \in [0 .. Len(s) -> Int] /\ g[0] = 0
  /\ \A k \in 1 .. Len(s) : g[k] = g[k-1] + Size[s[k]]

\* Taken is the last of such sums.
LEMMA TakenSums ==
  ASSUME NEW s \in Seq(Dirs)
  PROVE  \E g : Sums(g, s) /\ Taken(s) = g[Len(s)]
<1> DEFINE n == Len(s)
           step == [p \in (1 .. n) \X Int |-> p[2] + Size[s[p[1]]]]
           P(g) == g = [k \in 0 .. n |-> IF k = 0 THEN 0 ELSE g[k-1] + Size[s[k]]]
<1>1. n \in Nat /\ \A k \in 1 .. n : Size[s[k]] \in Int
  BY VaAssumption
<1>2. step \in [(1 .. n) \X Int -> Int]
  BY <1>1
<1>3. PICK g \in [0 .. n -> Int] : g[0] = 0 /\ \A k \in 1 .. n : g[k] = step[<<k, g[k-1]>>]
  <2> DEFINE X == Int
             base == 0
  <2>1. n \in Nat /\ base \in X /\ step \in [(1 .. n) \X X -> X]
    BY <1>1, <1>2
  <2> HIDE DEF step, n, X, base
  <2>2. \E g : Iterates(g, X, base, n, step)
    BY <2>1, IterationExists
  <2> QED  BY <2>2 DEF Iterates, X, base
<1>4. \A k \in 1 .. n : g[k] = g[k-1] + Size[s[k]]
  <2> SUFFICES ASSUME NEW k \in 1 .. n PROVE g[k] = g[k-1] + Size[s[k]]
    OBVIOUS
  <2>1. k - 1 \in 0 .. n
    BY <1>1
  <2>2. <<k, g[k-1]>> \in (1 .. n) \X Int
    BY <1>3, <2>1
  <2> QED  BY <1>3, <2>2
<1>5. P(g)
  <2> HIDE DEF n
  <2> QED  BY <1>1, <1>3, <1>4
<1> DEFINE c == CHOOSE h : P(h)
<1>6. P(c) /\ Taken(s) = c[n]
  <2>1. Taken(s) = c[n]
    BY DEF Taken
  <2> HIDE DEF P
  <2> QED  BY <1>5, <2>1
<1>7. c \in [0 .. n -> Int]
  <2> DEFINE In == {k \in Nat : k <= n => c[k] \in Int}
  <2> HIDE DEF c, n
  <2>1. 0 \in In
    BY <1>1, <1>6
  <2>2. ASSUME NEW k \in Nat, k \in In PROVE k + 1 \in In
    <3> SUFFICES ASSUME k + 1 <= n PROVE c[k+1] \in Int
      OBVIOUS
    <3>1. c[k+1] = c[k] + Size[s[k+1]] /\ k + 1 \in 1 .. n
      BY <1>1, <1>6
    <3> QED  BY <1>1, <2>2, <3>1
  <2>3. Nat \subseteq In
    <3> HIDE DEF In
    <3> QED  BY <2>1, <2>2, SetInduction
  <2>4. \A k \in 0 .. n : c[k] \in Int
    BY <1>1, <2>3
  <2> QED  BY <1>6, <2>4
<1>8. Sums(c, s)
  <2>1. c[0] = 0 /\ \A k \in 1 .. n : c[k] = c[k-1] + Size[s[k]]
    <3> HIDE DEF c, n
    <3> QED  BY <1>1, <1>6
  <2> QED  BY <1>7, <2>1 DEF Sums
<1> QED  BY <1>6, <1>8

\* The sums of two lists are the same as far as the lists are.
LEMMA SumsAgree ==
  ASSUME NEW s \in Seq(Dirs), NEW t \in Seq(Dirs), NEW g, NEW h, Sums(g, s), Sums(h, t),
         NEW n \in Nat, n <= Len(s), n <= Len(t), \A i \in 1 .. n : s[i] = t[i]
  PROVE  g[n] = h[n]
<1> DEFINE Same == {k \in Nat : k <= n => g[k] = h[k]}
<1>1. 0 \in Same
  BY DEF Sums
<1>2. ASSUME NEW k \in Nat, k \in Same PROVE k + 1 \in Same
  <2> SUFFICES ASSUME k + 1 <= n PROVE g[k+1] = h[k+1]
    OBVIOUS
  <2>1. k + 1 \in 1 .. Len(s) /\ k + 1 \in 1 .. Len(t) /\ k + 1 \in 1 .. n /\ (k + 1) - 1 = k
    BY LenProperties
  <2>2. g[k+1] = g[k] + Size[s[k+1]] /\ h[k+1] = h[k] + Size[t[k+1]]
    BY <2>1 DEF Sums
  <2>3. s[k+1] = t[k+1] /\ g[k] = h[k]
    BY <1>2, <2>1
  <2> QED  BY <2>2, <2>3
<1>3. Nat \subseteq Same
  <2> HIDE DEF Same
  <2> QED  BY <1>1, <1>2, SetInduction
<1> QED  BY <1>3
-----------------------------------------------------------------------------
\* What a list takes is a number; an entry more takes its own size more.
LEMMA TakenAppend ==
  /\ Taken(<<>>) = 0
  /\ \A s \in Seq(Dirs), d \in Dirs : Taken(Append(s, d)) = Taken(s) + Size[d]
  /\ \A s \in Seq(Dirs) : Taken(s) \in Int
<1>1. \A s \in Seq(Dirs) : Taken(s) \in Int
  <2> SUFFICES ASSUME NEW s \in Seq(Dirs) PROVE Taken(s) \in Int
    OBVIOUS
  <2>1. PICK g : Sums(g, s) /\ Taken(s) = g[Len(s)]
    BY TakenSums
  <2>2. Len(s) \in 0 .. Len(s)
    OBVIOUS
  <2> QED  BY <2>1, <2>2 DEF Sums
<1>2. Taken(<<>>) = 0
  <2> DEFINE s == <<>>
  <2>1. s \in Seq(Dirs) /\ Len(s) = 0
    OBVIOUS
  <2> HIDE DEF s
  <2>2. PICK g : Sums(g, s) /\ Taken(s) = g[Len(s)]
    BY <2>1, TakenSums
  <2>3. Taken(s) = 0
    BY <2>1, <2>2 DEF Sums
  <2> QED  BY <2>3 DEF s
<1>3. ASSUME NEW s \in Seq(Dirs), NEW d \in Dirs
      PROVE  Taken(Append(s, d)) = Taken(s) + Size[d]
  <2> DEFINE t == Append(s, d)
             n == Len(s)
  <2>1. /\ t \in Seq(Dirs) /\ Len(t) = n + 1 /\ n \in Nat /\ t[n + 1] = d
        /\ \A i \in 1 .. n : t[i] = s[i]
    BY AppendProperties, LenProperties
  <2> HIDE DEF t, n
  <2>2. PICK g : Sums(g, s) /\ Taken(s) = g[n]
    BY TakenSums DEF n
  <2>3. PICK h : Sums(h, t) /\ Taken(t) = h[n + 1]
    BY <2>1, TakenSums
  <2>4. g[n] = h[n]
    <3>1. n <= Len(s) /\ n <= Len(t) /\ \A i \in 1 .. n : s[i] = t[i]
      BY <2>1 DEF n
    <3> QED  BY <2>1, <2>2, <2>3, <3>1, SumsAgree
  <2>5. h[n + 1] = h[n] + Size[d]
    <3>1. n + 1 \in 1 .. Len(t) /\ (n + 1) - 1 = n
      BY <2>1
    <3> QED  BY <2>1, <2>3, <3>1 DEF Sums
  <2> QED  BY <2>2, <2>3, <2>4, <2>5 DEF t
<1> QED  BY <1>1, <1>2, <1>3

\* Two lists one after the other take what both take.
LEMMA TakenConcat ==
  ASSUME NEW s \in Seq(Dirs), NEW t \in Seq(Dirs)
  PROVE  Taken(s \o t) = Taken(s) + Taken(t)
<1> DEFINE Right == {k \in Nat : \A u \in Seq(Dirs) :
                      Len(u) = k => Taken(s \o u) = Taken(s) + Taken(u)}
<1>1. 0 \in Right
  <2> SUFFICES ASSUME NEW u \in Seq(Dirs), Len(u) = 0 PROVE Taken(s \o u) = Taken(s) + Taken(u)
    OBVIOUS
  <2>1. u = <<>> /\ s \o u = s
    BY ConcatEmptySeq, EmptySeq
  <2> QED  BY <2>1, TakenAppend
<1>2. ASSUME NEW k \in Nat, k \in Right PROVE k + 1 \in Right
  <2> SUFFICES ASSUME NEW u \in Seq(Dirs), Len(u) = k + 1
               PROVE  Taken(s \o u) = Taken(s) + Taken(u)
    OBVIOUS
  <2>1. PICK v \in Seq(Dirs), d \in Dirs : u = Append(v, d)
    <3>1. u # <<>>
      BY EmptySeq
    <3> QED  BY <3>1, SequenceEmptyOrAppend
  <2>2. Len(v) = k
    <3>1. Len(u) = Len(v) + 1 /\ Len(v) \in Nat
      BY <2>1, AppendProperties, LenProperties
    <3> QED  BY <3>1
  <2>3. s \o u = Append(s \o v, d) /\ s \o v \in Seq(Dirs)
    <3>1. <<d>> \in Seq(Dirs) /\ s \o v \in Seq(Dirs)
      BY ConcatProperties
    <3>2. u = v \o <<d>> /\ Append(s \o v, d) = (s \o v) \o <<d>>
      BY <2>1, <3>1, AppendIsConcat
    <3> QED  BY <3>1, <3>2, ConcatAssociative
  <2>4. Taken(s \o v) = Taken(s) + Taken(v)
    BY <1>2, <2>2
  <2>5. Taken(s \o u) = Taken(s \o v) + Size[d] /\ Taken(u) = Taken(v) + Size[d]
    BY <2>1, <2>3, TakenAppend
  <2>6. Taken(s) \in Int /\ Taken(v) \in Int /\ Size[d] \in Int
    BY TakenAppend, VaAssumption
  <2> QED  BY <2>4, <2>5, <2>6
<1>3. Nat \subseteq Right
  <2> HIDE DEF Right
  <2> QED  BY <1>1, <1>2, SetInduction
<1> QED  BY <1>3, LenProperties
\* What a list takes is not negative.
LEMMA TakenNat == \A s \in Seq(Dirs) : Taken(s) \in Nat
<1> DEFINE In == {k \in Nat : \A s \in Seq(Dirs) : Len(s) = k => Taken(s) \in Nat}
<1>1. 0 \in In
  <2> SUFFICES ASSUME NEW s \in Seq(Dirs), Len(s) = 0 PROVE Taken(s) \in Nat
    OBVIOUS
  <2>1. s = <<>>
    BY EmptySeq
  <2> QED  BY <2>1, TakenAppend
<1>2. ASSUME NEW k \in Nat, k \in In PROVE k + 1 \in In
  <2> SUFFICES ASSUME NEW s \in Seq(Dirs), Len(s) = k + 1 PROVE Taken(s) \in Nat
    OBVIOUS
  <2>1. PICK v \in Seq(Dirs), d \in Dirs : s = Append(v, d)
    <3>1. s # <<>>
      BY EmptySeq
    <3> QED  BY <3>1, SequenceEmptyOrAppend
  <2>2. Len(v) = k
    <3>1. Len(s) = Len(v) + 1 /\ Len(v) \in Nat
      BY <2>1, AppendProperties, LenProperties
    <3> QED  BY <3>1
  <2>3. Taken(v) \in Nat /\ Size[d] \in Nat
    BY <1>2, <2>2, VaAssumption
  <2> QED  BY <2>1, <2>3, TakenAppend
<1>3. Nat \subseteq In
  <2> HIDE DEF In
  <2> QED  BY <1>1, <1>2, SetInduction
<1> QED  BY <1>3, LenProperties

Distinct(s) == \A i, j \in DOMAIN s : s[i] = s[j] => i = j

\* The members of a list with one more entry, and when it lists none twice.
LEMMA AppendFacts ==
  ASSUME NEW S, NEW s \in Seq(S), NEW d \in S
  PROVE  /\ ToSet(Append(s, d)) = ToSet(s) \cup {d}
         /\ Distinct(Append(s, d)) <=> Distinct(s) /\ d \notin ToSet(s)
<1> DEFINE t == Append(s, d)
           n == Len(s)
<1>1. /\ t \in Seq(S) /\ n \in Nat /\ DOMAIN t = 1 .. n + 1 /\ DOMAIN s = 1 .. n
      /\ t[n + 1] = d /\ \A i \in 1 .. n : t[i] = s[i]
  BY AppendProperties, LenProperties
<1> HIDE DEF t, n
<1>2. \A i \in 1 .. n + 1 : i = n + 1 \/ i \in 1 .. n
  BY <1>1
<1>3. n + 1 \in 1 .. n + 1 /\ \A i \in 1 .. n : i \in 1 .. n + 1 /\ i # n + 1
  BY <1>1
<1>4. ToSet(t) = ToSet(s) \cup {d}
  BY <1>1, <1>2, <1>3 DEF ToSet
<1>5. ASSUME Distinct(t) PROVE Distinct(s) /\ d \notin ToSet(s)
  BY <1>1, <1>3, <1>5 DEF Distinct, ToSet
<1>6. ASSUME Distinct(s), d \notin ToSet(s) PROVE Distinct(t)
  BY <1>1, <1>2, <1>6 DEF Distinct, ToSet
<1> QED  BY <1>4, <1>5, <1>6 DEF t

\* The members of two lists, one after the other.
LEMMA ConcatSet ==
  ASSUME NEW S, NEW s \in Seq(S), NEW t \in Seq(S)
  PROVE  ToSet(s \o t) = ToSet(s) \cup ToSet(t)
<1> DEFINE u == s \o t
           m == Len(s)
           n == Len(t)
<1>1. /\ DOMAIN u = 1 .. m + n /\ DOMAIN s = 1 .. m /\ DOMAIN t = 1 .. n /\ m \in Nat /\ n \in Nat
      /\ \A i \in 1 .. m + n : u[i] = IF i <= m THEN s[i] ELSE t[i - m]
  BY ConcatProperties, LenProperties
<1> HIDE DEF u, m, n
<1>2. ASSUME NEW x \in ToSet(u) PROVE x \in ToSet(s) \cup ToSet(t)
  <2>1. PICK i \in 1 .. m + n : x = u[i]
    BY <1>1 DEF ToSet
  <2>2. CASE i <= m
    <3>1. i \in 1 .. m /\ x = s[i]
      BY <1>1, <2>1, <2>2
    <3> QED  BY <1>1, <3>1 DEF ToSet
  <2>3. CASE ~(i <= m)
    <3>1. i - m \in 1 .. n /\ x = t[i - m]
      BY <1>1, <2>1, <2>3
    <3> QED  BY <1>1, <3>1 DEF ToSet
  <2> QED  BY <2>2, <2>3
<1>3. ASSUME NEW x \in ToSet(s) PROVE x \in ToSet(u)
  <2>1. PICK i \in 1 .. m : x = s[i]
    BY <1>1 DEF ToSet
  <2>2. i \in 1 .. m + n /\ i <= m
    BY <1>1
  <2> QED  BY <1>1, <2>1, <2>2 DEF ToSet
<1>4. ASSUME NEW x \in ToSet(t) PROVE x \in ToSet(u)
  <2>1. PICK i \in 1 .. n : x = t[i]
    BY <1>1 DEF ToSet
  <2>2. m + i \in 1 .. m + n /\ ~(m + i <= m) /\ (m + i) - m = i
    BY <1>1
  <2>3. u[m + i] = t[i]
    BY <1>1, <2>2
  <2> QED  BY <1>1, <2>1, <2>2, <2>3 DEF ToSet
<1> QED  BY <1>2, <1>3, <1>4 DEF u

\* An entry taken out of a list.
LEMMA TakeOut ==
  ASSUME NEW t \in Seq(Dirs), NEW d \in ToSet(t)
  PROVE  \E p, q \in Seq(Dirs) : /\ Taken(t) = Taken(p \o q) + Size[d]
                                 /\ ToSet(t) \ {d} \subseteq ToSet(p \o q)
<1>1. PICK i \in 1 .. Len(t) : t[i] = d
  BY LenProperties DEF ToSet
<1> DEFINE n == Len(t)
           p == SubSeq(t, 1, i - 1)
           q == SubSeq(t, i + 1, n)
           dd == SubSeq(t, i, i)
<1>2. n \in Nat /\ i \in 1 .. n /\ d \in Dirs /\ \A j \in 1 .. n : t[j] \in Dirs
  BY <1>1, ElementOfSeq, LenProperties
<1>3. p \in Seq(Dirs) /\ q \in Seq(Dirs) /\ dd \in Seq(Dirs)
  <2>1. \A j \in 1 .. i - 1 : t[j] \in Dirs
    BY <1>2
  <2>2. \A j \in i + 1 .. n : t[j] \in Dirs
    BY <1>2
  <2>3. \A j \in i .. i : t[j] \in Dirs
    BY <1>2
  <2>4. i - 1 \in Int /\ 1 \in Int /\ i + 1 \in Int /\ n \in Int /\ i \in Int
    BY <1>2
  <2> HIDE DEF n
  <2> QED  BY <2>1, <2>2, <2>3, <2>4, SubSeqProperties
<1>4. dd = <<d>>
  <2>1. Len(dd) = 1 /\ dd[1] = d
    <3>1. \A j \in i .. i : t[j] \in Dirs
      BY <1>2
    <3> QED  BY <1>1, <1>2, <3>1, SubSeqProperties
  <2>2. <<d>> \in Seq(Dirs) /\ Len(<<d>>) = 1 /\ <<d>>[1] = d
    BY <1>2
  <2> HIDE DEF dd
  <2>3. \A j \in 1 .. Len(dd) : dd[j] = <<d>>[j]
    BY <2>1, <2>2
  <2> QED  BY <1>3, <2>1, <2>2, <2>3, SeqEqual
<1>5. t = (p \o dd) \o q
  <2>1. p \o dd = SubSeq(t, 1, i)
    <3>1. 1 \in 1 .. n + 1 /\ i - 1 \in 1 - 1 .. n /\ i \in i - 1 .. n /\ (i - 1) + 1 = i
      BY <1>2
    <3>2. SubSeq(t, 1, i - 1) \o SubSeq(t, (i - 1) + 1, i) = SubSeq(t, 1, i)
      BY <3>1, ConcatAdjacentSubSeq
    <3> QED  BY <3>1, <3>2
  <2>2. SubSeq(t, 1, i) \o q = SubSeq(t, 1, n)
    <3>1. 1 \in 1 .. n + 1 /\ i \in 1 - 1 .. n /\ n \in i .. n
      BY <1>2
    <3> QED  BY <3>1, ConcatAdjacentSubSeq
  <2>3. SubSeq(t, 1, n) = t
    BY SubSeqFull
  <2> QED  BY <2>1, <2>2, <2>3
<1> HIDE DEF p, q, dd, n
<1>6. p \o dd \in Seq(Dirs) /\ p \o q \in Seq(Dirs)
  BY <1>3, ConcatProperties
<1>7. Taken(t) = Taken(p \o q) + Size[d]
  <2>1. Taken(t) = Taken(p \o dd) + Taken(q) /\ Taken(p \o q) = Taken(p) + Taken(q)
    BY <1>3, <1>5, <1>6, TakenConcat
  <2>2. Taken(p \o dd) = Taken(p) + Size[d]
    <3>1. p \o dd = Append(p, d)
      BY <1>2, <1>3, <1>4, AppendIsConcat
    <3> QED  BY <1>2, <1>3, <3>1, TakenAppend
  <2>3. Taken(p) \in Nat /\ Taken(q) \in Nat /\ Size[d] \in Nat
    BY <1>2, <1>3, TakenNat, VaAssumption
  <2> QED  BY <2>1, <2>2, <2>3
<1>8. ToSet(t) \ {d} \subseteq ToSet(p \o q)
  <2>1. ToSet(t) = ToSet(p) \cup ToSet(dd) \cup ToSet(q) /\ ToSet(p \o q) = ToSet(p) \cup ToSet(q)
    <3>1. ToSet((p \o dd) \o q) = ToSet(p \o dd) \cup ToSet(q)
      BY <1>3, <1>6, ConcatSet
    <3>2. ToSet(p \o dd) = ToSet(p) \cup ToSet(dd) /\ ToSet(p \o q) = ToSet(p) \cup ToSet(q)
      BY <1>3, ConcatSet
    <3> QED  BY <1>5, <3>1, <3>2
  <2>2. ToSet(dd) = {d}
    BY <1>4 DEF ToSet
  <2> QED  BY <2>1, <2>2
<1> QED  BY <1>3, <1>7, <1>8

\* A list with nothing twice takes no more than any list that has all it has.
LEMMA TakenDistinct ==
  ASSUME NEW s \in Seq(Dirs), NEW t \in Seq(Dirs), Distinct(s), ToSet(s) \subseteq ToSet(t)
  PROVE  Taken(s) <= Taken(t)
<1> DEFINE Right == {k \in Nat : \A u, v \in Seq(Dirs) :
                      Len(u) = k /\ Distinct(u) /\ ToSet(u) \subseteq ToSet(v)
                      => Taken(u) <= Taken(v)}
<1>1. 0 \in Right
  <2> SUFFICES ASSUME NEW u \in Seq(Dirs), NEW v \in Seq(Dirs), Len(u) = 0
               PROVE  Taken(u) <= Taken(v)
    OBVIOUS
  <2>1. u = <<>>
    BY EmptySeq
  <2>2. Taken(u) = 0 /\ Taken(v) \in Nat
    BY <2>1, TakenAppend, TakenNat
  <2> QED  BY <2>2
<1>2. ASSUME NEW k \in Nat, k \in Right PROVE k + 1 \in Right
  <2> SUFFICES ASSUME NEW u \in Seq(Dirs), NEW v \in Seq(Dirs), Len(u) = k + 1,
                      Distinct(u), ToSet(u) \subseteq ToSet(v)
               PROVE  Taken(u) <= Taken(v)
    OBVIOUS
  <2>1. PICK r \in Seq(Dirs), d \in Dirs : u = Append(r, d)
    <3>1. u # <<>>
      BY EmptySeq
    <3> QED  BY <3>1, SequenceEmptyOrAppend
  <2>2. Len(r) = k
    <3>1. Len(u) = Len(r) + 1 /\ Len(r) \in Nat
      BY <2>1, AppendProperties, LenProperties
    <3> QED  BY <3>1
  <2>3. Distinct(r) /\ d \notin ToSet(r) /\ ToSet(r) \subseteq ToSet(v) /\ d \in ToSet(v)
    BY <2>1, AppendFacts
  <2>4. PICK p \in Seq(Dirs), q \in Seq(Dirs) : /\ Taken(v) = Taken(p \o q) + Size[d]
                                                /\ ToSet(v) \ {d} \subseteq ToSet(p \o q)
    BY <2>3, TakeOut
  <2>5. p \o q \in Seq(Dirs)
    BY ConcatProperties
  <2>6. ToSet(r) \subseteq ToSet(p \o q)
    BY <2>3, <2>4
  <2>7. Taken(r) <= Taken(p \o q)
    BY <1>2, <2>2, <2>3, <2>5, <2>6
  <2>8. Taken(u) = Taken(r) + Size[d]
    BY <2>1, TakenAppend
  <2>9. Taken(r) \in Nat /\ Taken(p \o q) \in Nat /\ Size[d] \in Nat
    BY <2>5, TakenNat, VaAssumption
  <2> QED  BY <2>4, <2>7, <2>8, <2>9
<1>3. Nat \subseteq Right
  <2> HIDE DEF Right
  <2> QED  BY <1>1, <1>2, SetInduction
<1> QED  BY <1>3, LenProperties

\* A finite set written out as a list has all of it.
LEMMA WrittenOut ==
  ASSUME NEW S, IsFiniteSet(S)
  PROVE  SetToSeq(S) \in Seq(S) /\ ToSet(SetToSeq(S)) = S
<1> DEFINE n == Cardinality(S)
           s == SetToSeq(S)
<1>1. n \in Nat /\ ExistsBijection(1 .. n, S)
  BY FS_CardinalityType
<1>2. \E f \in [1 .. n -> S] : \A a, b \in DOMAIN f : f[a] = f[b] => a = b
  BY <1>1 DEF ExistsBijection, Bijection, Injection, IsInjective
<1>3. s \in [1 .. n -> S] /\ \A a, b \in DOMAIN s : s[a] = s[b] => a = b
  BY <1>2 DEF SetToSeq, IsInjective
<1> HIDE DEF s, n
<1>4. ASSUME NEW x \in S, x \notin ToSet(s) PROVE FALSE
  <2>1. s \in [1 .. n -> S \ {x}]
    BY <1>3, <1>4 DEF ToSet
  <2>2. IsFiniteSet(1 .. n) /\ Cardinality(1 .. n) = n
    <3>1. n \in Int /\ 1 \in Int /\ (IF 1 > n THEN 0 ELSE n - 1 + 1) = n
      BY <1>1
    <3> QED  BY <3>1, FS_Interval
  <2>3. IsFiniteSet(S \ {x}) /\ Cardinality(S \ {x}) = n - 1
    BY FS_RemoveElement DEF n
  <2>4. \E a, b \in 1 .. n : a # b /\ s[a] = s[b]
    <3>1. Cardinality(S \ {x}) < Cardinality(1 .. n)
      BY <1>1, <2>2, <2>3
    <3> QED  BY <2>1, <2>2, <2>3, <3>1, FS_PigeonHole
  <2> QED  BY <1>3, <2>4
<1>5. s \in Seq(S)
  BY <1>1, <1>3
<1>6. ToSet(s) \subseteq S
  BY <1>3 DEF ToSet
<1> QED  BY <1>4, <1>5, <1>6 DEF s
-----------------------------------------------------------------------------
(* The list for libva.                                                     *)

Lists == [items : Seq(Dirs), piece : Dirs \cup {None}]

\* What is to be added to the user's list, and that there is room for it.
Wanted(w) == DriversFor(w) \ ToSet(w.vaPath)
Enough(w) == Taken(w.vaPath) + Taken(SetToSeq(Wanted(w))) <= Room

\* A list on its way: the user's, then some of those wanted.
Listed(w, l) ==
  /\ l \in Lists
  /\ \E a \in Seq(Wanted(w)) : Distinct(a) /\ l.items = w.vaPath \o a
  /\ Enough(w) => l.piece = None

\* All that is wanted is in it, if there is room.
Complete(w, l) == Enough(w) => Wanted(w) \subseteq ToSet(l.items)

Unset(w) == [items |-> w.vaPath, piece |-> None]

\* The directories wanted of a world are finitely many, and can be listed.
LEMMA WantedFinite ==
  ASSUME NEW w \in Worlds
  PROVE  /\ w.vaPath \in Seq(Dirs) /\ w.ldpath \in Seq(Dirs) /\ VaDirs \in Seq(Dirs)
         /\ DriversFor(w) \subseteq Dirs /\ Wanted(w) \subseteq Dirs
         /\ SetToSeq(Wanted(w)) \in Seq(Dirs) /\ ToSet(SetToSeq(Wanted(w))) = Wanted(w)
<1>1. /\ w.vaPath \in Seq(Dirs) /\ w.ldpath \in Seq(Dirs) /\ VaDirs \in Seq(Dirs)
      /\ w.dri \subseteq Dirs
  BY WorldsAssumption, VaAssumption
<1>2. DriversFor(w) \subseteq Dirs /\ Wanted(w) \subseteq Dirs
  BY <1>1 DEF DriversFor, Wanted
<1>3. \A s \in Seq(Dirs) : IsFiniteSet(ToSet(s))
  <2> SUFFICES ASSUME NEW s \in Seq(Dirs) PROVE IsFiniteSet(ToSet(s))
    OBVIOUS
  <2> DEFINE n == Len(s)
  <2>1. n \in Nat /\ s \in [1 .. n -> Dirs]
    BY LenProperties
  <2>2. s \in Surjection(1 .. n, ToSet(s))
    BY <2>1 DEF Surjection, ToSet
  <2>3. IsFiniteSet(1 .. n)
    <3>1. n \in Int /\ 1 \in Int
      BY <2>1
    <3> HIDE DEF n
    <3> QED  BY <3>1, FS_Interval
  <2> HIDE DEF n
  <2> QED  BY <2>2, <2>3, FS_Surjection
<1>4. IsFiniteSet(Wanted(w))
  <2> DEFINE all == ToSet(w.ldpath \o VaDirs)
  <2>1. all = ToSet(w.ldpath) \cup ToSet(VaDirs) /\ IsFiniteSet(all)
    <3>1. w.ldpath \o VaDirs \in Seq(Dirs)
      BY <1>1, ConcatProperties
    <3> QED  BY <1>1, <1>3, <3>1, ConcatSet
  <2>2. Wanted(w) \in SUBSET all
    BY <2>1 DEF Wanted, DriversFor
  <2> HIDE DEF all
  <2> QED  BY <2>1, <2>2, FS_Subset
<1>5. SetToSeq(Wanted(w)) \in Seq(Wanted(w)) /\ ToSet(SetToSeq(Wanted(w))) = Wanted(w)
  BY <1>4, WrittenOut
<1> QED  BY <1>1, <1>2, <1>5, SeqMonotonic

\* A list that has all that is wanted is the right one.
LEMMA RightList ==
  ASSUME NEW w \in Worlds, NEW l, Listed(w, l), Complete(w, l)
  PROVE  ListRight(w, l)
<1> DEFINE v == w.vaPath
           n == Len(v)
<1>1. PICK a \in Seq(Wanted(w)) : Distinct(a) /\ l.items = v \o a
  BY DEF Listed
<1>2. v \in Seq(Dirs) /\ n \in Nat /\ a \in Seq(Dirs) /\ Len(a) \in Nat
  BY WantedFinite, SeqMonotonic, LenProperties
<1> DEFINE u == v \o a
<1> HIDE DEF u, v, n
<1>3. u \in Seq(Dirs) /\ Len(u) = n + Len(a)
  BY <1>2, ConcatProperties DEF n, u
<1>4. /\ \A i \in 1 .. n : u[i] = v[i]
      /\ \A i \in 1 .. Len(a) : u[n + i] = a[i]
  <2>1. \A i \in 1 .. n + Len(a) : u[i] = IF i <= n THEN v[i] ELSE a[i - n]
    BY <1>2, ConcatProperties DEF n, u
  <2>2. ASSUME NEW i \in 1 .. Len(a) PROVE u[n + i] = a[i]
    <3>1. n + i \in 1 .. n + Len(a) /\ ~(n + i <= n) /\ (n + i) - n = i
      BY <1>2
    <3> QED  BY <2>1, <3>1
  <2>3. ASSUME NEW i \in 1 .. n PROVE u[i] = v[i]
    <3>1. i \in 1 .. n + Len(a) /\ i <= n
      BY <1>2
    <3> QED  BY <2>1, <3>1
  <2> QED  BY <2>2, <2>3
<1>5. SubSeq(u, 1, n) = v
  <2> DEFINE s == SubSeq(u, 1, n)
  <2>1. \A i \in 1 .. n : u[i] \in Dirs
    <3>1. \A i \in 1 .. n : i \in 1 .. Len(u)
      BY <1>2, <1>3
    <3> QED  BY <1>3, <3>1, ElementOfSeq
  <2>2. /\ s \in Seq(Dirs) /\ Len(s) = (IF 1 <= n THEN n - 1 + 1 ELSE 0)
        /\ \A i \in 1 .. n - 1 + 1 : s[i] = u[1 + i - 1]
    <3> DEFINE one == 1
    <3>1. one \in Int /\ n \in Int /\ \A i \in one .. n : u[i] \in Dirs
      BY <1>2, <2>1
    <3> HIDE DEF one
    <3>2. /\ SubSeq(u, one, n) \in Seq(Dirs)
          /\ Len(SubSeq(u, one, n)) = (IF one <= n THEN n - one + 1 ELSE 0)
          /\ \A i \in 1 .. n - one + 1 : SubSeq(u, one, n)[i] = u[one + i - 1]
      BY <3>1, SubSeqProperties
    <3> QED  BY <3>2 DEF one
  <2> HIDE DEF s
  <2>3. Len(s) = n
    BY <1>2, <2>2
  <2>4. \A i \in 1 .. n : s[i] = v[i]
    <3> SUFFICES ASSUME NEW i \in 1 .. n PROVE s[i] = v[i]
      OBVIOUS
    <3>1. i \in 1 .. n - 1 + 1 /\ 1 + i - 1 = i
      BY <1>2
    <3> QED  BY <1>4, <2>2, <3>1
  <2> QED  BY <1>2, <2>2, <2>3, <2>4, SeqEqual DEF s, n
<1>6. SubSeq(u, n + 1, Len(u)) = a
  <2> DEFINE s == SubSeq(u, n + 1, n + Len(a))
  <2>1. \A i \in n + 1 .. n + Len(a) : u[i] \in Dirs
    <3>1. \A i \in n + 1 .. n + Len(a) : i \in 1 .. Len(u)
      BY <1>2, <1>3
    <3> QED  BY <1>3, <3>1, ElementOfSeq
  <2>2. /\ s \in Seq(Dirs)
        /\ Len(s) = (IF n + 1 <= n + Len(a) THEN (n + Len(a)) - (n + 1) + 1 ELSE 0)
        /\ \A i \in 1 .. (n + Len(a)) - (n + 1) + 1 : s[i] = u[(n + 1) + i - 1]
    <3> DEFINE lo == n + 1
               hi == n + Len(a)
    <3>1. lo \in Int /\ hi \in Int /\ \A i \in lo .. hi : u[i] \in Dirs
      BY <1>2, <2>1
    <3> HIDE DEF lo, hi
    <3>2. /\ SubSeq(u, lo, hi) \in Seq(Dirs)
          /\ Len(SubSeq(u, lo, hi)) = (IF lo <= hi THEN hi - lo + 1 ELSE 0)
          /\ \A i \in 1 .. hi - lo + 1 : SubSeq(u, lo, hi)[i] = u[lo + i - 1]
      BY <3>1, SubSeqProperties
    <3> QED  BY <3>2 DEF lo, hi
  <2> HIDE DEF s
  <2>3. Len(s) = Len(a)
    BY <1>2, <2>2
  <2>4. \A i \in 1 .. Len(a) : s[i] = a[i]
    <3> SUFFICES ASSUME NEW i \in 1 .. Len(a) PROVE s[i] = a[i]
      OBVIOUS
    <3>1. i \in 1 .. (n + Len(a)) - (n + 1) + 1 /\ (n + 1) + i - 1 = n + i
      BY <1>2
    <3> QED  BY <1>4, <2>2, <3>1
  <2>5. s = a
    BY <1>2, <2>2, <2>3, <2>4, SeqEqual
  <2> QED  BY <1>3, <2>5 DEF s
<1>7. ToSet(a) \subseteq Wanted(w)
  <2>1. \A i \in 1 .. Len(a) : a[i] \in Wanted(w)
    BY ElementOfSeq
  <2> QED  BY <2>1, LenProperties DEF ToSet
<1>8. Enough(w) => ToSet(a) = Wanted(w)
  <2>1. ToSet(l.items) = ToSet(v) \cup ToSet(a)
    BY <1>1, <1>2, ConcatSet
  <2>2. Wanted(w) \cap ToSet(v) = {}
    BY DEF Wanted, v
  <2> QED  BY <1>7, <2>1, <2>2 DEF Complete
<1>9. /\ n <= Len(l.items) /\ SubSeq(l.items, 1, n) = v
      /\ SubSeq(l.items, n + 1, Len(l.items)) = a
  <2>1. l.items = u
    BY <1>1 DEF u
  <2>2. n <= Len(u)
    BY <1>2, <1>3
  <2> QED  BY <2>1, <2>2, <1>5, <1>6
<1>10. Enough(w) => l.piece = None
  BY DEF Listed
<1> QED  BY <1>1, <1>7, <1>8, <1>9, <1>10 DEF ListRight, Distinct, Enough, Wanted, v, n

\* An entry added to a list on its way: it stays one, loses nothing and, if
\* there is room for all, has the entry.
LEMMA AddListed ==
  ASSUME NEW w \in Worlds, NEW l, Listed(w, l), NEW d \in Dirs, d \in w.dri => d \in DriversFor(w)
  PROVE  /\ Listed(w, Add(w, l, d)) /\ ToSet(l.items) \subseteq ToSet(Add(w, l, d).items)
         /\ Enough(w) /\ d \in w.dri => d \in ToSet(Add(w, l, d).items)
<1>1. CASE d \notin w.dri \/ d \in ToSet(l.items)
  BY <1>1 DEF Add
<1>2. CASE ~(d \notin w.dri \/ d \in ToSet(l.items))
  <2>1. l \in Lists /\ l.items \in Seq(Dirs) /\ l.piece \in Dirs \cup {None}
    BY DEF Listed, Lists
  <2>2. PICK a \in Seq(Wanted(w)) : Distinct(a) /\ l.items = w.vaPath \o a
    BY DEF Listed
  <2>3. w.vaPath \in Seq(Dirs) /\ a \in Seq(Dirs) /\ Wanted(w) \subseteq Dirs
    BY WantedFinite, SeqMonotonic
  <2>4. ToSet(l.items) = ToSet(w.vaPath) \cup ToSet(a)
    BY <2>2, <2>3, ConcatSet
  <2>5. d \in Wanted(w) /\ d \notin ToSet(a)
    BY <1>2, <2>4 DEF Wanted
  <2> DEFINE b == Append(a, d)
             items == Append(l.items, d)
  <2>6. b \in Seq(Wanted(w)) /\ b \in Seq(Dirs) /\ Distinct(b) /\ ToSet(b) = ToSet(a) \cup {d}
    BY <2>2, <2>3, <2>5, AppendProperties, AppendFacts, SeqMonotonic
  <2>7. items \in Seq(Dirs) /\ items = w.vaPath \o b /\ ToSet(items) = ToSet(l.items) \cup {d}
    <3> DEFINE v == w.vaPath
               dd == <<d>>
    <3>1. dd \in Seq(Dirs) /\ v \in Seq(Dirs)
      BY <2>3
    <3>2. items = (v \o a) \o dd /\ b = a \o dd
      BY <2>1, <2>2, <2>3, AppendIsConcat
    <3> HIDE DEF v, dd
    <3>3. (v \o a) \o dd = v \o (a \o dd)
      BY <2>3, <3>1, ConcatAssociative
    <3>4. items \in Seq(Dirs) /\ ToSet(items) = ToSet(l.items) \cup {d}
      BY <2>1, AppendProperties, AppendFacts
    <3> QED  BY <3>2, <3>3, <3>4 DEF v
  <2>8. Enough(w) => Taken(l.items) + Size[d] <= Room
    <3> SUFFICES ASSUME Enough(w) PROVE Taken(l.items) + Size[d] <= Room
      OBVIOUS
    <3>1. ToSet(b) \subseteq Wanted(w)
      <4>1. \A i \in 1 .. Len(b) : b[i] \in Wanted(w)
        BY <2>6, ElementOfSeq
      <4> QED  BY <2>6, <4>1, LenProperties DEF ToSet
    <3>2. Taken(b) <= Taken(SetToSeq(Wanted(w)))
      BY <2>6, <3>1, WantedFinite, TakenDistinct
    <3>3. Taken(items) = Taken(w.vaPath) + Taken(b) /\ Taken(items) = Taken(l.items) + Size[d]
      BY <2>1, <2>3, <2>6, <2>7, TakenConcat, TakenAppend
    <3>4. /\ Taken(b) \in Nat /\ Taken(w.vaPath) \in Nat /\ Taken(l.items) \in Nat
          /\ Taken(SetToSeq(Wanted(w))) \in Nat /\ Size[d] \in Nat /\ Room \in Nat
      BY <2>1, <2>3, <2>6, WantedFinite, TakenNat, VaAssumption
    <3> QED  BY <3>2, <3>3, <3>4 DEF Enough
  <2> HIDE DEF b, items
  <2>9. CASE Taken(l.items) + Size[d] <= Room
    <3>1. Add(w, l, d) = [items |-> items, piece |-> None]
      BY <1>2, <2>9 DEF Add, items
    <3>2. [items |-> items, piece |-> None] \in Lists
      BY <2>7 DEF Lists
    <3>3. Add(w, l, d).items = items /\ Add(w, l, d).piece = None
      BY <3>1
    <3>4. Listed(w, Add(w, l, d))
      BY <2>6, <2>7, <3>1, <3>2, <3>3 DEF Listed
    <3> QED  BY <2>7, <3>3, <3>4
  <2>10. CASE ~(Taken(l.items) + Size[d] <= Room)
    <3>1. Add(w, l, d) = [l EXCEPT !.piece = IF Taken(l.items) < Room THEN d ELSE @]
      BY <1>2, <2>10 DEF Add
    <3>2. Add(w, l, d) \in Lists /\ Add(w, l, d).items = l.items
      BY <2>1, <3>1 DEF Lists
    <3> QED  BY <2>2, <2>8, <2>10, <3>2 DEF Listed
  <2> QED  BY <2>9, <2>10
<1> QED  BY <1>1, <1>2
\* One of the directories that are tried.
Passed(w, l, k) == IF Skipped(w, k) THEN l ELSE Add(w, l, Tried(w)[k])

\* The lists one comes through, from the one that was there.
Passes(w, list, f) ==
  /\ f \in [0 .. Len(Tried(w)) -> Lists] /\ f[0] = list
  /\ \A k \in 1 .. Len(Tried(w)) : f[k] = Passed(w, f[k-1], k)

\* What the set-up tries, and that every directory with drivers is tried once
\* at least.
LEMMA TriedFacts ==
  ASSUME NEW w \in Worlds
  PROVE  /\ Tried(w) \in Seq(Dirs) /\ Len(Tried(w)) \in Nat
         /\ \A k \in 1 .. Len(Tried(w)) :
              Tried(w)[k] \in Dirs /\ (Skipped(w, k) \/ Tried(w)[k] \notin w.dri
                                       \/ Tried(w)[k] \in DriversFor(w))
         /\ \A d \in DriversFor(w) :
              d \in w.dri /\ \E k \in 1 .. Len(Tried(w)) : Tried(w)[k] = d /\ ~Skipped(w, k)
<1> DEFINE p == w.ldpath
           m == Len(p)
           n == Len(VaDirs)
           t == Tried(w)
<1>1. /\ p \in Seq(Dirs) /\ VaDirs \in Seq(Dirs) /\ m \in Nat /\ n \in Nat
      /\ DOMAIN p = 1 .. m /\ DOMAIN VaDirs = 1 .. n
  BY WantedFinite, LenProperties
<1>2. /\ t \in Seq(Dirs) /\ Len(t) = m + n
      /\ \A i \in 1 .. m + n : t[i] = IF i <= m THEN p[i] ELSE VaDirs[i - m]
  <2> HIDE DEF p, m, n
  <2>1. t = p \o VaDirs
    BY DEF Tried, p
  <2> QED  BY <1>1, <2>1, ConcatProperties DEF m, n
<1>3. \A k \in 1 .. m + n : t[k] \in Dirs
  BY <1>2, ElementOfSeq
<1>4. \A k : Skipped(w, k) <=> k <= m /\ ~IsHostPath(w, t[k])
  BY DEF Skipped
<1> HIDE DEF p, m, n, t
<1>5. ASSUME NEW k \in 1 .. m + n, ~Skipped(w, k), t[k] \in w.dri PROVE t[k] \in DriversFor(w)
  <2>1. CASE k <= m
    <3>1. k \in 1 .. m /\ t[k] = p[k] /\ IsHostPath(w, t[k])
      BY <1>1, <1>2, <1>4, <1>5, <2>1
    <3>2. t[k] \in ToSet(w.ldpath)
      BY <1>1, <3>1 DEF ToSet, p
    <3> QED  BY <1>5, <3>1, <3>2 DEF DriversFor
  <2>2. CASE ~(k <= m)
    <3>1. k - m \in 1 .. n /\ t[k] = VaDirs[k - m]
      BY <1>1, <1>2, <2>2
    <3>2. t[k] \in ToSet(VaDirs)
      BY <1>1, <3>1 DEF ToSet
    <3> QED  BY <1>5, <3>2 DEF DriversFor
  <2> QED  BY <2>1, <2>2
<1>6. ASSUME NEW d \in DriversFor(w)
      PROVE  d \in w.dri /\ \E k \in 1 .. m + n : t[k] = d /\ ~Skipped(w, k)
  <2>1. d \in w.dri /\ ((d \in ToSet(p) /\ IsHostPath(w, d)) \/ d \in ToSet(VaDirs))
    BY DEF DriversFor, p
  <2>2. CASE d \in ToSet(p) /\ IsHostPath(w, d)
    <3>1. PICK i \in 1 .. m : p[i] = d
      BY <1>1, <2>2 DEF ToSet
    <3>2. i \in 1 .. m + n /\ i <= m
      BY <1>1
    <3> QED  BY <1>2, <1>4, <2>1, <2>2, <3>1, <3>2
  <2>3. CASE d \in ToSet(VaDirs)
    <3>1. PICK i \in 1 .. n : VaDirs[i] = d
      BY <1>1, <2>3 DEF ToSet
    <3>2. m + i \in 1 .. m + n /\ ~(m + i <= m) /\ (m + i) - m = i
      BY <1>1
    <3>3. t[m + i] = d
      BY <1>2, <3>1, <3>2
    <3> QED  BY <1>4, <2>1, <3>2, <3>3
  <2> QED  BY <2>1, <2>2, <2>3
<1> QED  BY <1>1, <1>2, <1>3, <1>5, <1>6 DEF t

\* An entry added to a list leaves a list.
LEMMA AddTypes ==
  ASSUME NEW w, NEW l \in Lists, NEW d \in Dirs
  PROVE  Add(w, l, d) \in Lists
<1>1. l.items \in Seq(Dirs) /\ l.piece \in Dirs \cup {None}
  BY DEF Lists
<1>2. Append(l.items, d) \in Seq(Dirs)
  BY <1>1, AppendProperties
<1>3. [items |-> Append(l.items, d), piece |-> None] \in Lists
  BY <1>2 DEF Lists
<1>4. [l EXCEPT !.piece = IF Taken(l.items) < Room THEN d ELSE @] \in Lists
  BY <1>1 DEF Lists
<1> QED  BY <1>3, <1>4 DEF Add

\* What is left in the variable is the last of the lists, or what was there.
LEMMA ExtendedPasses ==
  ASSUME NEW w \in Worlds, NEW list \in Lists
  PROVE  \E f : /\ Passes(w, list, f)
                /\ Extended(w, list) =
                     IF \/ list.piece # None \/ Taken(list.items) > Room
                        \/ f[Len(Tried(w))].items = <<>>
                     THEN list ELSE f[Len(Tried(w))]
<1> DEFINE n == Len(Tried(w))
           step == [p \in (1 .. n) \X Lists |-> Passed(w, p[2], p[1])]
           P(g) == g = [k \in 0 .. n |->
                          IF k = 0 THEN list
                          ELSE IF Skipped(w, k) THEN g[k-1] ELSE Add(w, g[k-1], Tried(w)[k])]
           c == CHOOSE h : P(h)
<1>1. n \in Nat /\ \A k \in 1 .. n : Tried(w)[k] \in Dirs
  BY TriedFacts
<1>2. \A l \in Lists, k \in 1 .. n : Passed(w, l, k) \in Lists
  BY <1>1, AddTypes DEF Passed
<1>3. step \in [(1 .. n) \X Lists -> Lists]
  <2> HIDE DEF n
  <2> QED  BY <1>2
<1>4. PICK g : g \in [0 .. n -> Lists] /\ g[0] = list /\ \A k \in 1 .. n : g[k] = step[<<k, g[k-1]>>]
  <2> HIDE DEF step, n
  <2>1. \E g : Iterates(g, Lists, list, n, step)
    BY <1>1, <1>3, IterationExists
  <2> QED  BY <2>1 DEF Iterates
<1>5. \A k \in 1 .. n : g[k] = Passed(w, g[k-1], k)
  <2> SUFFICES ASSUME NEW k \in 1 .. n PROVE g[k] = Passed(w, g[k-1], k)
    OBVIOUS
  <2>1. k - 1 \in 0 .. n
    BY <1>1
  <2>2. <<k, g[k-1]>> \in (1 .. n) \X Lists
    BY <1>4, <2>1
  <2> QED  BY <1>4, <2>2
<1>6. P(g)
  <2> HIDE DEF n
  <2> QED  BY <1>1, <1>4, <1>5 DEF Passed
<1>7. P(c)
  <2> HIDE DEF P
  <2> QED  BY <1>6
<1>8. Extended(w, list) = IF list.piece # None \/ Taken(list.items) > Room \/ c[n].items = <<>>
                          THEN list ELSE c[n]
  BY DEF Extended
<1>9. c[0] = list /\ \A k \in 1 .. n : c[k] = Passed(w, c[k-1], k)
  <2> HIDE DEF c, n
  <2> QED  BY <1>1, <1>7 DEF Passed
<1>10. c \in [0 .. n -> Lists]
  <2> DEFINE In == {k \in Nat : k <= n => c[k] \in Lists}
  <2> HIDE DEF c, n
  <2>1. 0 \in In
    BY <1>9
  <2>2. ASSUME NEW k \in Nat, k \in In PROVE k + 1 \in In
    <3> SUFFICES ASSUME k + 1 <= n PROVE c[k+1] \in Lists
      OBVIOUS
    <3>1. c[k] \in Lists /\ k + 1 \in 1 .. n /\ (k + 1) - 1 = k
      BY <1>1, <2>2
    <3>2. c[k+1] = Passed(w, c[k], k + 1)
      BY <1>9, <3>1
    <3> QED  BY <1>2, <3>1, <3>2
  <2>3. Nat \subseteq In
    <3> HIDE DEF In
    <3> QED  BY <2>1, <2>2, SetInduction
  <2>4. \A k \in 0 .. n : c[k] \in Lists
    BY <1>1, <2>3
  <2>5. c = [k \in 0 .. n |-> c[k]]
    BY <1>7
  <2> QED  BY <2>4, <2>5
<1>11. Passes(w, list, c)
  <2> HIDE DEF c
  <2> QED  BY <1>9, <1>10 DEF Passes
<1> HIDE DEF c
<1> QED  BY <1>8, <1>11

\* The last of the lists is one on its way and has all that is wanted.
LEMMA PassesComplete ==
  ASSUME NEW w \in Worlds, NEW list, Listed(w, list), NEW f, Passes(w, list, f)
  PROVE  Listed(w, f[Len(Tried(w))]) /\ Complete(w, f[Len(Tried(w))])
<1> DEFINE n == Len(Tried(w))
           Had(k) == \A j \in 1 .. k : Enough(w) /\ ~Skipped(w, j) /\ Tried(w)[j] \in w.dri
                                         => Tried(w)[j] \in ToSet(f[k].items)
           In == {k \in Nat : k <= n => Listed(w, f[k]) /\ Had(k)}
<1>1. n \in Nat
  BY TriedFacts
<1>2. 0 \in In
  BY DEF Passes
<1>3. ASSUME NEW k \in Nat, k \in In PROVE k + 1 \in In
  <2> SUFFICES ASSUME k + 1 <= n PROVE Listed(w, f[k+1]) /\ Had(k + 1)
    OBVIOUS
  <2>1. k + 1 \in 1 .. n /\ (k + 1) - 1 = k /\ k <= n
    BY <1>1
  <2>2. Listed(w, f[k]) /\ Had(k)
    BY <1>3, <2>1
  <2>3. f[k+1] = Passed(w, f[k], k + 1)
    BY <2>1 DEF Passes
  <2> DEFINE d == Tried(w)[k + 1]
  <2>4. d \in Dirs /\ (Skipped(w, k + 1) \/ d \notin w.dri \/ d \in DriversFor(w))
    BY <2>1, TriedFacts
  <2>5. \A j \in 1 .. k + 1 : j \in 1 .. k \/ j = k + 1
    OBVIOUS
  <2>6. CASE Skipped(w, k + 1)
    BY <2>2, <2>3, <2>5, <2>6 DEF Passed
  <2>7. CASE ~Skipped(w, k + 1)
    <3>1. f[k+1] = Add(w, f[k], d)
      BY <2>3, <2>7 DEF Passed
    <3> HIDE DEF d
    <3>2. /\ Listed(w, f[k+1]) /\ ToSet(f[k].items) \subseteq ToSet(f[k+1].items)
          /\ Enough(w) /\ d \in w.dri => d \in ToSet(f[k+1].items)
      BY <2>2, <2>4, <2>7, <3>1, AddListed
    <3> QED  BY <2>2, <2>5, <3>2 DEF d
  <2> QED  BY <2>6, <2>7
<1>4. Nat \subseteq In
  <2> HIDE DEF In
  <2> QED  BY <1>2, <1>3, SetInduction
<1>5. Listed(w, f[n]) /\ Had(n)
  BY <1>1, <1>4
<1>6. Complete(w, f[n])
  <2> SUFFICES ASSUME Enough(w), NEW d \in DriversFor(w) PROVE d \in ToSet(f[n].items)
    BY DEF Complete, Wanted
  <2>1. PICK k \in 1 .. n : Tried(w)[k] = d /\ ~Skipped(w, k) /\ d \in w.dri
    BY TriedFacts
  <2> QED  BY <1>5, <2>1
<1> QED  BY <1>5, <1>6

\* cld_va_setup leaves the right list, at the first call and at a later one.
LEMMA ExtendedRight ==
  ASSUME NEW w \in Worlds, NEW list, Listed(w, list), list = Unset(w) \/ ListRight(w, list)
  PROVE  Listed(w, Extended(w, list)) /\ ListRight(w, Extended(w, list))
<1> DEFINE n == Len(Tried(w))
<1>1. list \in Lists
  BY DEF Listed
<1>2. PICK f : /\ Passes(w, list, f)
               /\ Extended(w, list) =
                    IF list.piece # None \/ Taken(list.items) > Room \/ f[n].items = <<>>
                    THEN list ELSE f[n]
  BY <1>1, ExtendedPasses
<1>3. Listed(w, f[n]) /\ Complete(w, f[n])
  BY <1>2, PassesComplete
<1>4. ListRight(w, f[n])
  BY <1>3, RightList
<1> HIDE DEF n
<1>5. CASE list = Unset(w)
  <2>1. list.piece = None /\ list.items = w.vaPath
    BY <1>5 DEF Unset
  <2>2. ASSUME Taken(w.vaPath) > Room PROVE Complete(w, list)
    <3>1. /\ Taken(w.vaPath) \in Nat /\ Room \in Nat
          /\ Taken(SetToSeq(Wanted(w))) \in Nat
      BY WantedFinite, TakenNat, VaAssumption
    <3> QED  BY <2>2, <3>1 DEF Complete, Enough
  <2>3. ASSUME f[n].items = <<>> PROVE Complete(w, list)
    BY <1>3, <2>3 DEF Complete, ToSet
  <2>4. Complete(w, list) => ListRight(w, list)
    BY RightList
  <2> QED  BY <1>2, <1>3, <1>4, <2>1, <2>2, <2>3, <2>4
<1>6. CASE ListRight(w, list)
  BY <1>2, <1>3, <1>4, <1>6
<1> QED  BY <1>5, <1>6

\* The variable as the process started with it is a list of nothing wanted.
LEMMA UnsetListed ==
  ASSUME NEW w \in Worlds
  PROVE  Listed(w, Unset(w))
<1>1. w.vaPath \in Seq(Dirs)
  BY WantedFinite
<1>2. w.vaPath \o <<>> = w.vaPath /\ <<>> \in Seq(Wanted(w)) /\ Distinct(<<>>)
  BY <1>1, ConcatEmptySeq DEF Distinct
<1>3. Unset(w) \in Lists /\ Unset(w).items = w.vaPath /\ Unset(w).piece = None
  BY <1>1 DEF Lists, Unset
<1> QED  BY <1>2, <1>3 DEF Listed
-----------------------------------------------------------------------------
(* Who may use libva, and when.                                            *)

InVa == {"va", "va_scan", "va_list"}

\* The use of libva comes next only after cld_va_setup, which runs before it.
AheadOf(label, q) ==
  \A i \in 1 .. Len(q) :
    q[i] = "may_use" => IF i = 1 THEN label \in InVa ELSE q[i-1] = "va"

AheadInv ==
  /\ \A t \in Threads : AheadOf(pc[t], back[t])
  /\ \A t \in Threads : "may_use" \in ToSet(back[t]) => Libva \in loaded
  /\ world.linked => Libva \in loaded

\* Every way a step moves its thread, seen as what becomes of the use of libva.
LEMMA VaMoves ==
  ASSUME TypeInv, NEW t \in Threads, Step(t)
  PROVE  /\ loaded \subseteq loaded' /\ world' = world
         /\ \/ Return(t) /\ pc[t] \notin Resting
            \/ back' = back /\ (pc[t] \in InVa => pc'[t] \in InVa)
            \/ /\ pc'[t] = "va" /\ pc[t] \notin InVa
               /\ \E x \in {"set_next", "adopt"} : back' = [back EXCEPT ![t] = <<x>> \o @]
            \/ /\ pc[t] \in {"boot", "idle"}
               /\ \/ back' = [back EXCEPT ![t] = <<"choose", pc[t]>>]
                  \/ back' = [back EXCEPT ![t] = <<"va", "may_use", "idle">>] /\ world.linked
                  \/ back' = [back EXCEPT ![t] = <<"va", "idle">>]
                  \/ /\ back' = [back EXCEPT ![t] = <<"may_use", pc[t]>>]
                     /\ pc'[t] = "va" /\ Libva \in loaded'
                  \/ back' = [back EXCEPT ![t] = <<pc[t]>>]
<1>1. pc \in [Threads -> Labels]
  BY DEF TypeInv, TypeOK, Labels
<1>2. CASE VaTest(t) \/ VaScan(t) \/ VaList(t)
  BY <1>1, <1>2 DEF VaTest, VaScan, VaList, Goto, At, Resting, InVa
<1>3. CASE SetTest(t) \/ SetBegin(t) \/ SetEnd(t)
  BY <1>1, <1>3 DEF SetTest, SetBegin, SetEnd, Goto, At, Resting, InVa
<1>4. CASE SetNext(t)
  BY <1>1, <1>4 DEF SetNext, Open, Goto, At, Resting, InVa
<1>5. CASE Choose(t) \/ SetVendors(t) \/ Rest(t)
  BY <1>1, <1>5 DEF Choose, SetVendors, Rest, Miss, Goto, At, Resting, InVa
<1>6. ASSUME NEW object, NEW file, NEW otherwise, pc[t] \notin InVa,
             OpenTarget(t, object, file, otherwise)
      PROVE  /\ loaded \subseteq loaded' /\ world' = world
             /\ \/ back' = back
                \/ pc'[t] = "va" /\ back' = [back EXCEPT ![t] = <<"adopt">> \o @]
  BY <1>1, <1>6 DEF OpenTarget, Open, Goto
<1>7. CASE OpenBundled(t) \/ OpenLast(t)
  <2>1. pc[t] \notin InVa
    BY <1>7 DEF OpenBundled, OpenLast, At, InVa
  <2>2. \E object, file, otherwise : OpenTarget(t, object, file, otherwise)
    BY <1>7 DEF OpenBundled, OpenLast
  <2> QED  BY <1>6, <2>1, <2>2
<1>8. CASE OpenHost(t) \/ OpenAlt(t)
  <2>1. pc[t] \notin InVa
    BY <1>8 DEF OpenHost, OpenAlt, At, InVa
  <2>2. \/ \E object, file, otherwise : OpenTarget(t, object, file, otherwise)
        \/ back' = back /\ world' = world /\ loaded' = loaded
    BY <1>8 DEF OpenHost, OpenAlt, Miss
  <2> QED  BY <1>6, <2>1, <2>2
<1>9. CASE Adopt(t) \/ MayUse(t)
  BY <1>9 DEF Adopt, MayUse, At, Resting
<1>10. CASE Draw(t)
  BY <1>1, <1>10 DEF Draw, Goto
<1>11. CASE Construct(t)
  BY <1>1, <1>11 DEF Construct, Goto, At
<1>12. CASE LoadVa(t) \/ LoadOther(t)
  BY <1>1, <1>12 DEF LoadVa, LoadOther, Goto
<1>13. CASE Start(t)
  BY <1>1, <1>13 DEF Start, Goto, At, InVa
<1> QED  BY <1>2, <1>3, <1>4, <1>5, <1>7, <1>8, <1>9, <1>10, <1>11, <1>12, <1>13 DEF Step

\* Nobody is in cld_va_setup.
LEMMA AheadInit == Init => AheadInv
<1> SUFFICES ASSUME Init PROVE AheadInv
  OBVIOUS
<1>1. \A t \in Threads : back[t] = <<>>
  BY DEF Init
<1>2. \A label : AheadOf(label, <<>>)
  BY DEF AheadOf
<1>3. ToSet(<<>>) = {}
  BY DEF ToSet
<1>4. world.linked => Libva \in loaded
  BY DEF Init
<1> QED  BY <1>1, <1>2, <1>3, <1>4 DEF AheadInv

\* A thread that is in no dlopen, or comes to rest, does not use libva next.
LEMMA AheadHead ==
  ASSUME TypeInv, AheadInv, NEW t \in Threads, back[t] # <<>>, pc[t] \notin InVa
  PROVE  Head(back[t]) # "may_use"
<1>1. back[t] \in Seq(Returns)
  BY DEF TypeInv, TypeOK, Returns
<1>2. 1 \in 1 .. Len(back[t]) /\ Head(back[t]) = back[t][1]
  BY <1>1, PopFacts
<1> QED  BY <1>2 DEF AheadInv, AheadOf

\* Every step keeps account of who is on the way to the set-up of libva's list.
LEMMA AheadStep ==
  ASSUME TypeInv, AheadInv, NEW t \in Threads, Step(t)
  PROVE  AheadInv'
<1>1. /\ Moved(t) /\ ShapeInv /\ loaded \subseteq loaded' /\ world' = world
      /\ pc \in [Threads -> Labels] /\ back \in [Threads -> Seq(Returns)]
  BY TypeStep, VaMoves DEF TypeInv, TypeOK, Labels, Returns
<1> DEFINE s == back[t]
           Good(label, q) == /\ AheadOf(label, q)
                             /\ "may_use" \in ToSet(q) => Libva \in loaded'
<1>2. AheadOf(pc[t], s) /\ s \in Seq(Returns) /\ ("may_use" \in ToSet(s) => Libva \in loaded')
  BY <1>1 DEF AheadInv
<1>3. SUFFICES Good(pc'[t], back'[t])
  <2>1. ASSUME Good(pc'[t], back'[t]), NEW u \in Threads
        PROVE  Good(pc'[u], back'[u])
    <3>1. CASE u = t
      BY <2>1, <3>1
    <3>2. CASE u # t
      <4>1. pc'[u] = pc[u] /\ back'[u] = back[u]
        BY <1>1, <3>2 DEF Moved
      <4>2. Good(pc[u], back[u])
        BY <1>1 DEF AheadInv
      <4> QED  BY <4>1, <4>2
    <3> QED  BY <3>1, <3>2
  <2>2. world'.linked => Libva \in loaded'
    BY <1>1 DEF AheadInv
  <2>3. Good(pc'[t], back'[t]) => AheadInv'
    BY <2>1, <2>2 DEF AheadInv
  <2> QED  BY <2>3
<1>4. CASE Return(t) /\ pc[t] \notin Resting
  <2>1. /\ s # <<>> /\ pc'[t] = Head(s) /\ back'[t] = Tail(s)
    BY <1>1, <1>4, ReturnTypes DEF ShapeInv
  <2> HIDE DEF s
  <2>2. /\ Len(Tail(s)) = Len(s) - 1 /\ Len(s) \in Nat \ {0} /\ Head(s) = s[1]
        /\ \A i \in 1 .. Len(s) - 1 : Tail(s)[i] = s[i + 1]
        /\ ToSet(s) = {Head(s)} \cup ToSet(Tail(s))
    BY <1>2, <2>1, PopFacts
  <2>3. ASSUME NEW i \in 1 .. Len(Tail(s)), Tail(s)[i] = "may_use"
        PROVE  IF i = 1 THEN Head(s) \in InVa ELSE Tail(s)[i-1] = "va"
    <3>1. i \in 1 .. Len(s) - 1 /\ i + 1 \in 1 .. Len(s) /\ i + 1 # 1 /\ (i + 1) - 1 = i
      BY <2>2
    <3>2. s[i] = "va"
      BY <1>2, <2>2, <2>3, <3>1 DEF AheadOf
    <3>3. CASE i = 1
      BY <2>2, <3>2, <3>3 DEF InVa
    <3>4. CASE i # 1
      <4>1. i - 1 \in 1 .. Len(s) - 1 /\ (i - 1) + 1 = i
        BY <2>2, <3>1, <3>4
      <4> QED  BY <2>2, <3>2, <3>4, <4>1
    <3> QED  BY <3>3, <3>4
  <2> QED  BY <1>2, <2>1, <2>2, <2>3 DEF AheadOf
<1>5. CASE back' = back /\ (pc[t] \in InVa => pc'[t] \in InVa)
  BY <1>2, <1>5 DEF AheadOf
<1>6. ASSUME NEW x \in {"set_next", "adopt"}, back' = [back EXCEPT ![t] = <<x>> \o @],
             pc'[t] = "va", pc[t] \notin InVa
      PROVE  Good(pc'[t], back'[t])
  <2> DEFINE p == <<x>> \o s
  <2>1. back'[t] = p /\ x \in Returns /\ x # "may_use"
    BY <1>1, <1>6 DEF Returns
  <2>2. /\ Len(p) = Len(s) + 1 /\ p[1] = x /\ ToSet(p) = {x} \cup ToSet(s)
        /\ \A i \in 2 .. Len(s) + 1 : p[i] = s[i - 1]
    BY <1>2, <2>1, PushFacts
  <2>3. Len(s) \in Nat
    BY <1>2
  <2> HIDE DEF p, s
  <2>4. ASSUME NEW i \in 1 .. Len(p), p[i] = "may_use"
        PROVE  i # 1 /\ p[i-1] = "va"
    <3>1. i \in 2 .. Len(s) + 1 /\ i - 1 \in 1 .. Len(s) /\ i # 1
      BY <2>1, <2>2, <2>3, <2>4
    <3>2. s[i - 1] = "may_use"
      BY <2>2, <2>4, <3>1
    <3>3. i - 1 # 1 /\ s[(i - 1) - 1] = "va"
      BY <1>2, <1>6, <3>1, <3>2 DEF AheadOf
    <3>4. i - 1 \in 2 .. Len(s) + 1
      BY <2>3, <3>1, <3>3
    <3> QED  BY <2>2, <3>1, <3>3, <3>4
  <2>5. AheadOf("va", p)
    BY <2>4 DEF AheadOf
  <2> QED  BY <1>2, <1>6, <2>1, <2>2, <2>5
<1>7. ASSUME pc[t] \in {"boot", "idle"},
             NEW q \in {<<"choose", pc[t]>>, <<"va", "may_use", "idle">>,
                        <<"va", "idle">>, <<"may_use", pc[t]>>, <<pc[t]>>},
             back' = [back EXCEPT ![t] = q],
             q = <<"va", "may_use", "idle">> => world.linked,
             q = <<"may_use", pc[t]>> => pc'[t] = "va" /\ Libva \in loaded'
      PROVE  Good(pc'[t], back'[t])
  <2>1. back'[t] = q
    BY <1>1, <1>7
  <2>2. pc[t] # "may_use"
    BY <1>7
  <2>3. AheadOf(pc'[t], q) /\ ("may_use" \in ToSet(q) => Libva \in loaded')
    <3>1. CASE q = <<"choose", pc[t]>>
      <4>1. Len(q) = 2 /\ DOMAIN q = {1, 2} /\ q[1] = "choose" /\ q[2] = pc[t]
        BY <3>1
      <4> QED  BY <2>2, <4>1 DEF AheadOf, ToSet
    <3>2. CASE q = <<"va", "may_use", "idle">>
      <4>1. Len(q) = 3 /\ q[1] = "va" /\ q[2] = "may_use" /\ q[3] = "idle"
        BY <3>2
      <4>2. Libva \in loaded'
        BY <1>1, <1>7, <3>2 DEF AheadInv
      <4> QED  BY <4>1, <4>2 DEF AheadOf
    <3>3. CASE q = <<"va", "idle">>
      <4>1. Len(q) = 2 /\ DOMAIN q = {1, 2} /\ q[1] = "va" /\ q[2] = "idle"
        BY <3>3
      <4> QED  BY <4>1 DEF AheadOf, ToSet
    <3>4. CASE q = <<"may_use", pc[t]>>
      <4>1. Len(q) = 2 /\ q[1] = "may_use" /\ q[2] = pc[t]
        BY <3>4
      <4> QED  BY <1>7, <2>2, <3>4, <4>1 DEF AheadOf, InVa
    <3>5. CASE q = <<pc[t]>>
      <4>1. Len(q) = 1 /\ DOMAIN q = {1} /\ q[1] = pc[t]
        BY <3>5
      <4> QED  BY <2>2, <4>1 DEF AheadOf, ToSet
    <3> QED  BY <1>7, <3>1, <3>2, <3>3, <3>4, <3>5
  <2> QED  BY <2>1, <2>3
<1> HIDE DEF Good, s
<1>8. CASE pc[t] \in {"boot", "idle"} /\
           (\/ back' = [back EXCEPT ![t] = <<"choose", pc[t]>>]
            \/ back' = [back EXCEPT ![t] = <<"va", "may_use", "idle">>] /\ world.linked
            \/ back' = [back EXCEPT ![t] = <<"va", "idle">>]
            \/ /\ back' = [back EXCEPT ![t] = <<"may_use", pc[t]>>]
               /\ pc'[t] = "va" /\ Libva \in loaded'
            \/ back' = [back EXCEPT ![t] = <<pc[t]>>])
  <2>1. \E q \in {<<"choose", pc[t]>>, <<"va", "may_use", "idle">>,
                  <<"va", "idle">>, <<"may_use", pc[t]>>, <<pc[t]>>} :
          /\ back' = [back EXCEPT ![t] = q]
          /\ q = <<"va", "may_use", "idle">> => world.linked
          /\ q = <<"may_use", pc[t]>> => pc'[t] = "va" /\ Libva \in loaded'
    BY <1>8
  <2> QED  BY <1>7, <1>8, <2>1
<1> QED  BY <1>4, <1>5, <1>6, <1>8, VaMoves
-----------------------------------------------------------------------------
(* The variable.                                                           *)

ListDue == world.cross /\ ~world.dryrun

\* The use of libva has been settled: there is nothing to do, or some thread
\* has taken it on itself.
Settled == vaDone \/ ~world.cross

\* The variable is what it was, or the right list; whoever took it on itself
\* has written it or is at it; and no thread uses libva before.
ListInv ==
  /\ Listed(world, vaPath)
  /\ vaPath = Unset(world) \/ (ListDue /\ ListRight(world, vaPath))
  /\ \A t \in Threads : pc[t] = "va_list" => vaDone /\ world.cross
  /\ \A t \in Threads : pc[t] = "may_use" => Settled
  /\ users # {} => Settled
  /\ vaDone /\ ListDue => \/ ListRight(world, vaPath)
                          \/ \E t \in Threads : pc[t] = "va_list"

\* The variable is as the process started with it, and nobody uses libva.
LEMMA ListInit == Init => ListInv
<1> SUFFICES ASSUME Init PROVE ListInv
  OBVIOUS
<1>1. /\ vaPath = Unset(world) /\ world \in Worlds /\ vaDone = FALSE /\ users = {}
      /\ \A t \in Threads : pc[t] \in {"boot", "off"}
  BY DEF Init, Unset
<1>2. Listed(world, vaPath)
  BY <1>1, UnsetListed
<1>3. \A t \in Threads : pc[t] # "va_list" /\ pc[t] # "may_use"
  BY <1>1
<1>4. ~vaDone /\ users = {} /\ vaPath = Unset(world)
  BY <1>1
<1>5. vaPath = Unset(world) \/ (ListDue /\ ListRight(world, vaPath))
  BY <1>4
<1>6. /\ \A t \in Threads : pc[t] = "va_list" => vaDone /\ world.cross
      /\ \A t \in Threads : pc[t] = "may_use" => Settled
  BY <1>3
<1>7. users # {} => Settled
  BY <1>4
<1>8. vaDone /\ ListDue => \/ ListRight(world, vaPath)
                          \/ \E t \in Threads : pc[t] = "va_list"
  BY <1>4
<1> QED  BY <1>2, <1>5, <1>6, <1>7, <1>8 DEF ListInv

\* A step that leaves the variable and the flag alone, and whose thread is at
\* neither place of note.
LEMMA ListQuiet ==
  ASSUME TypeInv, ListInv, NEW t \in Threads, Moved(t), world' = world,
         vaPath' = vaPath, vaDone' = vaDone, pc[t] # "va_list", pc'[t] # "va_list",
         pc'[t] = "may_use" => Settled, users' = users \/ Settled
  PROVE  ListInv'
<1>1. \A u \in Threads : u = t \/ pc'[u] = pc[u]
  BY DEF Moved
<1>2. Settled' <=> Settled
  BY DEF Settled
<1>3. ListDue' <=> ListDue
  BY DEF ListDue
<1>4. \A u \in Threads : pc'[u] = "va_list" => vaDone' /\ world'.cross
  BY <1>1 DEF ListInv
<1>5. \A u \in Threads : pc'[u] = "may_use" => Settled
  BY <1>1 DEF ListInv
<1>6. users' # {} => Settled
  BY DEF ListInv
<1>7. vaDone' /\ ListDue => ListRight(world, vaPath) \/ \E u \in Threads : pc'[u] = "va_list"
  BY <1>1 DEF ListInv
<1> QED  BY <1>2, <1>3, <1>4, <1>5, <1>6, <1>7 DEF ListInv

\* A return leads to the use of libva only out of the set-up, with libva
\* loaded.
LEMMA ListReturn ==
  ASSUME TypeInv, AheadInv, NEW t \in Threads, Return(t), pc[t] \notin Resting
  PROVE  /\ Moved(t) /\ pc'[t] # "va_list"
         /\ pc'[t] = "may_use" => pc[t] \in InVa /\ Libva \in loaded
<1>1. /\ Moved(t) /\ pc'[t] = Head(back[t]) /\ ToSet(back[t]) = {pc'[t]} \cup ToSet(back'[t])
  BY ReturnTypes
<1>2. back[t] # <<>> /\ back[t] \in Seq(Returns)
  BY DEF TypeInv, TypeOK, ShapeInv, Returns
<1>3. Head(back[t]) \in Returns
  BY <1>2, PopFacts
<1>4. pc'[t] = "may_use" => pc[t] \in InVa
  BY <1>1, <1>2, AheadHead
<1>5. pc'[t] = "may_use" => Libva \in loaded
  BY <1>1 DEF AheadInv
<1> QED  BY <1>1, <1>3, <1>4, <1>5 DEF Returns

\* The steps of cld_va_setup latch, put the list together and write it.
LEMMA ListVa ==
  ASSUME TypeInv, AheadInv, ListInv, NEW t \in Threads, VaTest(t) \/ VaScan(t) \/ VaList(t)
  PROVE  ListInv'
<1>1. /\ pc \in [Threads -> Labels] /\ vaDone \in BOOLEAN /\ world \in Worlds
  BY DEF TypeInv, TypeOK, Labels
<1>2. Moved(t)
  BY VaTypes
<1>3. \A u \in Threads : u = t \/ pc'[u] = pc[u]
  BY <1>2 DEF Moved
<1>4. CASE VaTest(t)
  <2>1. /\ pc[t] = "va" /\ world' = world /\ vaPath' = vaPath /\ vaDone' = vaDone /\ users' = users
        /\ (vaDone /\ Return(t)) \/ pc'[t] = "va_scan"
    BY <1>1, <1>4 DEF VaTest, At, Goto, vaVars
  <2>2. pc[t] \notin Resting /\ pc[t] # "va_list"
    BY <2>1 DEF Resting
  <2>3. pc'[t] # "va_list" /\ (pc'[t] = "may_use" => Settled)
    BY <2>1, <2>2, ListReturn DEF Settled
  <2> QED  BY <1>2, <2>1, <2>2, <2>3, ListQuiet
<1>5. CASE VaScan(t) /\ ~(world.cross /\ Libva \in loaded)
  <2>1. /\ pc[t] = "va_scan" /\ world' = world /\ vaPath' = vaPath /\ users' = users
        /\ Return(t) /\ vaDone' = (vaDone \/ ~world.cross \/ Libva \in loaded)
    BY <1>5 DEF VaScan, At
  <2>2. pc[t] \notin Resting /\ pc[t] # "va_list"
    BY <2>1 DEF Resting
  <2>3. pc'[t] # "va_list" /\ (pc'[t] = "may_use" => ~world.cross)
    BY <1>5, <2>1, <2>2, ListReturn
  <2>4. Settled => Settled'
    BY <2>1 DEF Settled
  <2>5. ListDue' = ListDue /\ (vaDone' /\ ListDue => vaDone)
    BY <1>1, <1>5, <2>1 DEF ListDue
  <2>6. \A u \in Threads : pc'[u] = "va_list" => vaDone' /\ world'.cross
    BY <1>3, <2>1, <2>3 DEF ListInv
  <2>7. \A u \in Threads : pc'[u] = "may_use" => Settled'
    BY <1>3, <2>1, <2>3, <2>4 DEF ListInv, Settled
  <2>8. users' # {} => Settled'
    BY <2>1, <2>4 DEF ListInv
  <2>9. vaDone' /\ ListDue' => ListRight(world, vaPath) \/ \E u \in Threads : pc'[u] = "va_list"
    BY <1>3, <2>2, <2>5 DEF ListInv
  <2> QED  BY <2>1, <2>5, <2>6, <2>7, <2>8, <2>9 DEF ListInv
<1>6. CASE VaScan(t) /\ world.cross /\ Libva \in loaded
  <2>1. /\ pc[t] = "va_scan" /\ world' = world /\ vaPath' = vaPath /\ users' = users
        /\ pc'[t] = "va_list" /\ vaDone'
    BY <1>1, <1>6 DEF VaScan, At, Goto
  <2>2. Settled' /\ ListDue' = ListDue
    BY <2>1 DEF Settled, ListDue
  <2>3. \A u \in Threads : pc'[u] = "va_list" => vaDone' /\ world'.cross
    BY <1>6, <2>1
  <2> QED  BY <2>1, <2>2, <2>3 DEF ListInv
<1>7. CASE VaList(t)
  <2>1. /\ pc[t] = "va_list" /\ world' = world /\ vaDone' = vaDone /\ users' = users
        /\ vaPath' = (IF world.dryrun THEN vaPath ELSE Extended(world, vaPath))
        /\ Return(t)
    BY <1>7 DEF VaList, At
  <2>2. pc[t] \notin Resting /\ vaDone /\ world.cross
    BY <2>1 DEF Resting, ListInv
  <2>3. pc'[t] # "va_list"
    BY <2>1, <2>2, ListReturn
  <2>4. Settled' /\ ListDue' = ListDue
    BY <2>1, <2>2 DEF Settled, ListDue
  <2>5. \A u \in Threads : pc'[u] = "va_list" => vaDone' /\ world'.cross
    BY <2>1, <2>2
  <2>6. CASE world.dryrun
    BY <2>1, <2>4, <2>5, <2>6 DEF ListInv, ListDue
  <2>7. CASE ~world.dryrun
    <3>1. Listed(world, vaPath) /\ (vaPath = Unset(world) \/ ListRight(world, vaPath))
      BY DEF ListInv
    <3>2. Listed(world, vaPath') /\ ListRight(world, vaPath')
      BY <1>1, <2>1, <2>7, <3>1, ExtendedRight
    <3>3. ListDue
      BY <2>2, <2>7 DEF ListDue
    <3> QED  BY <2>1, <2>4, <2>5, <3>2, <3>3 DEF ListInv
  <2> QED  BY <2>6, <2>7
<1> QED  BY <1>4, <1>5, <1>6, <1>7

\* Every step leaves the variable as it was or writes the list, once.
LEMMA ListStep ==
  ASSUME TypeInv, AheadInv, ListInv, NEW t \in Threads, Step(t)
  PROVE  ListInv'
<1>1. Moved(t) /\ pc \in [Threads -> Labels] /\ world' = world
  BY TypeStep, VaMoves DEF TypeInv, TypeOK, Labels
<1>2. CASE VaTest(t) \/ VaScan(t) \/ VaList(t)
  BY <1>2, ListVa
<1>3. ASSUME vaPath' = vaPath, vaDone' = vaDone, users' = users \/ Settled,
             pc[t] \notin InVa,
             \/ Return(t) /\ pc[t] \notin Resting
             \/ pc'[t] \notin {"va_list", "may_use"}
      PROVE  ListInv'
  <2>1. pc'[t] # "va_list" /\ pc'[t] # "may_use" /\ pc[t] # "va_list"
    BY <1>3, ListReturn DEF InVa
  <2> QED  BY <1>1, <1>3, <2>1, ListQuiet
<1>4. CASE SetTest(t) \/ SetBegin(t) \/ SetEnd(t)
  BY <1>1, <1>3, <1>4 DEF SetTest, SetBegin, SetEnd, At, Goto, vaVars, InVa, Resting
<1>5. CASE SetNext(t)
  BY <1>1, <1>3, <1>5 DEF SetNext, Open, At, Goto, vaVars, InVa
<1>6. CASE Choose(t) \/ SetVendors(t) \/ Rest(t)
  BY <1>1, <1>3, <1>6 DEF Choose, SetVendors, Rest, Miss, At, Goto, vaVars, InVa
<1>7. ASSUME NEW object, NEW file, NEW otherwise \in {"host", "rest", "alt", "adopt"},
             OpenTarget(t, object, file, otherwise)
      PROVE  vaPath' = vaPath /\ vaDone' = vaDone /\ users' = users
             /\ pc'[t] \notin {"va_list", "may_use"}
  BY <1>1, <1>7 DEF OpenTarget, Open, Goto, vaVars
<1>8. CASE OpenBundled(t) \/ OpenHost(t) \/ OpenAlt(t) \/ OpenLast(t)
  <2>1. pc[t] \notin InVa
    BY <1>8 DEF OpenBundled, OpenHost, OpenAlt, OpenLast, At, InVa
  <2>2. \/ \E object, file : \E otherwise \in {"host", "rest", "alt", "adopt"} :
             OpenTarget(t, object, file, otherwise)
        \/ Miss(t, "alt") \/ Miss(t, "rest")
    BY <1>8 DEF OpenBundled, OpenHost, OpenAlt, OpenLast
  <2>3. /\ vaPath' = vaPath /\ vaDone' = vaDone /\ users' = users
        /\ pc'[t] \notin {"va_list", "may_use"}
    <3>1. CASE Miss(t, "alt") \/ Miss(t, "rest")
      BY <1>1, <3>1 DEF Miss, Goto, vaVars
    <3> QED  BY <1>7, <2>2, <3>1
  <2> QED  BY <1>3, <2>1, <2>3
<1>9. CASE Adopt(t)
  BY <1>3, <1>9 DEF Adopt, At, vaVars, InVa, Resting
<1>10. CASE MayUse(t)
  <2>1. /\ pc[t] = "may_use" /\ Return(t) /\ vaPath' = vaPath /\ vaDone' = vaDone
    BY <1>10 DEF MayUse, At
  <2>2. Settled
    BY <2>1 DEF ListInv
  <2> QED  BY <1>3, <2>1, <2>2 DEF InVa, Resting
<1>11. CASE Draw(t) \/ Construct(t) \/ Start(t) \/ LoadVa(t) \/ LoadOther(t)
  BY <1>1, <1>3, <1>11 DEF Draw, Construct, Start, LoadVa, LoadOther, At, Goto, vaVars, InVa
<1> QED  BY <1>2, <1>4, <1>5, <1>6, <1>8, <1>9, <1>10, <1>11 DEF Step

\* Both are inductive, together with the type.
LEMMA VaNext ==
  TypeInv /\ AheadInv /\ ListInv /\ [Next]_vars => AheadInv' /\ ListInv'
<1> SUFFICES ASSUME TypeInv, AheadInv, ListInv, [Next]_vars
             PROVE  AheadInv' /\ ListInv'
  OBVIOUS
<1>1. CASE Next
  BY <1>1, AheadStep, ListStep DEF Next
<1>2. CASE UNCHANGED vars
  <2>1. UNCHANGED <<world, pc, back, loaded, vaDone, vaPath, users>>
    BY <1>2 DEF vars, vaVars
  <2> QED  BY <2>1 DEF AheadInv, ListInv, Settled, ListDue
<1> QED  BY <1>1, <1>2

\* Once a load of libva has returned the list is there, or a thread is putting
\* it there: however many threads load it at once, whatever was in the variable
\* and however many directories are tried; and an entry that does not fit, a
\* directory named twice or a second pass leaves it no other list.
THEOREM VaListFirst == Spec => []VaBeforeUse
<1>1. ListInv => VaBeforeUse
  <2> SUFFICES ASSUME ListInv PROVE VaBeforeUse
    OBVIOUS
  <2>1. \/ vaPath = [items |-> world.vaPath, piece |-> None]
        \/ world.cross /\ ~world.dryrun /\ ListRight(world, vaPath)
    BY DEF ListInv, Unset, ListDue
  <2>2. ASSUME users # {}, world.cross, ~world.dryrun
        PROVE  ListRight(world, vaPath) \/ \E t \in Threads : At(t, "va_list")
    BY <2>2 DEF ListInv, Settled, ListDue, At
  <2> QED  BY <2>1, <2>2 DEF VaBeforeUse
<1> QED  BY <1>1, TypeInit, TypeNext, AheadInit, ListInit, VaNext, PTL DEF Spec
-----------------------------------------------------------------------------
(* The walk of the conf files: names and their order.                      *)

\* A name, as a sequence of numbers.
Names == Seq(Int)

\* The first place where two different names differ.
LEMMA FirstDifference ==
  ASSUME NEW m \in Names, NEW n \in Names, m # n
  PROVE  \E i \in Nat \ {0} :
           /\ \A j \in 1..i-1 : j \in DOMAIN m /\ j \in DOMAIN n /\ m[j] = n[j]
           /\ \/ i \in DOMAIN m /\ i \in DOMAIN n /\ m[i] # n[i]
              \/ i \in DOMAIN m /\ i = Len(n) + 1
              \/ i \in DOMAIN n /\ i = Len(m) + 1
<1> DEFINE D == {i \in Nat \ {0} : ~(i \in DOMAIN m /\ i \in DOMAIN n /\ m[i] = n[i])}
<1>1. /\ Len(m) \in Nat /\ DOMAIN m = 1..Len(m)
      /\ Len(n) \in Nat /\ DOMAIN n = 1..Len(n)
  BY DEF Names
<1>2. Len(m) + 1 \in D
  BY <1>1
<1>3. PICK i \in D : \A x \in D : i <= x
  <2>1. D \in SUBSET Nat /\ D # {}
    BY <1>2
  <2> HIDE DEF D
  <2> QED BY <2>1, LeastExists
<1>4. \A j \in 1..i-1 : j \in DOMAIN m /\ j \in DOMAIN n /\ m[j] = n[j]
  <2> SUFFICES ASSUME NEW j \in 1..i-1 PROVE j \notin D
    BY <1>3
  <2> HIDE DEF D
  <2>1. D \subseteq Nat
    BY DEF D
  <2> QED BY <1>3, <2>1
<1>5. i \in DOMAIN m \/ i \in DOMAIN n
  <2> SUFFICES ASSUME i \notin DOMAIN m, i \notin DOMAIN n PROVE FALSE
    OBVIOUS
  <2>1. i > Len(m) /\ i > Len(n)
    BY <1>1, <1>3
  <2>2. i = Len(m) + 1
    <3> HIDE DEF D
    <3>1. i <= Len(m) + 1
      BY <1>2, <1>3
    <3>2. i \in Nat
      BY DEF D
    <3> QED BY <1>1, <2>1, <3>1, <3>2
  <2>3. Len(n) = Len(m)
    <3> HIDE DEF D
    <3>1. Len(n) <= Len(m)
      BY <1>1, <2>1, <2>2
    <3>2. Len(m) # 0 => Len(m) \in 1..i-1
      BY <1>1, <2>2
    <3>3. Len(m) # 0 => Len(m) \in 1..Len(n)
      BY <1>1, <1>4, <3>2
    <3>4. Len(m) \in Nat /\ Len(n) \in Nat
      BY <1>1
    <3>5. Len(m) # 0 => Len(m) <= Len(n)
      BY <3>3, <3>4
    <3> QED BY <3>1, <3>4, <3>5
  <2>4. \A j \in 1..Len(m) : m[j] = n[j]
    BY <1>1, <1>4, <2>2
  <2> QED BY <2>3, <2>4, SeqEqual DEF Names
<1>6. i \in Nat \ {0} /\ ~(i \in DOMAIN m /\ i \in DOMAIN n /\ m[i] = n[i])
  BY <1>3
<1>7. i \in DOMAIN m /\ i \notin DOMAIN n => i = Len(n) + 1
  <2> SUFFICES ASSUME i \in DOMAIN m, i \notin DOMAIN n, i # Len(n) + 1 PROVE FALSE
    OBVIOUS
  <2>1. Len(n) + 1 \in 1..i-1
    BY <1>1, <1>6
  <2> QED BY <1>1, <1>4, <2>1
<1>8. i \in DOMAIN n /\ i \notin DOMAIN m => i = Len(m) + 1
  <2> SUFFICES ASSUME i \in DOMAIN n, i \notin DOMAIN m, i # Len(m) + 1 PROVE FALSE
    OBVIOUS
  <2>1. Len(m) + 1 \in 1..i-1
    BY <1>1, <1>6
  <2> QED BY <1>1, <1>4, <2>1
<1> HIDE DEF D
<1> QED BY <1>4, <1>5, <1>6, <1>7, <1>8

\* strcmp orders the names: none is before itself, ...
LEMMA BeforeIrreflexive ==
  ASSUME NEW n \in Names
  PROVE  ~ Before(n, n)
BY DEF Before, Names

\* ... what is before another is before what that is before, ...
LEMMA BeforeTransitive ==
  ASSUME NEW a \in Names, NEW b \in Names, NEW c \in Names, Before(a, b), Before(b, c)
  PROVE  Before(a, c)
<1>1. /\ Len(a) \in Nat /\ DOMAIN a = 1..Len(a) /\ \A x \in DOMAIN a : a[x] \in Int
      /\ Len(b) \in Nat /\ DOMAIN b = 1..Len(b) /\ \A x \in DOMAIN b : b[x] \in Int
      /\ Len(c) \in Nat /\ DOMAIN c = 1..Len(c) /\ \A x \in DOMAIN c : c[x] \in Int
  BY DEF Names
<1>2. PICK i \in 1..Len(b) : /\ \A j \in 1..i-1 : j \in DOMAIN a /\ a[j] = b[j]
                             /\ i \in DOMAIN a => a[i] < b[i]
  BY DEF Before
<1>3. PICK k \in 1..Len(c) : /\ \A j \in 1..k-1 : j \in DOMAIN b /\ b[j] = c[j]
                             /\ k \in DOMAIN b => b[k] < c[k]
  BY DEF Before
<1>4. CASE i < k
  <2>1. i \in 1..Len(c) /\ b[i] = c[i] /\ \A j \in 1..i-1 : b[j] = c[j]
    BY <1>1, <1>3, <1>4
  <2> QED BY <1>2, <2>1 DEF Before
<1>5. CASE i = k
  <2>1. k \in DOMAIN a => a[k] < c[k]
    BY <1>1, <1>2, <1>3, <1>5
  <2> QED BY <1>2, <1>3, <1>5, <2>1 DEF Before
<1>6. CASE i > k
  <2>1. k \in 1..i-1 /\ k \in DOMAIN b
    BY <1>1, <1>6
  <2>2. a[k] = b[k] /\ \A j \in 1..k-1 : j \in DOMAIN a /\ a[j] = b[j]
    BY <1>1, <1>2, <1>6, <2>1
  <2>3. k \in DOMAIN a => a[k] < c[k]
    BY <1>3, <2>1, <2>2
  <2> QED BY <1>3, <2>2, <2>3 DEF Before
<1> QED BY <1>1, <1>4, <1>5, <1>6

\* ... and of two names one is before the other.
LEMMA BeforeTotal ==
  ASSUME NEW m \in Names, NEW n \in Names, m # n
  PROVE  Before(m, n) \/ Before(n, m)
<1>1. /\ Len(m) \in Nat /\ DOMAIN m = 1..Len(m) /\ \A x \in DOMAIN m : m[x] \in Int
      /\ Len(n) \in Nat /\ DOMAIN n = 1..Len(n) /\ \A x \in DOMAIN n : n[x] \in Int
  BY DEF Names
<1>2. PICK i \in Nat \ {0} :
           /\ \A j \in 1..i-1 : j \in DOMAIN m /\ j \in DOMAIN n /\ m[j] = n[j]
           /\ \/ i \in DOMAIN m /\ i \in DOMAIN n /\ m[i] # n[i]
              \/ i \in DOMAIN m /\ i = Len(n) + 1
              \/ i \in DOMAIN n /\ i = Len(m) + 1
  BY FirstDifference
<1>3. CASE i \in DOMAIN m /\ i \in DOMAIN n /\ m[i] # n[i]
  <2>1. m[i] < n[i] \/ n[i] < m[i]
    BY <1>1, <1>3
  <2> QED BY <1>1, <1>2, <1>3, <2>1 DEF Before
<1>4. CASE i \in DOMAIN m /\ i = Len(n) + 1
  <2>1. i \notin DOMAIN n
    BY <1>1, <1>4
  <2> QED BY <1>1, <1>2, <1>4, <2>1 DEF Before
<1>5. CASE i \in DOMAIN n /\ i = Len(m) + 1
  <2>1. i \notin DOMAIN m
    BY <1>1, <1>5
  <2> QED BY <1>1, <1>2, <1>5, <2>1 DEF Before
<1> QED BY <1>2, <1>3, <1>4, <1>5

\* A finite set of names.
Sets == {S \in SUBSET Names : IsFiniteSet(S)}

\* The last of a set of names.
LEMMA LastExists ==
  ASSUME NEW S \in Sets, S # {}
  PROVE  \E m \in S : \A y \in S \ {m} : Before(y, m)
<1> DEFINE Has == {k \in Nat : \A R \in Sets : Cardinality(R) = k + 1 =>
                     \E m \in R : \A y \in R \ {m} : Before(y, m)}
<1>1. 0 \in Has
  <2> SUFFICES ASSUME NEW R \in Sets, Cardinality(R) = 1
               PROVE  \E m \in R : \A y \in R \ {m} : Before(y, m)
    OBVIOUS
  <2>1. PICK x : R = {x}
    BY FS_Singleton DEF Sets
  <2> QED BY <2>1
<1>2. ASSUME NEW k \in Nat, k \in Has PROVE k + 1 \in Has
  <2> SUFFICES ASSUME NEW R \in Sets, Cardinality(R) = k + 2
               PROVE  \E m \in R : \A y \in R \ {m} : Before(y, m)
    OBVIOUS
  <2>1. IsFiniteSet(R) /\ R \subseteq Names
    BY DEF Sets
  <2>2. R # {}
    BY <2>1, FS_EmptySet
  <2>3. PICK x : x \in R
    BY <2>2
  <2>4. R \ {x} \in Sets /\ Cardinality(R \ {x}) = k + 1
    BY <2>1, <2>3, FS_RemoveElement DEF Sets
  <2>5. PICK m \in R \ {x} : \A y \in (R \ {x}) \ {m} : Before(y, m)
    BY <1>2, <2>4
  <2>6. CASE Before(m, x)
    <3>1. \A y \in R \ {x} : Before(y, x)
      BY <2>1, <2>3, <2>5, <2>6, BeforeTransitive
    <3> QED BY <2>3, <3>1
  <2>7. CASE Before(x, m)
    BY <2>5, <2>7
  <2> QED BY <2>1, <2>3, <2>5, <2>6, <2>7, BeforeTotal
<1>3. Nat \subseteq Has
  <2> HIDE DEF Has
  <2> QED BY <1>1, <1>2, SetInduction
<1>4. IsFiniteSet(S) /\ Cardinality(S) \in Nat /\ Cardinality(S) # 0
  BY FS_CardinalityType, FS_EmptySet DEF Sets
<1>5. Cardinality(S) - 1 \in Has /\ Cardinality(S) = (Cardinality(S) - 1) + 1
  BY <1>3, <1>4
<1> QED BY <1>5

\* The first n of s come in order.
Sorted(s, n) == \A i, j \in 1..n : i < j => Before(s[i], s[j])

\* A set of names can be sorted.
LEMMA SortExists ==
  ASSUME NEW S \in Sets
  PROVE  \E s \in [1..Cardinality(S) -> S] : Sorted(s, Cardinality(S))
<1> DEFINE Has == {k \in Nat : \A R \in Sets : Cardinality(R) = k =>
                     \E s \in [1..k -> R] : Sorted(s, k)}
<1>1. 0 \in Has
  <2> SUFFICES ASSUME NEW R \in Sets PROVE \E s \in [1..0 -> R] : Sorted(s, 0)
    OBVIOUS
  <2>1. [i \in 1..0 |-> {}] \in [1..0 -> R] /\ Sorted([i \in 1..0 |-> {}], 0)
    BY DEF Sorted
  <2> QED BY <2>1
<1>2. ASSUME NEW k \in Nat, k \in Has PROVE k + 1 \in Has
  <2> SUFFICES ASSUME NEW R \in Sets, Cardinality(R) = k + 1
               PROVE  \E s \in [1..k+1 -> R] : Sorted(s, k + 1)
    OBVIOUS
  <2>1. IsFiniteSet(R) /\ R \subseteq Names
    BY DEF Sets
  <2>2. R # {}
    BY <2>1, FS_EmptySet
  <2>3. PICK m \in R : \A y \in R \ {m} : Before(y, m)
    BY <2>2, LastExists
  <2>4. R \ {m} \in Sets /\ Cardinality(R \ {m}) = k
    <3>1. IsFiniteSet(R \ {m}) /\ Cardinality(R \ {m}) = (k + 1) - 1
      BY <2>1, <2>3, FS_RemoveElement
    <3> QED BY <2>1, <3>1 DEF Sets
  <2>5. PICK s \in [1..k -> R \ {m}] : Sorted(s, k)
    BY <1>2, <2>4
  <2> DEFINE t == [i \in 1..k+1 |-> IF i = k + 1 THEN m ELSE s[i]]
  <2>6. t \in [1..k+1 -> R]
    BY <2>3, <2>5
  <2>7. ASSUME NEW i \in 1..k+1, NEW j \in 1..k+1, i < j PROVE Before(t[i], t[j])
    <3>1. i \in 1..k /\ t[i] = s[i] /\ s[i] \in R \ {m}
      BY <2>5, <2>7
    <3>2. CASE j = k + 1
      BY <2>3, <3>1, <3>2
    <3>3. CASE j # k + 1
      <4>1. j \in 1..k /\ t[j] = s[j]
        BY <3>3
      <4> QED BY <2>5, <2>7, <3>1, <4>1 DEF Sorted
    <3> QED BY <3>2, <3>3
  <2> HIDE DEF t
  <2>8. Sorted(t, k + 1)
    BY <2>7 DEF Sorted
  <2> QED BY <2>6, <2>8
<1>3. Nat \subseteq Has
  <2> HIDE DEF Has
  <2> QED BY <1>1, <1>2, SetInduction
<1>4. Cardinality(S) \in Nat
  BY FS_CardinalityType DEF Sets
<1> QED BY <1>3, <1>4

\* The set of names sorted is a sequence of them, and of all of them.
LEMMA InOrderIsAll ==
  ASSUME NEW S \in Sets
  PROVE  /\ InOrder(S) \in Seq(S)
         /\ ToSet(InOrder(S)) = S
<1> DEFINE n == Cardinality(S)
           s == InOrder(S)
<1>1. n \in Nat /\ IsFiniteSet(S) /\ S \subseteq Names
  BY FS_CardinalityType DEF Sets
<1>2. s \in [1..n -> S] /\ Sorted(s, n)
  BY SortExists DEF InOrder, Sorted
<1> HIDE DEF s
<1>3. ASSUME NEW i \in 1..n, NEW j \in 1..n, s[i] = s[j] PROVE i = j
  <2>1. s[i] \in Names /\ ~ Before(s[i], s[i])
    BY <1>1, <1>2, BeforeIrreflexive
  <2>2. ~(i < j) /\ ~(j < i)
    BY <1>2, <1>3, <2>1 DEF Sorted
  <2> QED BY <1>1, <2>2
<1>4. s \in Injection(1..n, S)
  BY <1>2, <1>3 DEF Injection, IsInjective
<1>5. Cardinality(1..n) = n
  BY <1>1, FS_Interval
<1>6. s \in Surjection(1..n, S)
  <2> HIDE DEF n
  <2>1. Cardinality(1..n) = Cardinality(S)
    BY <1>5 DEF n
  <2> QED BY <1>1, <1>4, <2>1, FS_Injection
<1>7. ToSet(s) = S
  <2>1. DOMAIN s = 1..n
    BY <1>2
  <2>2. \A x \in S : \E i \in 1..n : s[i] = x
    BY <1>6 DEF Surjection
  <2> QED BY <1>2, <2>1, <2>2 DEF ToSet
<1>8. s \in Seq(S)
  BY <1>1, <1>2, SeqDef
<1> QED BY <1>7, <1>8 DEF s
-----------------------------------------------------------------------------
(* The files one include reads.                                            *)

\* What a name has to end in is a sequence.
LEMMA EndingIsName ==
  ASSUME NEW base \in Names
  PROVE  Ending(base) \in Names
<1>1. Len(base) \in Nat /\ DOMAIN base = 1..Len(base) /\ \A i \in DOMAIN base : base[i] \in Int
  BY DEF Names
<1>2. ASSUME \E i \in DOMAIN base : base[i] = Star
      PROVE  Ending(base) \in Names
  <2> DEFINE S == {i \in DOMAIN base : base[i] = Star}
             IsFirst(i) == base[i] = Star /\ \A j \in 1..i-1 : base[j] # Star
             star == CHOOSE i \in DOMAIN base : IsFirst(i)
  <2>1. PICK m \in S : \A x \in S : m <= x
    <3>1. S \in SUBSET Nat /\ S # {}
      BY <1>1, <1>2
    <3> HIDE DEF S
    <3> QED BY <3>1, LeastExists
  <2>2. m \in DOMAIN base /\ IsFirst(m)
    <3>1. \A j \in 1..m-1 : j \in DOMAIN base /\ ~(m <= j)
      BY <1>1, <2>1
    <3> QED BY <2>1, <3>1
  <2>3. star \in DOMAIN base
    <3> HIDE DEF IsFirst
    <3> QED BY <2>2
  <2>4. Ending(base) = SubSeq(base, star + 1, Len(base))
    BY <1>2 DEF Ending
  <2> HIDE DEF star
  <2>5. star \in Nat /\ \A i \in star + 1 .. Len(base) : base[i] \in Int
    BY <1>1, <2>3
  <2> QED BY <1>1, <2>4, <2>5, SubSeqProperties DEF Names
<1>3. ASSUME ~ \E i \in DOMAIN base : base[i] = Star
      PROVE  Ending(base) \in Names
  BY <1>3 DEF Ending
<1> QED BY <1>2, <1>3

\* The test of the last characters of a name is whether the name ends in them.
LEMMA EndsIsSuffix ==
  ASSUME NEW name \in Names, NEW want \in Names
  PROVE  Ends(name, want) <=> /\ Len(want) <= Len(name)
                              /\ SubSeq(name, Len(name) - Len(want) + 1, Len(name)) = want
<1>1. Len(name) \in Nat /\ DOMAIN name = 1..Len(name) /\ \A i \in DOMAIN name : name[i] \in Int
  BY DEF Names
<1>2. Len(want) \in Nat
  BY DEF Names
<1>3. ASSUME NEW k \in 0..Len(name), SubSeq(name, k + 1, Len(name)) = want
      PROVE  k = Len(name) - Len(want)
  <2>1. \A i \in k + 1 .. Len(name) : name[i] \in Int
    BY <1>1
  <2>2. Len(SubSeq(name, k + 1, Len(name))) =
          IF k + 1 <= Len(name) THEN Len(name) - (k + 1) + 1 ELSE 0
    BY <1>1, <2>1, SubSeqProperties
  <2>3. k \in Nat /\ k <= Len(name) /\ Len(name) \in Nat
    BY <1>1
  <2>4. Len(want) = IF k + 1 <= Len(name) THEN Len(name) - (k + 1) + 1 ELSE 0
    BY <1>3, <2>2
  <2> QED BY <2>3, <2>4
<1>4. Len(want) <= Len(name) => Len(name) - Len(want) \in 0..Len(name)
  BY <1>1, <1>2
<1>5. ASSUME Ends(name, want)
      PROVE  /\ Len(want) <= Len(name)
             /\ SubSeq(name, Len(name) - Len(want) + 1, Len(name)) = want
  <2>1. PICK k \in 0..Len(name) : SubSeq(name, k + 1, Len(name)) = want
    BY <1>5 DEF Ends
  <2>2. k = Len(name) - Len(want)
    BY <1>3, <2>1
  <2> QED BY <1>1, <1>2, <2>1, <2>2
<1>6. ASSUME Len(want) <= Len(name),
             SubSeq(name, Len(name) - Len(want) + 1, Len(name)) = want
      PROVE  Ends(name, want)
  BY <1>4, <1>6 DEF Ends
<1> QED BY <1>5, <1>6

\* The names of a directory that are kept for an ending.
AllKept(names, want) == {n \in ToSet(names) : Kept(n, want)}
Listings == Seq(Names \ {<<>>})

\* The names of a directory are finitely many.
LEMMA ListingFinite ==
  ASSUME NEW names \in Listings
  PROVE  ToSet(names) \subseteq Names \ {<<>>} /\ IsFiniteSet(ToSet(names))
<1>1. Len(names) \in Nat /\ DOMAIN names = 1..Len(names)
      /\ \A i \in DOMAIN names : names[i] \in Names \ {<<>>}
  BY DEF Listings
<1>2. names \in Surjection(1..Len(names), ToSet(names))
  <2>1. names = [i \in 1..Len(names) |-> names[i]]
    BY DEF Listings
  <2>2. \A i \in 1..Len(names) : names[i] \in ToSet(names)
    BY <1>1 DEF ToSet
  <2>3. names \in [1..Len(names) -> ToSet(names)]
    BY <2>1, <2>2
  <2> QED BY <1>1, <2>3 DEF Surjection, ToSet
<1>3. IsFiniteSet(1..Len(names))
  BY <1>1, FS_Interval
<1>4. IsFiniteSet(ToSet(names))
  BY <1>2, <1>3, FS_Surjection
<1> QED BY <1>1, <1>4 DEF ToSet

\* Only files that match are read; and, when there is room for them, all of
\* them, in an order that is that of their names.
LEMMA SelectedIs ==
  ASSUME NEW names \in Listings, NEW want \in Names
  PROVE  /\ Selected(names, want) \in Seq(AllKept(names, want))
         /\ Cardinality(AllKept(names, want)) <= MaxNames =>
              /\ Selected(names, want) = InOrder(AllKept(names, want))
              /\ ToSet(Selected(names, want)) = AllKept(names, want)
<1> DEFINE keptOf(k) == {n \in ToSet(SubSeq(names, 1, k)) : Kept(n, want)}
           ks == {j \in DOMAIN names : Cardinality(keptOf(j)) <= MaxNames}
           some == UNION {keptOf(k) : k \in ks}
           all == AllKept(names, want)
<1>1. Len(names) \in Nat /\ DOMAIN names = 1..Len(names)
      /\ \A i \in DOMAIN names : names[i] \in Names \ {<<>>}
  BY DEF Listings
<1>2. Selected(names, want) = InOrder(some)
  BY DEF Selected
<1>3. ASSUME NEW k \in DOMAIN names
      PROVE  keptOf(k) \subseteq all
  <2>1. k \in Nat /\ k <= Len(names) /\ \A i \in 1..k : names[i] \in Names \ {<<>>}
    BY <1>1
  <2>2. /\ SubSeq(names, 1, k) \in Seq(Names \ {<<>>})
        /\ Len(SubSeq(names, 1, k)) = IF 1 <= k THEN k - 1 + 1 ELSE 0
        /\ \A i \in 1..k-1+1 : SubSeq(names, 1, k)[i] = names[1 + i - 1]
    BY <2>1, SubSeqProperties, 1 \in Int
  <2>3. DOMAIN SubSeq(names, 1, k) \subseteq DOMAIN names
        /\ \A i \in DOMAIN SubSeq(names, 1, k) : SubSeq(names, 1, k)[i] = names[i]
    <3>1. DOMAIN SubSeq(names, 1, k) = 1..Len(SubSeq(names, 1, k))
      BY <2>2, LenProperties
    <3> QED BY <1>1, <2>1, <2>2, <3>1
  <2> QED BY <2>3 DEF ToSet, AllKept
<1>4. some \subseteq all
  BY <1>3
<1>5. all \subseteq Names /\ IsFiniteSet(all)
  <2>1. all \in SUBSET ToSet(names)
    BY DEF AllKept
  <2> HIDE DEF all
  <2> QED BY <2>1, ListingFinite, FS_Subset
<1>6. some \in Sets
  <2> HIDE DEF some, all
  <2> QED BY <1>4, <1>5, FS_Subset DEF Sets
<1>7. Cardinality(all) <= MaxNames => some = all
  <2> SUFFICES ASSUME Cardinality(all) <= MaxNames PROVE all \subseteq some
    BY <1>4
  <2>1. CASE Len(names) = 0
    BY <1>1, <2>1 DEF ToSet, AllKept
  <2>2. CASE Len(names) # 0
    <3>1. Len(names) \in DOMAIN names
      BY <1>1, <2>2
    <3>2. SubSeq(names, 1, Len(names)) = names
      BY SubSeqFull DEF Listings
    <3>3. keptOf(Len(names)) = all
      BY <3>2 DEF AllKept
    <3> HIDE DEF all, keptOf
    <3>4. Len(names) \in ks
      BY <3>1, <3>3
    <3> QED BY <3>3, <3>4
  <2> QED BY <2>1, <2>2
<1>8. InOrder(some) \in Seq(some) /\ ToSet(InOrder(some)) = some
  <2> HIDE DEF some
  <2> QED BY <1>6, InOrderIsAll
<1>9. InOrder(some) \in Seq(all)
  <2> HIDE DEF some, all
  <2> QED BY <1>4, <1>8, SeqMonotonic
<1> HIDE DEF some
<1> QED BY <1>2, <1>7, <1>8, <1>9

\* A directory read backwards has the same names.
LEMMA ReverseSame ==
  ASSUME NEW names \in Listings
  PROVE  Reverse(names) \in Listings /\ ToSet(Reverse(names)) = ToSet(names)
<1>1. Len(names) \in Nat /\ DOMAIN names = 1..Len(names)
      /\ \A i \in DOMAIN names : names[i] \in Names \ {<<>>}
  BY DEF Listings
<1>2. DOMAIN Reverse(names) = 1..Len(names)
      /\ \A i \in 1..Len(names) : /\ (Len(names) - i) + 1 \in 1..Len(names)
                                 /\ Reverse(names)[i] = names[(Len(names) - i) + 1]
  BY <1>1 DEF Reverse
<1>3. Reverse(names) \in [1..Len(names) -> Names \ {<<>>}]
  BY <1>1, <1>2 DEF Reverse
<1>4. Reverse(names) \in Listings
  BY <1>1, <1>3, SeqDef DEF Listings
<1>5. \A i \in 1..Len(names) : /\ (Len(names) - i) + 1 \in 1..Len(names)
                              /\ (Len(names) - ((Len(names) - i) + 1)) + 1 = i
  BY <1>1
<1>6. \A i \in 1..Len(names) : Reverse(names)[(Len(names) - i) + 1] = names[i]
  BY <1>2, <1>5
<1>7. ToSet(Reverse(names)) \subseteq ToSet(names)
  BY <1>1, <1>2 DEF ToSet
<1>8. ToSet(names) \subseteq ToSet(Reverse(names))
  <2>1. \A i \in 1..Len(names) : \E j \in DOMAIN Reverse(names) : Reverse(names)[j] = names[i]
    BY <1>2, <1>5, <1>6
  <2> QED BY <1>1, <2>1 DEF ToSet
<1> QED BY <1>4, <1>7, <1>8
-----------------------------------------------------------------------------
(* The loops and the levels of the walk, step by step.                     *)

\* The lines a tree may have, and what one level of the walk may be.
Lines(fs) == [include : BOOLEAN, dir : Mentioned(fs), base : Names]
Walks(fs) == [Paths(fs) \X WalkStates(fs) -> WalkStates(fs)]

\* What a tree holds.
LEMMA TreeFacts ==
  ASSUME NEW fs, IsTree(fs)
  PROVE  /\ \A p \in DOMAIN fs.lines :
              /\ fs.lines[p] \in Seq(Lines(fs))
              /\ Len(fs.lines[p]) \in Nat
              /\ ToSet(fs.lines[p]) = {fs.lines[p][k] : k \in 1..Len(fs.lines[p])}
              /\ \A k \in 1..Len(fs.lines[p]) : fs.lines[p][k] \in Lines(fs)
              /\ \A l \in ToSet(fs.lines[p]) : l \in Lines(fs)
         /\ \A c \in DOMAIN fs.listing :
              /\ fs.listing[c] \in Listings
              /\ \A n \in ToSet(fs.listing[c]) : n \in Names \ {<<>>} /\ <<c, n>> \in Paths(fs)
         /\ Root \in Paths(fs)
<1>1. \A p \in DOMAIN fs.lines : fs.lines[p] \in Seq(Lines(fs))
  BY DEF IsTree, Lines, Names
<1>2. ASSUME NEW p \in DOMAIN fs.lines
      PROVE  /\ Len(fs.lines[p]) \in Nat
             /\ ToSet(fs.lines[p]) = {fs.lines[p][k] : k \in 1..Len(fs.lines[p])}
             /\ \A k \in 1..Len(fs.lines[p]) : fs.lines[p][k] \in Lines(fs)
             /\ \A l \in ToSet(fs.lines[p]) : l \in Lines(fs)
  <2> DEFINE s == fs.lines[p]
  <2>1. s \in Seq(Lines(fs))
    BY <1>1
  <2> HIDE DEF s
  <2>2. Len(s) \in Nat /\ DOMAIN s = 1..Len(s) /\ \A k \in 1..Len(s) : s[k] \in Lines(fs)
    BY <2>1, LenProperties, ElementOfSeq
  <2>3. ToSet(s) = {s[k] : k \in 1..Len(s)}
    BY <2>2 DEF ToSet
  <2>4. \A l \in ToSet(s) : l \in Lines(fs)
    BY <2>2, <2>3
  <2> QED BY <2>2, <2>3, <2>4 DEF s
<1>3. \A c \in DOMAIN fs.listing : fs.listing[c] \in Listings
  BY DEF IsTree, Listings, Names
<1>4. \A c \in DOMAIN fs.listing : \A n \in ToSet(fs.listing[c]) : n \in Names \ {<<>>}
  BY <1>3, ListingFinite
<1>5. \A c \in DOMAIN fs.listing : \A n \in ToSet(fs.listing[c]) : <<c, n>> \in Paths(fs)
  BY DEF Paths
<1>6. Root \in Paths(fs)
  BY DEF Paths
<1> QED BY <1>1, <1>2, <1>3, <1>4, <1>5, <1>6

\* c goes through the states between the files of one include, ...
Tries(fs, sub, dir, names, st, c) ==
  /\ c \in [0..Len(names) -> WalkStates(fs)]
  /\ c[0] = st
  /\ \A k \in 1..Len(names) : c[k] = TryFile(sub, <<dir, names[k]>>, c[k-1])

\* ... or those between the lines of a file.
Reads(fs, accepts, sub, lines, st, c) ==
  /\ c \in [0..Len(lines) -> WalkStates(fs)]
  /\ c[0] = st
  /\ \A k \in 1..Len(lines) : c[k] = ReadLine(fs, accepts, sub, lines[k], c[k-1])

\* There are such states, and the last of them is what the loop ends in.
LEMMA TryFilesIs ==
  ASSUME NEW fs, NEW sub \in Walks(fs), NEW dir, NEW N, NEW names \in Seq(N),
         \A n \in N : <<dir, n>> \in Paths(fs), NEW st \in WalkStates(fs)
  PROVE  \E c : /\ Tries(fs, sub, dir, names, st, c)
                /\ TryFiles(sub, dir, names, st) = c[Len(names)]
<1> DEFINE n == Len(names)
           X == WalkStates(fs)
           step == [p \in (1..n) \X X |-> TryFile(sub, <<dir, names[p[1]]>>, p[2])]
           P(g) == g = [k \in 0..n |-> IF k = 0 THEN st ELSE TryFile(sub, <<dir, names[k]>>, g[k-1])]
           c == CHOOSE g : P(g)
<1>1. n \in Nat /\ \A k \in 1..n : <<dir, names[k]>> \in Paths(fs)
  BY ElementOfSeq, LenProperties
<1>2. \A k \in 1..n, x \in X : TryFile(sub, <<dir, names[k]>>, x) \in X
  BY <1>1 DEF TryFile, Walks
<1>3. step \in [(1..n) \X X -> X]
  <2> HIDE DEF n, X
  <2> QED BY <1>2
<1>4. PICK g : g \in [0..n -> X] /\ g[0] = st /\ \A k \in 1..n : g[k] = step[<<k, g[k-1]>>]
  <2> HIDE DEF step, n
  <2>1. \E g : Iterates(g, X, st, n, step)
    BY <1>1, <1>3, IterationExists
  <2> QED BY <2>1 DEF Iterates
<1>5. \A k \in 1..n : g[k] = TryFile(sub, <<dir, names[k]>>, g[k-1])
  <2> SUFFICES ASSUME NEW k \in 1..n PROVE g[k] = TryFile(sub, <<dir, names[k]>>, g[k-1])
    OBVIOUS
  <2>1. k - 1 \in 0..n
    BY <1>1
  <2>2. <<k, g[k-1]>> \in (1..n) \X X
    BY <1>4, <2>1
  <2> HIDE DEF X, n
  <2> QED BY <1>4, <2>2
<1>6. P(g)
  <2> HIDE DEF n, X
  <2> QED BY <1>1, <1>4, <1>5
<1>7. P(c)
  <2> HIDE DEF P
  <2> QED BY <1>6
<1>8. c[0] = st /\ \A k \in 1..n : c[k] = TryFile(sub, <<dir, names[k]>>, c[k-1])
  <2> HIDE DEF c, n
  <2> QED BY <1>1, <1>7
<1>9. TryFiles(sub, dir, names, st) = c[n]
  BY DEF TryFiles
<1>10. c = [k \in 0..n |-> c[k]]
  <2> HIDE DEF c, n
  <2> QED BY <1>7
<1> HIDE DEF c, X
<1>11. 0..n \subseteq {k \in 0..n : c[k] \in X}
  <2> DEFINE S == {k \in 0..n : c[k] \in X}
  <2>1. 0 \in S
    BY <1>1, <1>8 DEF X
  <2>2. ASSUME NEW k \in 0..n-1, k \in S PROVE k + 1 \in S
    <3>1. k + 1 \in 1..n /\ (k + 1) - 1 = k
      BY <1>1
    <3>2. c[k+1] = TryFile(sub, <<dir, names[k+1]>>, c[k])
      BY <1>8, <3>1
    <3> QED BY <1>1, <1>2, <2>2, <3>1, <3>2
  <2> HIDE DEF S, n
  <2> QED BY <1>1, <2>1, <2>2, Climb DEF S
<1>12. c \in [0..n -> X]
  BY <1>10, <1>11
<1> QED BY <1>8, <1>9, <1>12 DEF Tries, X

\* A line leaves a state of the walk, ...
LEMMA ReadLineType ==
  ASSUME NEW fs, IsTree(fs), NEW accepts, NEW sub \in Walks(fs), NEW line \in Lines(fs),
         NEW st \in WalkStates(fs)
  PROVE  ReadLine(fs, accepts, sub, line, st) \in WalkStates(fs)
<1>1. CASE st.stopped
  BY <1>1 DEF ReadLine
<1>2. CASE ~st.stopped /\ ~line.include
  <2>1. line.dir \in Mentioned(fs) /\ st.named \in Seq(Mentioned(fs))
    BY DEF Lines, WalkStates
  <2>2. Append(st.named, line.dir) \in Seq(Mentioned(fs))
    BY <2>1, AppendProperties
  <2>3. [st EXCEPT !.named = Append(@, line.dir), !.stopped = line.dir \in accepts] \in WalkStates(fs)
    <3> DEFINE b == line.dir \in accepts
               named == Append(st.named, line.dir)
    <3>1. b \in BOOLEAN
      OBVIOUS
    <3>2. named \in Seq(Mentioned(fs))
      BY <2>2
    <3> HIDE DEF b, named
    <3>3. [st EXCEPT !.named = named, !.stopped = b] \in WalkStates(fs)
      BY <3>1, <3>2 DEF WalkStates
    <3> QED BY <3>3 DEF b, named
  <2> QED BY <1>2, <2>3 DEF ReadLine
<1>3. CASE ~st.stopped /\ line.include
  <2> DEFINE want == Ending(line.base)
             names == Selected(fs.listing[line.dir], want)
  <2>1. CASE Len(want) >= SuffixSize \/ line.dir \notin DOMAIN fs.listing
    BY <1>3, <2>1 DEF ReadLine
  <2>2. CASE ~(Len(want) >= SuffixSize \/ line.dir \notin DOMAIN fs.listing)
    <3>1. want \in Names
      BY EndingIsName DEF Lines
    <3>2. names \in Seq(AllKept(fs.listing[line.dir], want))
      <4>1. fs.listing[line.dir] \in Listings
        BY <2>2, TreeFacts
      <4> QED BY <3>1, <4>1, SelectedIs
    <3>3. \A n \in AllKept(fs.listing[line.dir], want) : <<line.dir, n>> \in Paths(fs)
      BY <2>2, TreeFacts DEF AllKept
    <3>4. ReadLine(fs, accepts, sub, line, st) = TryFiles(sub, line.dir, names, st)
      BY <1>3, <2>2 DEF ReadLine
    <3> HIDE DEF want, names
    <3>5. PICK c : /\ Tries(fs, sub, line.dir, names, st, c)
                   /\ TryFiles(sub, line.dir, names, st) = c[Len(names)]
      BY <3>2, <3>3, TryFilesIs
    <3>6. Len(names) \in 0..Len(names)
      BY <3>2, LenProperties
    <3> QED BY <3>4, <3>5, <3>6 DEF Tries
  <2> QED BY <2>1, <2>2
<1> QED BY <1>1, <1>2, <1>3

\* ... and so does every line before it.
LEMMA ReadLinesIs ==
  ASSUME NEW fs, IsTree(fs), NEW accepts, NEW sub \in Walks(fs), NEW lines \in Seq(Lines(fs)),
         NEW st \in WalkStates(fs)
  PROVE  \E c : /\ Reads(fs, accepts, sub, lines, st, c)
                /\ ReadLines(fs, accepts, sub, lines, st) = c[Len(lines)]
<1> DEFINE n == Len(lines)
           X == WalkStates(fs)
           step == [p \in (1..n) \X X |-> ReadLine(fs, accepts, sub, lines[p[1]], p[2])]
           P(g) == g = [k \in 0..n |-> IF k = 0 THEN st
                                       ELSE ReadLine(fs, accepts, sub, lines[k], g[k-1])]
           c == CHOOSE g : P(g)
<1>1. n \in Nat /\ \A k \in 1..n : lines[k] \in Lines(fs)
  BY ElementOfSeq, LenProperties
<1>2. \A k \in 1..n, x \in X : ReadLine(fs, accepts, sub, lines[k], x) \in X
  BY <1>1, ReadLineType
<1>3. step \in [(1..n) \X X -> X]
  <2> HIDE DEF n, X
  <2> QED BY <1>2
<1>4. PICK g : g \in [0..n -> X] /\ g[0] = st /\ \A k \in 1..n : g[k] = step[<<k, g[k-1]>>]
  <2> HIDE DEF step, n
  <2>1. \E g : Iterates(g, X, st, n, step)
    BY <1>1, <1>3, IterationExists
  <2> QED BY <2>1 DEF Iterates
<1>5. \A k \in 1..n : g[k] = ReadLine(fs, accepts, sub, lines[k], g[k-1])
  <2> SUFFICES ASSUME NEW k \in 1..n PROVE g[k] = ReadLine(fs, accepts, sub, lines[k], g[k-1])
    OBVIOUS
  <2>1. k - 1 \in 0..n
    BY <1>1
  <2>2. <<k, g[k-1]>> \in (1..n) \X X
    BY <1>4, <2>1
  <2> HIDE DEF X, n
  <2> QED BY <1>4, <2>2
<1>6. P(g)
  <2> HIDE DEF n, X
  <2> QED BY <1>1, <1>4, <1>5
<1>7. P(c)
  <2> HIDE DEF P
  <2> QED BY <1>6
<1>8. c[0] = st /\ \A k \in 1..n : c[k] = ReadLine(fs, accepts, sub, lines[k], c[k-1])
  <2> HIDE DEF c, n
  <2> QED BY <1>1, <1>7
<1>9. ReadLines(fs, accepts, sub, lines, st) = c[n]
  BY DEF ReadLines
<1>10. c = [k \in 0..n |-> c[k]]
  <2> HIDE DEF c, n
  <2> QED BY <1>7
<1> HIDE DEF c, X
<1>11. 0..n \subseteq {k \in 0..n : c[k] \in X}
  <2> DEFINE S == {k \in 0..n : c[k] \in X}
  <2>1. 0 \in S
    BY <1>1, <1>8 DEF X
  <2>2. ASSUME NEW k \in 0..n-1, k \in S PROVE k + 1 \in S
    <3>1. k + 1 \in 1..n /\ (k + 1) - 1 = k
      BY <1>1
    <3>2. c[k+1] = ReadLine(fs, accepts, sub, lines[k+1], c[k])
      BY <1>8, <3>1
    <3> QED BY <1>1, <1>2, <2>2, <3>1, <3>2
  <2> HIDE DEF S, n
  <2> QED BY <1>1, <2>1, <2>2, Climb DEF S
<1>12. c \in [0..n -> X]
  BY <1>10, <1>11
<1> QED BY <1>8, <1>9, <1>12 DEF Reads, X

\* A file takes one from the budget.
LEMMA OpenedType ==
  ASSUME NEW fs, NEW st \in WalkStates(fs), st.budget # 0
  PROVE  /\ [st EXCEPT !.budget = @ - 1] \in WalkStates(fs)
         /\ [st EXCEPT !.budget = @ - 1].budget < st.budget
         /\ [st EXCEPT !.budget = @ - 1].named = st.named
         /\ [st EXCEPT !.budget = @ - 1].stopped = st.stopped
BY LimitsAssumption DEF WalkStates

\* A file leaves a state of the walk.
LEMMA WalkFileType ==
  ASSUME NEW fs, IsTree(fs), NEW accepts, NEW sub \in Walks(fs), NEW p \in Paths(fs),
         NEW st \in WalkStates(fs)
  PROVE  WalkFile(fs, accepts, sub, p, st) \in WalkStates(fs)
<1> DEFINE less == [st EXCEPT !.budget = @ - 1]
           lines == fs.lines[p]
<1>1. CASE st.budget = 0
  BY <1>1 DEF WalkFile
<1>2. CASE st.budget # 0
  <2>1. less \in WalkStates(fs)
    BY <1>2, OpenedType
  <2>2. CASE p \notin DOMAIN fs.lines
    BY <1>2, <2>1, <2>2 DEF WalkFile
  <2>3. CASE p \in DOMAIN fs.lines
    <3>1. lines \in Seq(Lines(fs)) /\ Len(lines) \in 0..Len(lines)
      BY <2>3, TreeFacts
    <3>2. WalkFile(fs, accepts, sub, p, st) = ReadLines(fs, accepts, sub, lines, less)
      BY <1>2, <2>3 DEF WalkFile
    <3> HIDE DEF less, lines
    <3>3. PICK c : /\ Reads(fs, accepts, sub, lines, less, c)
                   /\ ReadLines(fs, accepts, sub, lines, less) = c[Len(lines)]
      BY <2>1, <3>1, ReadLinesIs
    <3> QED BY <3>1, <3>2, <3>3 DEF Reads
  <2> QED BY <2>2, <2>3
<1> QED BY <1>1, <1>2

\* The state ldconf_each_dir starts from.
Begin == [budget |-> Budget, stopped |-> FALSE, named |-> <<>>]

\* w goes through the levels: what is left of the depth, 0 first.
Levels(fs, accepts, w) ==
  /\ w \in [0..MaxDepth + 1 -> Walks(fs)]
  /\ w[0] = [x \in Paths(fs) \X WalkStates(fs) |-> x[2]]
  /\ \A k \in 1..MaxDepth + 1 :
       w[k] = [x \in Paths(fs) \X WalkStates(fs) |-> WalkFile(fs, accepts, w[k-1], x[1], x[2])]

\* There are such levels, and the top one is the walk.
LEMMA EachDirIs ==
  ASSUME NEW fs, IsTree(fs), NEW accepts
  PROVE  \E w : /\ Levels(fs, accepts, w)
                /\ EachDir(fs, accepts) = w[MaxDepth + 1][<<Root, Begin>>]
<1> DEFINE n == MaxDepth + 1
           D == Paths(fs) \X WalkStates(fs)
           X == Walks(fs)
           base == [x \in D |-> x[2]]
           Up(s) == [x \in D |-> WalkFile(fs, accepts, s, x[1], x[2])]
           step == [p \in (1..n) \X X |-> Up(p[2])]
           P(g) == g = [k \in 0..n |-> [x \in D |-> IF k = 0 THEN x[2]
                                          ELSE WalkFile(fs, accepts, g[k-1], x[1], x[2])]]
           c == CHOOSE g : P(g)
<1>1. n \in Nat
  BY LimitsAssumption
<1>2. \A s \in X : Up(s) \in X
  BY WalkFileType DEF Walks
<1>3. base \in X
  BY DEF Walks
<1>4. step \in [(1..n) \X X -> X]
  <2> HIDE DEF n, X, Up
  <2> QED BY <1>2
<1>5. PICK g : g \in [0..n -> X] /\ g[0] = base /\ \A k \in 1..n : g[k] = step[<<k, g[k-1]>>]
  <2> HIDE DEF step, n, X, base
  <2>1. \E g : Iterates(g, X, base, n, step)
    BY <1>1, <1>3, <1>4, IterationExists
  <2> QED BY <2>1 DEF Iterates
<1>6. \A k \in 1..n : g[k] = Up(g[k-1])
  <2> SUFFICES ASSUME NEW k \in 1..n PROVE g[k] = Up(g[k-1])
    OBVIOUS
  <2> HIDE DEF X, n, Up
  <2>1. k - 1 \in 0..n
    BY <1>1
  <2>2. <<k, g[k-1]>> \in (1..n) \X X
    BY <1>5, <2>1
  <2> QED BY <1>5, <2>2
<1>7. P(g)
  <2>1. \A k \in 0..n : g[k] = [x \in D |-> IF k = 0 THEN x[2]
                                   ELSE WalkFile(fs, accepts, g[k-1], x[1], x[2])]
    <3> SUFFICES ASSUME NEW k \in 0..n
                 PROVE  g[k] = [x \in D |-> IF k = 0 THEN x[2]
                                   ELSE WalkFile(fs, accepts, g[k-1], x[1], x[2])]
      OBVIOUS
    <3> HIDE DEF D, n, X
    <3>1. CASE k = 0
      BY <1>5, <3>1
    <3>2. CASE k # 0
      <4>1. k \in 1..n
        BY <1>1, <3>2
      <4>2. g[k] = Up(g[k-1])
        BY <1>6, <4>1
      <4> QED BY <3>2, <4>2
    <3> QED BY <3>1, <3>2
  <2>2. g = [k \in 0..n |-> g[k]]
    BY <1>5
  <2> HIDE DEF n, X, D
  <2> QED BY <2>1, <2>2
<1>8. P(c)
  <2> HIDE DEF P
  <2> QED BY <1>7
<1>9. c[0] = base /\ \A k \in 1..n : c[k] = Up(c[k-1])
  <2>1. \A k \in 0..n : c[k] = [x \in D |-> IF k = 0 THEN x[2]
                                   ELSE WalkFile(fs, accepts, c[k-1], x[1], x[2])]
    <3> HIDE DEF c, n, D
    <3> QED BY <1>8
  <2> HIDE DEF c, D
  <2>2. c[0] = base
    BY <1>1, <2>1
  <2>3. ASSUME NEW k \in 1..n PROVE c[k] = Up(c[k-1])
    <3>1. k \in 0..n /\ k # 0
      BY <1>1
    <3> QED BY <2>1, <3>1
  <2> QED BY <2>2, <2>3
<1>10. EachDir(fs, accepts) = c[n][<<Root, Begin>>]
  BY DEF EachDir, Begin
<1>11. c = [k \in 0..n |-> c[k]]
  <2> DEFINE body(k) == [x \in D |-> IF k = 0 THEN x[2] ELSE WalkFile(fs, accepts, c[k-1], x[1], x[2])]
  <2>1. c = [k \in 0..n |-> body(k)]
    BY <1>8
  <2> HIDE DEF c, n, body
  <2> QED BY <2>1
<1> HIDE DEF c, X, Up, base
<1>12. 0..n \subseteq {k \in 0..n : c[k] \in X}
  <2> DEFINE S == {k \in 0..n : c[k] \in X}
  <2>1. 0 \in S
    BY <1>1, <1>3, <1>9
  <2>2. ASSUME NEW k \in 0..n-1, k \in S PROVE k + 1 \in S
    <3>1. k + 1 \in 1..n /\ (k + 1) - 1 = k
      BY <1>1
    <3>2. c[k+1] = Up(c[k])
      BY <1>9, <3>1
    <3> QED BY <1>1, <1>2, <2>2, <3>1, <3>2
  <2> HIDE DEF S, n
  <2> QED BY <1>1, <2>1, <2>2, Climb DEF S
<1>13. c \in [0..n -> X]
  BY <1>11, <1>12
<1> QED BY <1>9, <1>10, <1>13 DEF Levels, X, Up, base
-----------------------------------------------------------------------------
(* What the files below a file name.                                       *)

\* The files a chain of at most n files leads to, the first of them p.
Below(fs, p, n) ==
  {q \in Paths(fs) : \E m \in Nat : m < n /\ \E chain \in [0..m -> Paths(fs)] :
                       IsChain(fs, chain, m) /\ chain[0] = p /\ chain[m] = q}

\* What they name, ...
Under(fs, p, n) == NamedIn(fs, Below(fs, p, n))

\* ... and what is named by way of one line.
LineUnder(fs, line, n) ==
  IF ~line.include THEN {line.dir}
  ELSE IF line.dir \notin DOMAIN fs.listing THEN {}
  ELSE UNION {Under(fs, <<line.dir, m>>, n) : m \in Matching(fs, line)}

\* What a file includes is a path of the tree.
LEMMA IncludedIsPath ==
  ASSUME NEW fs, IsTree(fs), NEW p, NEW q \in Included(fs, p)
  PROVE  q \in Paths(fs)
<1>1. p \in DOMAIN fs.lines
  BY DEF Included
<1>2. PICK l \in Includes(fs, p) : q \in {<<l.dir, n>> : n \in Matching(fs, l)}
  BY <1>1 DEF Included
<1>3. PICK n \in Matching(fs, l) : q = <<l.dir, n>>
  BY <1>2
<1> QED BY <1>3, TreeFacts DEF Matching, Includes

\* They are the file itself and those below the files it includes.
LEMMA BelowUnfolds ==
  ASSUME NEW fs, IsTree(fs), NEW p \in Paths(fs), NEW n \in Nat
  PROVE  /\ Below(fs, p, 0) = {}
         /\ Below(fs, p, n + 1) = {p} \cup UNION {Below(fs, q, n) : q \in Included(fs, p)}
<1>1. Below(fs, p, 0) = {}
  BY DEF Below
<1>2. p \in Below(fs, p, n + 1)
  <2> DEFINE one == [i \in 0..0 |-> p]
  <2>1. one \in [0..0 -> Paths(fs)] /\ one[0] = p
    OBVIOUS
  <2> HIDE DEF one
  <2>2. IsChain(fs, one, 0)
    BY <2>1 DEF IsChain
  <2>3. 0 \in Nat /\ 0 < n + 1
    OBVIOUS
  <2> QED BY <2>1, <2>2, <2>3 DEF Below
<1>3. ASSUME NEW q \in Included(fs, p), NEW r \in Below(fs, q, n)
      PROVE  r \in Below(fs, p, n + 1)
  <2>1. PICK m \in Nat : m < n /\ \E chain \in [0..m -> Paths(fs)] :
                       IsChain(fs, chain, m) /\ chain[0] = q /\ chain[m] = r
    BY DEF Below
  <2>2. PICK chain \in [0..m -> Paths(fs)] : IsChain(fs, chain, m) /\ chain[0] = q /\ chain[m] = r
    BY <2>1
  <2> DEFINE longer == [i \in 0..m+1 |-> IF i = 0 THEN p ELSE chain[i-1]]
  <2>3. longer \in [0..m+1 -> Paths(fs)] /\ longer[0] = p
        /\ \A i \in 1..m+1 : longer[i] = chain[i-1]
    BY <2>2
  <2> HIDE DEF longer
  <2>4. longer[1] = q /\ longer[m+1] = r
    BY <2>2, <2>3
  <2>5. ASSUME NEW i \in 1..m+1 PROVE longer[i] \in Included(fs, longer[i-1])
    <3>1. CASE i = 1
      BY <2>3, <2>4, <3>1
    <3>2. CASE i # 1
      <4>1. i - 1 \in 1..m /\ i - 1 \in 1..m+1
        BY <3>2
      <4>2. chain[i-1] \in Included(fs, chain[(i-1)-1])
        BY <2>2, <4>1 DEF IsChain
      <4> QED BY <2>3, <4>1, <4>2
    <3> QED BY <3>1, <3>2
  <2>6. IsChain(fs, longer, m + 1)
    BY <2>3, <2>5 DEF IsChain
  <2>7. m + 1 \in Nat /\ m + 1 < n + 1 /\ r \in Paths(fs)
    BY <2>1 DEF Below
  <2> QED BY <2>3, <2>4, <2>6, <2>7 DEF Below
<1>4. ASSUME NEW r \in Below(fs, p, n + 1), r # p
      PROVE  \E q \in Included(fs, p) : r \in Below(fs, q, n)
  <2>1. PICK m \in Nat : m < n + 1 /\ \E chain \in [0..m -> Paths(fs)] :
                       IsChain(fs, chain, m) /\ chain[0] = p /\ chain[m] = r
    BY DEF Below
  <2>2. PICK chain \in [0..m -> Paths(fs)] : IsChain(fs, chain, m) /\ chain[0] = p /\ chain[m] = r
    BY <2>1
  <2>3. m # 0 /\ m - 1 \in Nat /\ m - 1 < n
    BY <1>4, <2>1, <2>2
  <2> DEFINE rest == [i \in 0..m-1 |-> chain[i+1]]
  <2>4. rest \in [0..m-1 -> Paths(fs)] /\ \A i \in 0..m-1 : rest[i] = chain[i+1]
    BY <2>2, <2>3
  <2> HIDE DEF rest
  <2>5. \A i \in 1..m : chain[i] \in Included(fs, chain[i-1])
    BY <2>2 DEF IsChain
  <2>6. rest[0] \in Included(fs, p) /\ rest[m-1] = r
    BY <2>2, <2>3, <2>4, <2>5
  <2>7. ASSUME NEW i \in 1..m-1 PROVE rest[i] \in Included(fs, rest[i-1])
    <3>1. i \in 0..m-1 /\ i - 1 \in 0..m-1 /\ i + 1 \in 1..m /\ (i + 1) - 1 = i /\ (i - 1) + 1 = i
      BY <2>3
    <3> QED BY <2>4, <2>5, <3>1
  <2>8. IsChain(fs, rest, m - 1)
    BY <2>4, <2>7 DEF IsChain
  <2>9. r \in Paths(fs)
    BY DEF Below
  <2> QED BY <2>3, <2>4, <2>6, <2>8, <2>9 DEF Below
<1> QED BY <1>1, <1>2, <1>3, <1>4

\* What is reached from ld.so.conf is what is below it within the depth.
LEMMA ReachedIsBelow ==
  ASSUME NEW fs
  PROVE  Reached(fs) = Below(fs, Root, MaxDepth + 1)
<1>1. \A n : n \in 0..MaxDepth <=> n \in Nat /\ n < MaxDepth + 1
  BY LimitsAssumption
<1> QED BY <1>1 DEF Reached, Below

\* Line by line.
LEMMA UnderUnfolds ==
  ASSUME NEW fs, IsTree(fs), NEW p \in Paths(fs), NEW n \in Nat
  PROVE  /\ Under(fs, p, 0) = {}
         /\ p \notin DOMAIN fs.lines => Under(fs, p, n + 1) = {}
         /\ p \in DOMAIN fs.lines =>
              Under(fs, p, n + 1) = UNION {LineUnder(fs, l, n) : l \in ToSet(fs.lines[p])}
<1>1. Under(fs, p, 0) = {}
  BY BelowUnfolds DEF Under, NamedIn
<1>2. Below(fs, p, n + 1) = {p} \cup UNION {Below(fs, q, n) : q \in Included(fs, p)}
  BY BelowUnfolds
<1>3. Under(fs, p, n + 1) = NamedIn(fs, {p}) \cup UNION {Under(fs, q, n) : q \in Included(fs, p)}
  BY <1>2 DEF Under, NamedIn
<1>4. ASSUME p \notin DOMAIN fs.lines PROVE Under(fs, p, n + 1) = {}
  <2>1. Included(fs, p) = {} /\ NamedIn(fs, {p}) = {}
    BY <1>4 DEF Included, NamedIn
  <2> QED BY <1>3, <2>1
<1>5. ASSUME p \in DOMAIN fs.lines
      PROVE  Under(fs, p, n + 1) = UNION {LineUnder(fs, l, n) : l \in ToSet(fs.lines[p])}
  <2>1. NamedIn(fs, {p}) = {l.dir : l \in {m \in ToSet(fs.lines[p]) : ~m.include}}
    BY <1>5 DEF NamedIn
  <2>2. UNION {Under(fs, q, n) : q \in Included(fs, p)} =
          UNION {LineUnder(fs, l, n) : l \in Includes(fs, p)}
    <3>1. Included(fs, p) = UNION {{<<l.dir, m>> : m \in Matching(fs, l)} : l \in Includes(fs, p)}
      BY <1>5 DEF Included
    <3>2. \A l \in Includes(fs, p) :
            LineUnder(fs, l, n) = UNION {Under(fs, <<l.dir, m>>, n) : m \in Matching(fs, l)}
      BY DEF LineUnder, Includes
    <3>3. ASSUME NEW x, NEW q \in Included(fs, p), x \in Under(fs, q, n)
          PROVE  \E l \in Includes(fs, p) : x \in LineUnder(fs, l, n)
      <4>0. PICK l \in Includes(fs, p) : q \in {<<l.dir, m>> : m \in Matching(fs, l)}
        BY <3>1, <3>3
      <4>1. PICK m \in Matching(fs, l) : q = <<l.dir, m>>
        BY <4>0
      <4>2. x \in LineUnder(fs, l, n)
        BY <3>2, <3>3, <4>1
      <4> QED BY <4>1, <4>2
    <3>4. ASSUME NEW x, NEW l \in Includes(fs, p), x \in LineUnder(fs, l, n)
          PROVE  \E q \in Included(fs, p) : x \in Under(fs, q, n)
      <4>1. PICK m \in Matching(fs, l) : x \in Under(fs, <<l.dir, m>>, n)
        BY <3>2, <3>4
      <4>2. <<l.dir, m>> \in Included(fs, p)
        BY <3>1, <4>1
      <4> QED BY <4>1, <4>2
    <3> QED BY <3>3, <3>4
  <2>3. \A l \in ToSet(fs.lines[p]) :
          LineUnder(fs, l, n) = IF ~l.include THEN {l.dir}
                                ELSE IF l \in Includes(fs, p) THEN LineUnder(fs, l, n) ELSE {}
    BY DEF LineUnder, Includes
  <2>4. Includes(fs, p) = {l \in ToSet(fs.lines[p]) : l.include /\ l.dir \in DOMAIN fs.listing}
    BY DEF Includes
  <2>5. UNION {LineUnder(fs, l, n) : l \in ToSet(fs.lines[p])} \subseteq
          NamedIn(fs, {p}) \cup UNION {LineUnder(fs, l, n) : l \in Includes(fs, p)}
    BY <2>1, <2>3
  <2>6. NamedIn(fs, {p}) \subseteq UNION {LineUnder(fs, l, n) : l \in ToSet(fs.lines[p])}
    BY <2>1, <2>3
  <2>7. UNION {LineUnder(fs, l, n) : l \in Includes(fs, p)} \subseteq
          UNION {LineUnder(fs, l, n) : l \in ToSet(fs.lines[p])}
    BY <2>4
  <2> QED BY <1>3, <2>2, <2>5, <2>6, <2>7
<1> QED BY <1>1, <1>4, <1>5

-----------------------------------------------------------------------------
(* What the walk hands over.                                               *)

\* From s to t, directories of `may' have been handed over; those of `must' if
\* the budget has not run out, those of `sure' in any case.
Adds(s, t, may, must, sure) ==
  /\ t.budget <= s.budget /\ ~t.stopped
  /\ \E x \in Seq(may) : t.named = s.named \o x
  /\ t.budget > 0 => must \subseteq ToSet(t.named)
  /\ sure \subseteq ToSet(t.named)

\* A concatenation has the elements of both parts.
LEMMA ToSetConcat ==
  ASSUME NEW S, NEW s \in Seq(S), NEW t \in Seq(S)
  PROVE  ToSet(s \o t) = ToSet(s) \cup ToSet(t)
<1>1. /\ Len(s) \in Nat /\ DOMAIN s = 1..Len(s) /\ Len(t) \in Nat /\ DOMAIN t = 1..Len(t)
      /\ s \o t \in Seq(S) /\ Len(s \o t) = Len(s) + Len(t)
      /\ DOMAIN (s \o t) = 1..Len(s) + Len(t)
  BY LenProperties, ConcatProperties
<1>2. \A i \in 1..Len(s) + Len(t) : (s \o t)[i] = IF i <= Len(s) THEN s[i] ELSE t[i - Len(s)]
  BY ConcatProperties
<1>3. \A i \in 1..Len(s) : i \in 1..Len(s) + Len(t) /\ (s \o t)[i] = s[i]
  BY <1>1, <1>2
<1>4. \A i \in 1..Len(t) : Len(s) + i \in 1..Len(s) + Len(t) /\ (s \o t)[Len(s) + i] = t[i]
  BY <1>1, <1>2
<1>5. \A i \in 1..Len(s) + Len(t) : i \in 1..Len(s) \/ i - Len(s) \in 1..Len(t)
  BY <1>1
<1>6. ToSet(s \o t) \subseteq ToSet(s) \cup ToSet(t)
  BY <1>1, <1>2, <1>5 DEF ToSet
<1>7. ToSet(s) \subseteq ToSet(s \o t)
  BY <1>1, <1>3 DEF ToSet
<1>8. ToSet(t) \subseteq ToSet(s \o t)
  BY <1>1, <1>4 DEF ToSet
<1> QED BY <1>6, <1>7, <1>8

\* A state that is left as it is has nothing added.
LEMMA AddsNothing ==
  ASSUME NEW fs, NEW s \in WalkStates(fs), ~s.stopped, NEW may
  PROVE  Adds(s, s, may, {}, {})
<1>1. s.named \in Seq(Mentioned(fs)) /\ s.budget \in Nat
  BY LimitsAssumption DEF WalkStates
<1>2. <<>> \in Seq(may) /\ s.named \o <<>> = s.named
  BY <1>1, ConcatEmptySeq, EmptySeq
<1>3. \E x \in Seq(may) : s.named = s.named \o x
  BY <1>2
<1>4. s.budget <= s.budget
  BY <1>1
<1> QED BY <1>3, <1>4 DEF Adds

\* What may be added can be widened, and what has to be narrowed.
LEMMA AddsWider ==
  ASSUME NEW s, NEW t, NEW may, NEW must, NEW sure, Adds(s, t, may, must, sure),
         NEW may2, may \subseteq may2, NEW must2 \in SUBSET must, NEW sure2 \in SUBSET sure
  PROVE  Adds(s, t, may2, must2, sure2)
<1>1. PICK x \in Seq(may) : t.named = s.named \o x
  BY DEF Adds
<1>2. x \in Seq(may2)
  BY SeqMonotonic
<1> QED BY <1>1, <1>2 DEF Adds

\* Two steps add what each of them does.
LEMMA AddsThen ==
  ASSUME NEW fs, NEW s \in WalkStates(fs), NEW t \in WalkStates(fs), NEW u \in WalkStates(fs),
         NEW may \in SUBSET Mentioned(fs),
         NEW must1, NEW sure1, Adds(s, t, may, must1, sure1),
         NEW must2, NEW sure2, Adds(t, u, may, must2, sure2)
  PROVE  Adds(s, u, may, must1 \cup must2, sure1 \cup sure2)
<1>1. PICK x \in Seq(may) : t.named = s.named \o x
  BY DEF Adds
<1>2. PICK y \in Seq(may) : u.named = t.named \o y
  BY DEF Adds
<1>3. x \in Seq(Mentioned(fs)) /\ y \in Seq(Mentioned(fs)) /\ s.named \in Seq(Mentioned(fs))
      /\ t.named \in Seq(Mentioned(fs))
  BY SeqMonotonic DEF WalkStates
<1>4. u.named = s.named \o (x \o y)
  <2> DEFINE M == Mentioned(fs)
             a == s.named
  <2>1. x \in Seq(M) /\ y \in Seq(M) /\ a \in Seq(M)
    BY <1>3
  <2> HIDE DEF M, a
  <2>2. (a \o x) \o y = a \o (x \o y)
    BY <2>1, ConcatAssociative
  <2> QED BY <1>1, <1>2, <2>2 DEF a
<1>5. x \o y \in Seq(may)
  BY ConcatProperties
<1>6. ToSet(t.named) \subseteq ToSet(u.named)
  BY <1>2, <1>3, ToSetConcat
<1>7. s.budget \in Nat /\ t.budget \in Nat /\ u.budget \in Nat
  BY LimitsAssumption DEF WalkStates
<1>8. u.budget <= t.budget /\ t.budget <= s.budget /\ ~u.stopped
      /\ (u.budget > 0 => must2 \subseteq ToSet(u.named)) /\ sure2 \subseteq ToSet(u.named)
      /\ (t.budget > 0 => must1 \subseteq ToSet(t.named)) /\ sure1 \subseteq ToSet(t.named)
  BY DEF Adds
<1>9. u.budget <= s.budget /\ (u.budget > 0 => t.budget > 0)
  BY <1>7, <1>8
<1> QED BY <1>4, <1>5, <1>6, <1>8, <1>9 DEF Adds

\* All that the first n turns name.
Joined(sets, n) == UNION {sets[k] : k \in 1..n}

\* A loop adds what its turns add.
LEMMA LoopAdds ==
  ASSUME NEW fs, NEW n \in Nat, NEW c \in [0..n -> WalkStates(fs)], ~c[0].stopped,
         NEW may \in SUBSET Mentioned(fs), NEW must, NEW sure,
         \A k \in 1..n : ~c[k-1].stopped => Adds(c[k-1], c[k], may, must[k], sure[k])
  PROVE  Adds(c[0], c[n], may, Joined(must, n), Joined(sure, n))
<1> DEFINE m(k) == UNION {must[j] : j \in 1..k}
           r(k) == UNION {sure[j] : j \in 1..k}
           S == {k \in 0..n : Adds(c[0], c[k], may, m(k), r(k))}
<1>1. 0 \in S
  <2>1. m(0) = {} /\ r(0) = {}
    OBVIOUS
  <2>2. c[0] \in WalkStates(fs) /\ 0 \in 0..n
    OBVIOUS
  <2>3. Adds(c[0], c[0], may, {}, {})
    BY <2>2, AddsNothing
  <2> QED BY <2>1, <2>2, <2>3
<1>2. ASSUME NEW k \in 0..n-1, k \in S PROVE k + 1 \in S
  <2>1. k + 1 \in 1..n /\ (k + 1) - 1 = k /\ k \in 0..n /\ k + 1 \in 0..n
    OBVIOUS
  <2>2. Adds(c[0], c[k], may, m(k), r(k)) /\ ~c[k].stopped
    BY <1>2 DEF Adds
  <2>3. Adds(c[k], c[k+1], may, must[k+1], sure[k+1])
    BY <2>1, <2>2
  <2>4. m(k+1) = m(k) \cup must[k+1] /\ r(k+1) = r(k) \cup sure[k+1]
    <3>1. 1..k+1 = (1..k) \cup {k+1}
      BY <2>1
    <3> QED BY <3>1
  <2> HIDE DEF m, r
  <2>5. c[0] \in WalkStates(fs) /\ c[k] \in WalkStates(fs) /\ c[k+1] \in WalkStates(fs)
    BY <2>1
  <2>6. Adds(c[0], c[k+1], may, m(k) \cup must[k+1], r(k) \cup sure[k+1])
    BY <2>2, <2>3, <2>5, AddsThen
  <2> QED BY <2>1, <2>4, <2>6
<1>3. n \in S
  <2> HIDE DEF S
  <2>1. 0..n \subseteq S
    BY <1>1, <1>2, Climb
  <2> QED BY <2>1
<1> QED BY <1>3 DEF Joined
\* What has to be handed over if every include has the room it needs.
Must(fs, names) == IF Fits(fs) THEN names ELSE {}

\* The walk of a file adds what n levels below it name.
AddsUnder(fs, sub, n) ==
  \A p \in Paths(fs), st \in WalkStates(fs) :
    ~st.stopped => Adds(st, sub[<<p, st>>], Under(fs, p, n), Must(fs, Under(fs, p, n)), {})

\* What the files below name is mentioned in the tree.
LEMMA UnderMentioned ==
  ASSUME NEW fs, IsTree(fs)
  PROVE  /\ \A p, n : Under(fs, p, n) \subseteq Mentioned(fs)
         /\ \A l \in Lines(fs) : \A n : LineUnder(fs, l, n) \subseteq Mentioned(fs)
<1>1. \A p, n : Under(fs, p, n) \subseteq Mentioned(fs)
  BY DEF Under, NamedIn, Mentioned
<1>2. \A l \in Lines(fs) : l.dir \in Mentioned(fs)
  BY DEF Lines
<1> QED BY <1>1, <1>2 DEF LineUnder

\* What the files of one include name, a line itself, and a file if it can be
\* opened.
FilesUnder(fs, dir, names, n) == UNION {Under(fs, <<dir, m>>, n) : m \in ToSet(names)}
OwnDir(line) == IF line.include THEN {} ELSE {line.dir}
Opening(fs, p, st) == IF st.budget = 0 THEN {} ELSE NamedIn(fs, {p})

\* The files of one include.
LEMMA TryFilesAdds ==
  ASSUME NEW fs, IsTree(fs), NEW sub \in Walks(fs), NEW n, AddsUnder(fs, sub, n),
         NEW dir, NEW N, NEW names \in Seq(N), \A m \in N : <<dir, m>> \in Paths(fs),
         NEW st \in WalkStates(fs), ~st.stopped,
         NEW may \in SUBSET Mentioned(fs), \A m \in N : Under(fs, <<dir, m>>, n) \subseteq may
  PROVE  Adds(st, TryFiles(sub, dir, names, st), may,
              Must(fs, FilesUnder(fs, dir, names, n)), {})
<1>1. PICK c : /\ Tries(fs, sub, dir, names, st, c)
               /\ TryFiles(sub, dir, names, st) = c[Len(names)]
  BY TryFilesIs
<1>2. Len(names) \in Nat /\ DOMAIN names = 1..Len(names) /\ \A k \in 1..Len(names) : names[k] \in N
  BY LenProperties, ElementOfSeq
<1> DEFINE must == [k \in 1..Len(names) |-> Must(fs, Under(fs, <<dir, names[k]>>, n))]
           sure == [k \in 1..Len(names) |-> {}]
<1>3. c \in [0..Len(names) -> WalkStates(fs)] /\ c[0] = st
  BY <1>1 DEF Tries
<1>4. ASSUME NEW k \in 1..Len(names), ~c[k-1].stopped
      PROVE  Adds(c[k-1], c[k], may, must[k], sure[k])
  <2> DEFINE p == <<dir, names[k]>>
  <2>1. k - 1 \in 0..Len(names)
    BY <1>2
  <2>2. p \in Paths(fs) /\ c[k-1] \in WalkStates(fs) /\ Under(fs, p, n) \subseteq may
    BY <1>2, <1>3, <2>1
  <2>3. c[k] = sub[<<p, c[k-1]>>]
    BY <1>1, <1>4 DEF Tries, TryFile
  <2>4. must[k] = Must(fs, Under(fs, p, n)) /\ sure[k] = {}
    OBVIOUS
  <2> HIDE DEF p, must, sure
  <2>5. Adds(c[k-1], c[k], Under(fs, p, n), must[k], {})
    BY <1>4, <2>2, <2>3, <2>4 DEF AddsUnder
  <2>6. Adds(c[k-1], c[k], may, must[k], {})
    BY <2>2, <2>5, AddsWider
  <2> QED BY <2>4, <2>6
<1>5. Adds(c[0], c[Len(names)], may, Joined(must, Len(names)), Joined(sure, Len(names)))
  <2> HIDE DEF must, sure
  <2> QED BY <1>2, <1>3, <1>4, LoopAdds
<1>6. Must(fs, FilesUnder(fs, dir, names, n))
        \subseteq Joined(must, Len(names))
  BY <1>2 DEF Must, ToSet, Joined, FilesUnder
<1> HIDE DEF must, sure
<1> QED BY <1>1, <1>3, <1>5, <1>6, AddsWider

\* With room for them, the files kept of a directory are those that match.
LEMMA KeptIsMatching ==
  ASSUME NEW fs, IsTree(fs), NEW p \in DOMAIN fs.lines, NEW l \in Includes(fs, p)
  PROVE  /\ AllKept(fs.listing[l.dir], Ending(l.base)) \subseteq Matching(fs, l)
         /\ Fits(fs) =>
              /\ Len(Ending(l.base)) < SuffixSize
              /\ AllKept(fs.listing[l.dir], Ending(l.base)) = Matching(fs, l)
              /\ Cardinality(Matching(fs, l)) <= MaxNames
<1> DEFINE want == Ending(l.base)
<1>1. l \in Lines(fs) /\ l.dir \in DOMAIN fs.listing /\ want \in Names
  <2>1. l \in ToSet(fs.lines[p]) /\ l.dir \in DOMAIN fs.listing
    BY DEF Includes
  <2>2. l \in Lines(fs)
    BY <2>1, TreeFacts
  <2>3. l.base \in Names
    BY <2>2 DEF Lines
  <2> QED BY <2>1, <2>2, <2>3, EndingIsName
<1>2. \A n \in ToSet(fs.listing[l.dir]) : n \in Names /\ n # <<>>
  BY <1>1, TreeFacts
<1>3. \A n \in ToSet(fs.listing[l.dir]) : Head(n) = n[1]
  BY <1>2 DEF Names
<1>4. \A n \in ToSet(fs.listing[l.dir]) :
        Kept(n, want) <=> n[1] # Dot /\ Ends(n, want) /\ Len(n) < NameSize
  BY <1>1, <1>2, <1>3, EndsIsSuffix DEF Kept
<1> QED BY <1>4 DEF AllKept, Matching, Fits

\* One line.
LEMMA ReadLineAdds ==
  ASSUME NEW fs, IsTree(fs), NEW sub \in Walks(fs), NEW n, AddsUnder(fs, sub, n),
         NEW p \in DOMAIN fs.lines, NEW line \in ToSet(fs.lines[p]),
         NEW st \in WalkStates(fs), ~st.stopped
  PROVE  Adds(st, ReadLine(fs, {}, sub, line, st), LineUnder(fs, line, n),
              Must(fs, LineUnder(fs, line, n)), OwnDir(line))
<1>1. line \in Lines(fs)
  BY TreeFacts
<1> DEFINE want == Ending(line.base)
           names == Selected(fs.listing[line.dir], want)
           all == AllKept(fs.listing[line.dir], want)
<1>2. CASE ~line.include
  <2> DEFINE t == ReadLine(fs, {}, sub, line, st)
  <2>1. t = [st EXCEPT !.named = Append(@, line.dir), !.stopped = line.dir \in {}]
    BY <1>2 DEF ReadLine
  <2>2. st.named \in Seq(Mentioned(fs)) /\ line.dir \in Mentioned(fs) /\ st.budget \in Nat
    BY <1>1, LimitsAssumption DEF WalkStates, Lines
  <2>3. t.budget = st.budget /\ ~t.stopped /\ t.named = Append(st.named, line.dir)
    BY <2>1 DEF WalkStates
  <2> HIDE DEF t
  <2>4. t.named = st.named \o <<line.dir>>
    BY <2>2, <2>3, AppendIsConcat
  <2>5. <<line.dir>> \in Seq({line.dir}) /\ <<line.dir>> \in Seq(Mentioned(fs))
    BY <2>2
  <2>6. line.dir \in ToSet(t.named)
    <3>1. line.dir \in ToSet(<<line.dir>>)
      BY DEF ToSet
    <3>2. ToSet(st.named \o <<line.dir>>) = ToSet(st.named) \cup ToSet(<<line.dir>>)
      <4> DEFINE a == st.named
                 b == <<line.dir>>
                 M == Mentioned(fs)
      <4>1. a \in Seq(M) /\ b \in Seq(M)
        BY <2>2, <2>5
      <4> HIDE DEF a, b, M
      <4>2. ToSet(a \o b) = ToSet(a) \cup ToSet(b)
        BY <4>1, ToSetConcat
      <4> QED BY <4>2 DEF a, b
    <3> QED BY <2>4, <3>1, <3>2
  <2>7. LineUnder(fs, line, n) = {line.dir} /\ Must(fs, {line.dir}) \subseteq {line.dir}
    BY <1>2 DEF LineUnder, Must
  <2>8. \E x \in Seq({line.dir}) : t.named = st.named \o x
    BY <2>4, <2>5
  <2>9. Adds(st, t, {line.dir}, Must(fs, {line.dir}), {line.dir})
    <3>1. {line.dir} \subseteq ToSet(t.named) /\ Must(fs, {line.dir}) \subseteq ToSet(t.named)
      BY <2>6, <2>7
    <3>2. t.budget <= st.budget /\ ~t.stopped
      BY <2>2, <2>3
    <3> QED BY <2>8, <3>1, <3>2 DEF Adds
  <2> QED BY <1>2, <2>7, <2>9 DEF t, OwnDir
<1>3. CASE line.include /\ line.dir \notin DOMAIN fs.listing
  <2>1. ReadLine(fs, {}, sub, line, st) = st
    BY <1>3 DEF ReadLine
  <2>2. Must(fs, LineUnder(fs, line, n)) = {}
    BY <1>3 DEF LineUnder, Must
  <2> QED BY <1>3, <2>1, <2>2, AddsNothing DEF OwnDir
<1>4. CASE line.include /\ line.dir \in DOMAIN fs.listing
  <2>1. line \in Includes(fs, p)
    BY <1>4 DEF Includes
  <2>2. /\ all \subseteq Matching(fs, line)
        /\ Fits(fs) => /\ Len(want) < SuffixSize
                       /\ all = Matching(fs, line)
                       /\ Cardinality(all) <= MaxNames
    BY <2>1, KeptIsMatching
  <2>3. want \in Names /\ Len(want) \in Nat
    BY <1>1, EndingIsName DEF Lines, Names
  <2>4. LineUnder(fs, line, n) = UNION {Under(fs, <<line.dir, m>>, n) : m \in Matching(fs, line)}
    BY <1>4 DEF LineUnder
  <2>5. LineUnder(fs, line, n) \subseteq Mentioned(fs)
    BY <1>1, UnderMentioned
  <2>6. CASE Len(want) >= SuffixSize
    <3>1. ReadLine(fs, {}, sub, line, st) = st
      BY <1>4, <2>6 DEF ReadLine
    <3>2. Must(fs, LineUnder(fs, line, n)) = {}
      BY <2>2, <2>3, <2>6, LimitsAssumption DEF Must
    <3> QED BY <1>4, <3>1, <3>2, AddsNothing DEF OwnDir
  <2>7. CASE ~(Len(want) >= SuffixSize)
    <3>1. ReadLine(fs, {}, sub, line, st) = TryFiles(sub, line.dir, names, st)
      BY <1>4, <2>7 DEF ReadLine
    <3>2. fs.listing[line.dir] \in Listings
      BY <1>4, TreeFacts
    <3>3. /\ names \in Seq(all)
          /\ Cardinality(all) <= MaxNames => ToSet(names) = all
      BY <2>3, <3>2, SelectedIs
    <3>4. \A m \in all : <<line.dir, m>> \in Paths(fs)
      BY <1>4, TreeFacts DEF AllKept
    <3>5. \A m \in all : Under(fs, <<line.dir, m>>, n) \subseteq LineUnder(fs, line, n)
      BY <2>2, <2>4
    <3>6. Must(fs, LineUnder(fs, line, n)) \subseteq
            Must(fs, FilesUnder(fs, line.dir, names, n))
      <4>1. CASE Fits(fs)
        <5>1. ToSet(names) = Matching(fs, line)
          BY <2>2, <3>3, <4>1
        <5> HIDE DEF names
        <5> QED BY <2>4, <5>1 DEF FilesUnder
      <4>2. CASE ~Fits(fs)
        BY <4>2 DEF Must
      <4> QED BY <4>1, <4>2
    <3> HIDE DEF want, names, all
    <3>7. Adds(st, TryFiles(sub, line.dir, names, st), LineUnder(fs, line, n),
               Must(fs, FilesUnder(fs, line.dir, names, n)), {})
      BY <2>5, <3>3, <3>4, <3>5, TryFilesAdds
    <3>8. OwnDir(line) = {}
      BY <1>4 DEF OwnDir
    <3> QED BY <3>1, <3>6, <3>7, <3>8, AddsWider
  <2> QED BY <2>6, <2>7
<1> QED BY <1>2, <1>3, <1>4

\* One file: what it names itself is handed over if it is opened at all.
LEMMA WalkFileAdds ==
  ASSUME NEW fs, IsTree(fs), NEW sub \in Walks(fs), NEW n \in Nat, AddsUnder(fs, sub, n),
         NEW p \in Paths(fs), NEW st \in WalkStates(fs), ~st.stopped
  PROVE  Adds(st, WalkFile(fs, {}, sub, p, st), Under(fs, p, n + 1),
              Must(fs, Under(fs, p, n + 1)), Opening(fs, p, st))
<1> DEFINE less == [st EXCEPT !.budget = @ - 1]
           lines == fs.lines[p]
<1>1. CASE st.budget = 0
  <2>1. WalkFile(fs, {}, sub, p, st) = st
    BY <1>1 DEF WalkFile
  <2>2. Adds(st, st, Under(fs, p, n + 1), {}, {})
    BY AddsNothing
  <2>3. Adds(st, st, Under(fs, p, n + 1), Must(fs, Under(fs, p, n + 1)), {})
    BY <1>1, <2>2 DEF Adds
  <2> QED BY <1>1, <2>1, <2>3 DEF Opening
<1>2. CASE st.budget # 0
  <2>1. /\ less \in WalkStates(fs) /\ ~less.stopped
        /\ less.budget < st.budget /\ less.named = st.named
    BY <1>2, OpenedType
  <2>2. st.budget \in Nat /\ less.budget \in Nat
    BY <2>1, LimitsAssumption DEF WalkStates
  <2>3. CASE p \notin DOMAIN fs.lines
    <3>1. WalkFile(fs, {}, sub, p, st) = less
      BY <1>2, <2>3 DEF WalkFile
    <3>2. Under(fs, p, n + 1) = {} /\ NamedIn(fs, {p}) = {} /\ Must(fs, {}) = {}
      BY <2>3, UnderUnfolds DEF NamedIn, Must
    <3> HIDE DEF less
    <3>3. Adds(less, less, {}, {}, {})
      BY <2>1, AddsNothing
    <3>4. Adds(st, less, {}, {}, {})
      BY <2>1, <2>2, <3>3 DEF Adds
    <3> QED BY <1>2, <3>1, <3>2, <3>4 DEF Opening
  <2>4. CASE p \in DOMAIN fs.lines
    <3>1. WalkFile(fs, {}, sub, p, st) = ReadLines(fs, {}, sub, lines, less)
      BY <1>2, <2>4 DEF WalkFile
    <3>2. /\ lines \in Seq(Lines(fs)) /\ Len(lines) \in Nat
          /\ ToSet(lines) = {lines[k] : k \in 1..Len(lines)}
          /\ \A k \in 1..Len(lines) : lines[k] \in Lines(fs)
      BY <2>4, TreeFacts
    <3>3. Under(fs, p, n + 1) = UNION {LineUnder(fs, l, n) : l \in ToSet(lines)}
      BY <2>4, UnderUnfolds
    <3>4. NamedIn(fs, {p}) = {l.dir : l \in {m \in ToSet(lines) : ~m.include}}
      BY <2>4 DEF NamedIn
    <3>5. Under(fs, p, n + 1) \subseteq Mentioned(fs)
      BY UnderMentioned
    <3> DEFINE must == [k \in 1..Len(lines) |-> Must(fs, LineUnder(fs, lines[k], n))]
               sure == [k \in 1..Len(lines) |-> OwnDir(lines[k])]
    <3>6. PICK c : /\ Reads(fs, {}, sub, lines, less, c)
                   /\ ReadLines(fs, {}, sub, lines, less) = c[Len(lines)]
      <4> HIDE DEF less, lines
      <4> QED BY <2>1, <3>2, ReadLinesIs
    <3>7. c \in [0..Len(lines) -> WalkStates(fs)] /\ c[0] = less
      BY <3>6 DEF Reads
    <3>8. ASSUME NEW k \in 1..Len(lines), ~c[k-1].stopped
          PROVE  Adds(c[k-1], c[k], Under(fs, p, n + 1), must[k], sure[k])
      <4> DEFINE l == lines[k]
      <4>1. k - 1 \in 0..Len(lines)
        BY <3>2
      <4>2. c[k-1] \in WalkStates(fs)
        BY <3>7, <4>1
      <4>3. l \in ToSet(lines) /\ LineUnder(fs, l, n) \subseteq Under(fs, p, n + 1)
        BY <3>2, <3>3
      <4>4. c[k] = ReadLine(fs, {}, sub, l, c[k-1])
        BY <3>6 DEF Reads
      <4>5. must[k] = Must(fs, LineUnder(fs, l, n)) /\ sure[k] = OwnDir(l)
        OBVIOUS
      <4>6. l \in ToSet(fs.lines[p])
        BY <4>3
      <4> HIDE DEF l, must, sure, lines
      <4>7. Adds(c[k-1], c[k], LineUnder(fs, l, n), must[k], sure[k])
        BY <2>4, <3>8, <4>2, <4>4, <4>5, <4>6, ReadLineAdds
      <4> QED BY <4>3, <4>7, AddsWider
    <3>9. Adds(c[0], c[Len(lines)], Under(fs, p, n + 1), Joined(must, Len(lines)),
               Joined(sure, Len(lines)))
      <4> HIDE DEF must, sure, lines, less
      <4> QED BY <2>1, <3>2, <3>5, <3>7, <3>8, LoopAdds
    <3>10. Must(fs, Under(fs, p, n + 1)) \subseteq Joined(must, Len(lines))
      <4> HIDE DEF lines
      <4>1. Must(fs, Under(fs, p, n + 1)) \subseteq
              UNION {Must(fs, LineUnder(fs, lines[k], n)) : k \in 1..Len(lines)}
        BY <3>2, <3>3 DEF Must
      <4> QED BY <4>1 DEF Joined
    <3>11. NamedIn(fs, {p}) \subseteq Joined(sure, Len(lines))
      <4> HIDE DEF lines
      <4>1. ASSUME NEW l \in ToSet(lines), ~l.include
            PROVE  l.dir \in Joined(sure, Len(lines))
        <5>1. PICK k \in 1..Len(lines) : l = lines[k]
          BY <3>2
        <5>2. l.dir \in sure[k]
          BY <4>1, <5>1 DEF OwnDir
        <5> QED BY <5>2 DEF Joined
      <4> QED BY <3>4, <4>1
    <3>12. Adds(less, c[Len(lines)], Under(fs, p, n + 1), Must(fs, Under(fs, p, n + 1)),
                NamedIn(fs, {p}))
      <4> HIDE DEF must, sure, lines, less
      <4> QED BY <3>7, <3>9, <3>10, <3>11, AddsWider
    <3>13. Adds(st, c[Len(lines)], Under(fs, p, n + 1), Must(fs, Under(fs, p, n + 1)),
                NamedIn(fs, {p}))
      <4>1. c[Len(lines)].budget \in Nat
        <5>1. Len(lines) \in 0..Len(lines)
          BY <3>2
        <5>2. c[Len(lines)] \in WalkStates(fs)
          BY <3>7, <5>1
        <5> QED BY <5>2, LimitsAssumption DEF WalkStates
      <4> DEFINE t == c[Len(lines)]
      <4> HIDE DEF less, t
      <4>2. t.budget <= less.budget
        BY <3>12 DEF Adds, t
      <4>3. t.budget <= st.budget
        BY <2>1, <2>2, <4>1, <4>2 DEF t
      <4>4. Adds(less, t, Under(fs, p, n + 1), Must(fs, Under(fs, p, n + 1)), NamedIn(fs, {p}))
        BY <3>12 DEF t
      <4>5. Adds(st, t, Under(fs, p, n + 1), Must(fs, Under(fs, p, n + 1)), NamedIn(fs, {p}))
        BY <2>1, <4>3, <4>4 DEF Adds
      <4> QED BY <4>5 DEF t
    <3> QED BY <1>2, <3>1, <3>6, <3>13 DEF Opening
  <2> QED BY <2>3, <2>4
<1> QED BY <1>1, <1>2

\* Every level of the walk.
LEMMA LevelsAdd ==
  ASSUME NEW fs, IsTree(fs), NEW w, Levels(fs, {}, w)
  PROVE  \A k \in 0..MaxDepth + 1 : AddsUnder(fs, w[k], k)
<1> DEFINE n == MaxDepth + 1
           S == {k \in 0..n : AddsUnder(fs, w[k], k)}
<1>1. n \in Nat
  BY LimitsAssumption
<1>2. 0 \in S
  <2> SUFFICES ASSUME NEW p \in Paths(fs), NEW st \in WalkStates(fs), ~st.stopped
               PROVE  Adds(st, w[0][<<p, st>>], Under(fs, p, 0), Must(fs, Under(fs, p, 0)), {})
    BY <1>1 DEF AddsUnder
  <2>1. w[0][<<p, st>>] = st
    BY DEF Levels
  <2>2. Under(fs, p, 0) = {} /\ Must(fs, {}) = {}
    BY UnderUnfolds DEF Must
  <2> QED BY <2>1, <2>2, AddsNothing
<1>3. ASSUME NEW k \in 0..n-1, k \in S PROVE k + 1 \in S
  <2>1. k + 1 \in 1..n /\ (k + 1) - 1 = k /\ k + 1 \in 0..n /\ k \in 0..n /\ k \in Nat
    BY <1>1
  <2>2. w[k] \in Walks(fs) /\ AddsUnder(fs, w[k], k)
    BY <1>3, <2>1 DEF Levels
  <2> SUFFICES ASSUME NEW p \in Paths(fs), NEW st \in WalkStates(fs), ~st.stopped
               PROVE  Adds(st, w[k+1][<<p, st>>], Under(fs, p, k + 1),
                           Must(fs, Under(fs, p, k + 1)), {})
    BY <2>1 DEF AddsUnder
  <2>3. w[k+1][<<p, st>>] = WalkFile(fs, {}, w[k], p, st)
    <3>1. w[k+1] = [x \in Paths(fs) \X WalkStates(fs) |-> WalkFile(fs, {}, w[k], x[1], x[2])]
      BY <2>1 DEF Levels
    <3> QED BY <3>1
  <2>4. Adds(st, w[k+1][<<p, st>>], Under(fs, p, k + 1), Must(fs, Under(fs, p, k + 1)),
             Opening(fs, p, st))
    BY <2>1, <2>2, <2>3, WalkFileAdds
  <2> QED BY <2>4, AddsWider
<1>4. 0..n \subseteq S
  <2> HIDE DEF S
  <2> QED BY <1>1, <1>2, <1>3, Climb
<1> QED BY <1>4

\* The walk begins in a state of its own.
LEMMA BeginIsState ==
  ASSUME NEW fs
  PROVE  Begin \in WalkStates(fs) /\ ~Begin.stopped /\ Begin.named = <<>> /\ Begin.budget = Budget
BY LimitsAssumption DEF Begin, WalkStates

\* What the walk hands over is what the files below ld.so.conf name.
LEMMA WalkFinds ==
  ASSUME NEW fs, IsTree(fs)
  PROVE  LET walk == EachDir(fs, {})
             all  == NamedIn(fs, Reached(fs))
         IN  /\ walk \in WalkStates(fs)
             /\ ToSet(walk.named) \subseteq all
             /\ NamedIn(fs, {Root}) \subseteq ToSet(walk.named)
             /\ Fits(fs) /\ walk.budget > 0 => ToSet(walk.named) = all
<1> DEFINE walk == EachDir(fs, {})
           all == NamedIn(fs, Reached(fs))
           n == MaxDepth + 1
<1>1. PICK w : Levels(fs, {}, w) /\ walk = w[n][<<Root, Begin>>]
  BY EachDirIs
<1>2. n \in 1..n /\ n - 1 = MaxDepth /\ n \in 0..n /\ MaxDepth \in 0..n /\ MaxDepth \in Nat
  BY LimitsAssumption
<1>3. Root \in Paths(fs) /\ Begin \in WalkStates(fs)
  BY TreeFacts, BeginIsState
<1>4. w[n] = [x \in Paths(fs) \X WalkStates(fs) |-> WalkFile(fs, {}, w[MaxDepth], x[1], x[2])]
  BY <1>1, <1>2 DEF Levels
<1>5. walk = WalkFile(fs, {}, w[MaxDepth], Root, Begin)
  BY <1>1, <1>3, <1>4
<1>6. w[MaxDepth] \in Walks(fs) /\ AddsUnder(fs, w[MaxDepth], MaxDepth)
  BY <1>1, <1>2, LevelsAdd DEF Levels
<1> HIDE DEF walk
<1>7. Adds(Begin, walk, Under(fs, Root, n), Must(fs, Under(fs, Root, n)), NamedIn(fs, {Root}))
  <2>1. Begin.budget # 0
    BY BeginIsState, LimitsAssumption
  <2>2. Opening(fs, Root, Begin) = NamedIn(fs, {Root})
    BY <2>1 DEF Opening
  <2> QED BY <1>2, <1>3, <1>5, <1>6, <2>2, BeginIsState, WalkFileAdds
<1>8. Under(fs, Root, n) = all
  BY ReachedIsBelow DEF Under
<1>9. walk \in WalkStates(fs)
  BY <1>3, <1>5, <1>6, WalkFileType
<1>10. ToSet(walk.named) \subseteq all
  <2> HIDE DEF all
  <2>1. PICK x \in Seq(all) : walk.named = Begin.named \o x
    BY <1>7, <1>8 DEF Adds
  <2>2. walk.named = x
    BY <2>1, BeginIsState, ConcatEmptySeq
  <2>3. DOMAIN x = 1..Len(x) /\ \A i \in 1..Len(x) : x[i] \in all
    BY LenProperties, ElementOfSeq
  <2> QED BY <2>2, <2>3 DEF ToSet
<1>11. NamedIn(fs, {Root}) \subseteq ToSet(walk.named)
  BY <1>7 DEF Adds
<1>12. Fits(fs) /\ walk.budget > 0 => all \subseteq ToSet(walk.named)
  <2> HIDE DEF all
  <2> QED BY <1>7, <1>8 DEF Adds, Must
<1> HIDE DEF all
<1>13. /\ walk \in WalkStates(fs)
       /\ ToSet(walk.named) \subseteq all
       /\ NamedIn(fs, {Root}) \subseteq ToSet(walk.named)
       /\ Fits(fs) /\ walk.budget > 0 => ToSet(walk.named) = all
  BY <1>9, <1>10, <1>11, <1>12
<1> QED BY <1>13 DEF walk, all
-----------------------------------------------------------------------------
(* The order of readdir.                                                   *)

\* The names turned round are as good a tree, with the same files and lines.
LEMMA TurnedIs ==
  ASSUME NEW fs, IsTree(fs)
  PROVE  LET T == Turned(fs)
         IN  /\ T.lines = fs.lines
             /\ DOMAIN T.listing = DOMAIN fs.listing
             /\ \A c \in DOMAIN fs.listing : T.listing[c] = Reverse(fs.listing[c])
             /\ Paths(T) = Paths(fs)
             /\ WalkStates(T) = WalkStates(fs)
             /\ Mentioned(T) = Mentioned(fs)
             /\ IsTree(T)
<1> DEFINE T == Turned(fs)
           turned == [c \in DOMAIN fs.listing |-> Reverse(fs.listing[c])]
<1>1. fs = [lines |-> fs.lines, listing |-> fs.listing]
  BY DEF IsTree
<1>2. T = [lines |-> fs.lines, listing |-> turned]
  <2> DEFINE a == fs.lines
             b == fs.listing
  <2>1. fs = [lines |-> a, listing |-> b]
    BY <1>1
  <2>2. T = [fs EXCEPT !.listing = turned]
    BY DEF Turned
  <2> HIDE DEF a, b, turned
  <2> QED BY <2>1, <2>2 DEF a
<1>3. T.lines = fs.lines /\ T.listing = turned
  <2> HIDE DEF T, turned
  <2> QED BY <1>2
<1>4. DOMAIN turned = DOMAIN fs.listing
      /\ \A c \in DOMAIN fs.listing : turned[c] = Reverse(fs.listing[c])
  OBVIOUS
<1>5. ASSUME NEW c \in DOMAIN fs.listing
      PROVE  turned[c] \in Listings /\ ToSet(turned[c]) = ToSet(fs.listing[c])
  <2>1. fs.listing[c] \in Listings
    BY TreeFacts
  <2> QED BY <1>4, <2>1, ReverseSame
<1> HIDE DEF T, turned
<1>6. Mentioned(T) = Mentioned(fs)
  BY <1>3 DEF Mentioned
<1>7. Paths(T) = Paths(fs)
  BY <1>3, <1>4, <1>5 DEF Paths
<1>8. WalkStates(T) = WalkStates(fs)
  BY <1>6 DEF WalkStates
<1>9. IsTree(T)
  <2>1. T = [lines |-> T.lines, listing |-> T.listing]
    BY <1>2, <1>3
  <2>2. \A c \in DOMAIN T.listing : T.listing[c] \in Seq(Seq(Int) \ {<<>>})
    BY <1>3, <1>4, <1>5 DEF Listings, Names
  <2>3. \A p \in DOMAIN T.lines :
          T.lines[p] \in Seq([include : BOOLEAN, dir : Mentioned(T), base : Seq(Int)])
    BY <1>3, <1>6 DEF IsTree
  <2> QED BY <2>1, <2>2, <2>3 DEF IsTree
<1>10. /\ T.lines = fs.lines
       /\ DOMAIN T.listing = DOMAIN fs.listing
       /\ \A c \in DOMAIN fs.listing : T.listing[c] = Reverse(fs.listing[c])
  BY <1>3, <1>4
<1> QED BY <1>6, <1>7, <1>8, <1>9, <1>10 DEF T

\* With room for the files of every include, a line does the same whatever the
\* order its directory is read in, ...
LEMMA ReadLineTurned ==
  ASSUME NEW fs, IsTree(fs), Fits(fs), NEW accepts, NEW sub, NEW st,
         NEW p \in DOMAIN fs.lines, NEW line \in ToSet(fs.lines[p])
  PROVE  ReadLine(Turned(fs), accepts, sub, line, st) = ReadLine(fs, accepts, sub, line, st)
<1> DEFINE T == Turned(fs)
           want == Ending(line.base)
<1>1. DOMAIN T.listing = DOMAIN fs.listing
      /\ \A c \in DOMAIN fs.listing : T.listing[c] = Reverse(fs.listing[c])
  BY TurnedIs
<1>2. line \in Lines(fs)
  BY TreeFacts
<1>3. want \in Names
  BY <1>2, EndingIsName DEF Lines
<1> HIDE DEF T, want
<1>4. ASSUME line.include, line.dir \in DOMAIN fs.listing
      PROVE  Selected(T.listing[line.dir], want) = Selected(fs.listing[line.dir], want)
  <2> DEFINE names == fs.listing[line.dir]
  <2>1. names \in Listings
    BY <1>4, TreeFacts
  <2>2. line \in Includes(fs, p)
    BY <1>4 DEF Includes
  <2>3. Cardinality(AllKept(names, want)) <= MaxNames
    BY <2>2, KeptIsMatching DEF want
  <2>4. T.listing[line.dir] = Reverse(names)
    BY <1>1, <1>4
  <2> HIDE DEF names
  <2>5. Reverse(names) \in Listings /\ AllKept(Reverse(names), want) = AllKept(names, want)
    BY <2>1, ReverseSame DEF AllKept
  <2>6. Selected(Reverse(names), want) = Selected(names, want)
    BY <1>3, <2>1, <2>3, <2>5, SelectedIs
  <2> QED BY <2>4, <2>6 DEF names
<1>5. CASE st.stopped
  BY <1>5 DEF ReadLine
<1>6. CASE ~st.stopped /\ ~line.include
  BY <1>6 DEF ReadLine
<1>7. CASE ~st.stopped /\ line.include /\ line.dir \notin DOMAIN fs.listing
  BY <1>1, <1>7 DEF ReadLine, T
<1>8. CASE ~st.stopped /\ line.include /\ line.dir \in DOMAIN fs.listing
  <2>1. line.dir \in DOMAIN T.listing
    BY <1>1, <1>8
  <2>2. CASE Len(want) >= SuffixSize
    BY <1>8, <2>1, <2>2 DEF ReadLine, T, want
  <2>3. CASE ~(Len(want) >= SuffixSize)
    <3>1. ReadLine(T, accepts, sub, line, st) =
            TryFiles(sub, line.dir, Selected(T.listing[line.dir], want), st)
      BY <1>8, <2>1, <2>3 DEF ReadLine, want
    <3>2. ReadLine(fs, accepts, sub, line, st) =
            TryFiles(sub, line.dir, Selected(fs.listing[line.dir], want), st)
      BY <1>8, <2>3 DEF ReadLine, want
    <3> QED BY <1>4, <1>8, <3>1, <3>2 DEF T
  <2> QED BY <2>2, <2>3
<1> QED BY <1>5, <1>6, <1>7, <1>8

\* ... so does a file, ...
LEMMA WalkFileTurned ==
  ASSUME NEW fs, IsTree(fs), Fits(fs), NEW accepts, NEW sub \in Walks(fs),
         NEW p \in Paths(fs), NEW st \in WalkStates(fs)
  PROVE  WalkFile(Turned(fs), accepts, sub, p, st) = WalkFile(fs, accepts, sub, p, st)
<1> DEFINE T == Turned(fs)
           less == [st EXCEPT !.budget = @ - 1]
           lines == fs.lines[p]
<1>1. T.lines = fs.lines /\ IsTree(T) /\ Walks(T) = Walks(fs) /\ Lines(T) = Lines(fs)
      /\ WalkStates(T) = WalkStates(fs)
  BY TurnedIs DEF Walks, Lines
<1>2. CASE st.budget = 0
  BY <1>2 DEF WalkFile
<1>3. CASE st.budget # 0 /\ p \notin DOMAIN fs.lines
  BY <1>1, <1>3 DEF WalkFile
<1>4. CASE st.budget # 0 /\ p \in DOMAIN fs.lines
  <2>1. WalkFile(fs, accepts, sub, p, st) = ReadLines(fs, accepts, sub, lines, less)
    BY <1>4 DEF WalkFile
  <2>2. WalkFile(T, accepts, sub, p, st) = ReadLines(T, accepts, sub, lines, less)
    BY <1>1, <1>4 DEF WalkFile
  <2>3. less \in WalkStates(fs)
    BY <1>4, OpenedType
  <2>4. /\ lines \in Seq(Lines(fs)) /\ Len(lines) \in Nat
        /\ ToSet(lines) = {lines[k] : k \in 1..Len(lines)}
    BY <1>4, TreeFacts
  <2>5. \A k \in 1..Len(lines) : \A x :
          ReadLine(T, accepts, sub, lines[k], x) = ReadLine(fs, accepts, sub, lines[k], x)
    <3> SUFFICES ASSUME NEW k \in 1..Len(lines), NEW x
                 PROVE  ReadLine(T, accepts, sub, lines[k], x) = ReadLine(fs, accepts, sub, lines[k], x)
      OBVIOUS
    <3>1. lines[k] \in ToSet(fs.lines[p])
      BY <2>4
    <3> HIDE DEF lines
    <3> QED BY <1>4, <3>1, ReadLineTurned
  <2> HIDE DEF T, less, lines
  <2>6. PICK c : Reads(fs, accepts, sub, lines, less, c)
                 /\ ReadLines(fs, accepts, sub, lines, less) = c[Len(lines)]
    BY <2>3, <2>4, ReadLinesIs
  <2>7. PICK d : Reads(T, accepts, sub, lines, less, d)
                 /\ ReadLines(T, accepts, sub, lines, less) = d[Len(lines)]
    BY <1>1, <2>3, <2>4, ReadLinesIs
  <2> DEFINE S == {k \in 0..Len(lines) : d[k] = c[k]}
  <2>8. 0 \in S
    BY <2>4, <2>6, <2>7 DEF Reads
  <2>9. ASSUME NEW k \in 0..Len(lines)-1, k \in S PROVE k + 1 \in S
    <3>1. k + 1 \in 1..Len(lines) /\ (k + 1) - 1 = k /\ k + 1 \in 0..Len(lines) /\ d[k] = c[k]
      BY <2>4, <2>9
    <3>2. c[k+1] = ReadLine(fs, accepts, sub, lines[k+1], c[k])
      BY <2>6, <3>1 DEF Reads
    <3>3. d[k+1] = ReadLine(T, accepts, sub, lines[k+1], d[k])
      BY <2>7, <3>1 DEF Reads
    <3> QED BY <2>5, <3>1, <3>2, <3>3
  <2>10. 0..Len(lines) \subseteq S
    <3> HIDE DEF S
    <3> QED BY <2>4, <2>8, <2>9, Climb
  <2>11. d[Len(lines)] = c[Len(lines)]
    BY <2>4, <2>10
  <2> QED BY <2>1, <2>2, <2>6, <2>7, <2>11 DEF T
<1> QED BY <1>2, <1>3, <1>4

\* ... and the whole walk.
LEMMA EachDirTurned ==
  ASSUME NEW fs, IsTree(fs), Fits(fs), NEW accepts
  PROVE  EachDir(Turned(fs), accepts) = EachDir(fs, accepts)
<1> DEFINE T == Turned(fs)
           n == MaxDepth + 1
<1>1. IsTree(T) /\ Paths(T) = Paths(fs) /\ WalkStates(T) = WalkStates(fs) /\ Walks(T) = Walks(fs)
  BY TurnedIs DEF Walks
<1>2. n \in Nat
  BY LimitsAssumption
<1>3. ASSUME NEW sub \in Walks(fs), NEW p \in Paths(fs), NEW st \in WalkStates(fs)
      PROVE  WalkFile(T, accepts, sub, p, st) = WalkFile(fs, accepts, sub, p, st)
  BY WalkFileTurned
<1> HIDE DEF T
<1>4. PICK w : Levels(fs, accepts, w) /\ EachDir(fs, accepts) = w[n][<<Root, Begin>>]
  BY EachDirIs
<1>5. PICK v : Levels(T, accepts, v) /\ EachDir(T, accepts) = v[n][<<Root, Begin>>]
  BY <1>1, EachDirIs
<1> DEFINE S == {k \in 0..n : v[k] = w[k]}
<1>6. 0 \in S
  BY <1>1, <1>2, <1>4, <1>5 DEF Levels
<1>7. ASSUME NEW k \in 0..n-1, k \in S PROVE k + 1 \in S
  <2>1. k + 1 \in 1..n /\ (k + 1) - 1 = k /\ k + 1 \in 0..n /\ k \in 0..n /\ v[k] = w[k]
    BY <1>2, <1>7
  <2>2. w[k] \in Walks(fs)
    BY <1>4, <2>1 DEF Levels
  <2> DEFINE D == Paths(fs) \X WalkStates(fs)
  <2>3. w[k+1] = [x \in D |-> WalkFile(fs, accepts, w[k], x[1], x[2])]
    BY <1>4, <2>1 DEF Levels
  <2>4. v[k+1] = [x \in D |-> WalkFile(T, accepts, w[k], x[1], x[2])]
    <3>1. v[k+1] = [x \in Paths(T) \X WalkStates(T) |-> WalkFile(T, accepts, v[k], x[1], x[2])]
      BY <1>5, <2>1 DEF Levels
    <3>2. Paths(T) \X WalkStates(T) = D
      BY <1>1
    <3> HIDE DEF D
    <3> QED BY <2>1, <3>1, <3>2
  <2>5. \A x \in D : WalkFile(T, accepts, w[k], x[1], x[2]) = WalkFile(fs, accepts, w[k], x[1], x[2])
    BY <1>3, <2>2
  <2> HIDE DEF D
  <2>6. v[k+1] = w[k+1]
    BY <2>3, <2>4, <2>5
  <2> QED BY <2>1, <2>6
<1>8. 0..n \subseteq S
  <2> HIDE DEF S
  <2> QED BY <1>2, <1>6, <1>7, Climb
<1>9. v[n] = w[n]
  BY <1>2, <1>8
<1> QED BY <1>4, <1>5, <1>9 DEF T
-----------------------------------------------------------------------------
(* A callback that accepts one directory.                                  *)

\* Where the first d of a sequence is, the part up to it ends.
LEMMA UpToIs ==
  ASSUME NEW M, NEW a \in Seq(M), NEW d, NEW i \in 1..Len(a), a[i] = d,
         \A j \in 1..i-1 : a[j] # d
  PROVE  d \in ToSet(a) /\ UpTo(a, d) = SubSeq(a, 1, i)
<1>1. Len(a) \in Nat /\ DOMAIN a = 1..Len(a)
  BY LenProperties
<1>2. d \in ToSet(a)
  BY <1>1 DEF ToSet
<1> DEFINE IsFirst(x) == a[x] = d /\ \A j \in 1..x-1 : a[j] # d
           c == CHOOSE x \in DOMAIN a : IsFirst(x)
<1>3. i \in DOMAIN a /\ IsFirst(i)
  BY <1>1
<1>4. c \in DOMAIN a /\ IsFirst(c)
  <2> HIDE DEF IsFirst
  <2> QED BY <1>3
<1> HIDE DEF c
<1>5. c = i
  <2>1. c \in Nat /\ c >= 1 /\ i \in Nat /\ i >= 1
    BY <1>1, <1>4
  <2>2. ~(c < i)
    <3>1. c < i => c \in 1..i-1
      BY <2>1
    <3> QED BY <1>4, <3>1
  <2>3. ~(i < c)
    <3>1. i < c => i \in 1..c-1
      BY <2>1
    <3> QED BY <1>4, <3>1
  <2> QED BY <2>1, <2>2, <2>3
<1> QED BY <1>2, <1>5 DEF UpTo, c

\* A d that is in a sequence is in it for a first time.
LEMMA FirstExists ==
  ASSUME NEW M, NEW a \in Seq(M), NEW d \in ToSet(a)
  PROVE  \E i \in 1..Len(a) : a[i] = d /\ \A j \in 1..i-1 : a[j] # d
<1>1. Len(a) \in Nat /\ DOMAIN a = 1..Len(a)
  BY LenProperties
<1> DEFINE S == {i \in 1..Len(a) : a[i] = d}
<1>2. S \in SUBSET Nat /\ S # {}
  BY <1>1 DEF ToSet
<1>3. PICK i \in S : \A x \in S : i <= x
  <2> HIDE DEF S
  <2> QED BY <1>2, LeastExists
<1>4. i \in 1..Len(a) /\ a[i] = d
  BY <1>3
<1>5. ASSUME NEW j \in 1..i-1 PROVE a[j] # d
  <2>1. j \in 1..Len(a) /\ ~(i <= j)
    BY <1>1, <1>4
  <2> QED BY <1>3, <2>1
<1> QED BY <1>4, <1>5

\* What comes after the first d does not change the part up to it.
LEMMA UpToConcat ==
  ASSUME NEW M, NEW a \in Seq(M), NEW x \in Seq(M), NEW d \in ToSet(a)
  PROVE  UpTo(a \o x, d) = UpTo(a, d) /\ d \in ToSet(a \o x)
<1>1. PICK i \in 1..Len(a) : a[i] = d /\ \A j \in 1..i-1 : a[j] # d
  BY FirstExists
<1>2. Len(a) \in Nat /\ Len(x) \in Nat /\ a \o x \in Seq(M) /\ Len(a \o x) = Len(a) + Len(x)
      /\ \A j \in 1..Len(a) + Len(x) : (a \o x)[j] = IF j <= Len(a) THEN a[j] ELSE x[j - Len(a)]
  BY LenProperties, ConcatProperties
<1>3. i \in 1..Len(a \o x) /\ (a \o x)[i] = d
  BY <1>1, <1>2
<1>4. \A j \in 1..i-1 : (a \o x)[j] # d
  <2>1. \A j \in 1..i-1 : j \in 1..Len(a) + Len(x) /\ j <= Len(a)
    BY <1>2
  <2> QED BY <1>1, <1>2, <2>1
<1>5. d \in ToSet(a \o x) /\ UpTo(a \o x, d) = SubSeq(a \o x, 1, i)
  <2> DEFINE b == a \o x
  <2>1. b \in Seq(M) /\ i \in 1..Len(b) /\ b[i] = d /\ \A j \in 1..i-1 : b[j] # d
    BY <1>2, <1>3, <1>4
  <2> HIDE DEF b
  <2>2. d \in ToSet(b) /\ UpTo(b, d) = SubSeq(b, 1, i)
    BY <2>1, UpToIs
  <2> QED BY <2>2 DEF b
<1>6. UpTo(a, d) = SubSeq(a, 1, i)
  BY <1>1, UpToIs
<1>7. SubSeq(a \o x, 1, i) = SubSeq(a, 1, i)
  <2>1. 1 \in 1..Len(a)
    BY <1>2
  <2> QED BY <2>1, SubSeqOfConcat1
<1> QED BY <1>5, <1>6, <1>7

\* A first d at the end has all of the sequence up to it.
LEMMA UpToAppend ==
  ASSUME NEW M, NEW a \in Seq(M), NEW d \in M, d \notin ToSet(a)
  PROVE  UpTo(Append(a, d), d) = Append(a, d) /\ d \in ToSet(Append(a, d))
<1> DEFINE b == Append(a, d)
<1>1. Len(a) \in Nat /\ DOMAIN a = 1..Len(a)
  BY LenProperties
<1>2. /\ b \in Seq(M) /\ Len(b) = Len(a) + 1
      /\ \A j \in 1..Len(a) : b[j] = a[j]
      /\ b[Len(a) + 1] = d
  BY AppendProperties
<1> HIDE DEF b
<1>3. Len(b) \in 1..Len(b) /\ b[Len(b)] = d
  <2>1. Len(a) + 1 \in 1..Len(a) + 1
    BY <1>1
  <2>2. Len(b) = Len(a) + 1
    BY <1>2
  <2>3. b[Len(a) + 1] = d
    BY <1>2
  <2> QED BY <2>1, <2>2, <2>3
<1>4. \A j \in 1..Len(b)-1 : b[j] # d
  BY <1>1, <1>2 DEF ToSet
<1>5. d \in ToSet(b) /\ UpTo(b, d) = SubSeq(b, 1, Len(b))
  BY <1>2, <1>3, <1>4, UpToIs
<1> QED BY <1>2, <1>5, SubSeqFull DEF b

\* s is where a walk stands that stops at d, when one that does not stands at w.
StopsAt(s, w, d) ==
  /\ ~w.stopped
  /\ IF d \notin ToSet(w.named) THEN s = w ELSE s.stopped /\ s.named = UpTo(w.named, d)

\* The walk of a file keeps the two so.
Alike(fs, g, h, d) ==
  \A p \in Paths(fs), st \in WalkStates(fs) :
    ~st.stopped /\ d \notin ToSet(st.named) => StopsAt(h[<<p, st>>], g[<<p, st>>], d)

\* Once stopped it stands where it does.
LEMMA StoppedStays ==
  ASSUME NEW fs, NEW s, NEW w \in WalkStates(fs), NEW v \in WalkStates(fs), NEW d,
         StopsAt(s, w, d), d \in ToSet(w.named),
         NEW may \in SUBSET Mentioned(fs), NEW must, NEW sure, Adds(w, v, may, must, sure)
  PROVE  StopsAt(s, v, d)
<1>1. PICK x \in Seq(may) : v.named = w.named \o x
  BY DEF Adds
<1> DEFINE a == w.named
           M == Mentioned(fs)
<1>2. x \in Seq(M) /\ a \in Seq(M)
  BY SeqMonotonic DEF WalkStates
<1>3. d \in ToSet(a)
  OBVIOUS
<1>4. v.named = a \o x /\ ~v.stopped /\ s.stopped /\ s.named = UpTo(a, d)
  BY <1>1 DEF Adds, StopsAt
<1> HIDE DEF a, M
<1>5. UpTo(a \o x, d) = UpTo(a, d) /\ d \in ToSet(a \o x)
  BY <1>2, <1>3, UpToConcat
<1> QED BY <1>4, <1>5 DEF StopsAt

\* The files of one include keep the two walks so, ...
LEMMA TryFilesAlike ==
  ASSUME NEW fs, IsTree(fs), NEW g \in Walks(fs), NEW h \in Walks(fs), NEW d, Alike(fs, g, h, d),
         NEW n, AddsUnder(fs, g, n),
         NEW dir, NEW N, NEW names \in Seq(N), \A m \in N : <<dir, m>> \in Paths(fs),
         NEW st \in WalkStates(fs), ~st.stopped, d \notin ToSet(st.named)
  PROVE  StopsAt(TryFiles(h, dir, names, st), TryFiles(g, dir, names, st), d)
<1>1. PICK c : Tries(fs, g, dir, names, st, c) /\ TryFiles(g, dir, names, st) = c[Len(names)]
  BY TryFilesIs
<1>2. PICK e : Tries(fs, h, dir, names, st, e) /\ TryFiles(h, dir, names, st) = e[Len(names)]
  BY TryFilesIs
<1>3. Len(names) \in Nat /\ \A k \in 1..Len(names) : names[k] \in N
  BY LenProperties, ElementOfSeq
<1> DEFINE S == {k \in 0..Len(names) : StopsAt(e[k], c[k], d)}
<1>4. 0 \in S
  BY <1>1, <1>2, <1>3 DEF Tries, StopsAt
<1>5. ASSUME NEW k \in 0..Len(names)-1, k \in S PROVE k + 1 \in S
  <2> DEFINE p == <<dir, names[k+1]>>
  <2>1. k + 1 \in 1..Len(names) /\ (k + 1) - 1 = k /\ k \in 0..Len(names) /\ k + 1 \in 0..Len(names)
    BY <1>3
  <2>2. p \in Paths(fs)
    BY <1>3, <2>1
  <2>3. /\ c[k] \in WalkStates(fs) /\ c[k+1] \in WalkStates(fs)
        /\ c[k+1] = TryFile(g, p, c[k]) /\ e[k+1] = TryFile(h, p, e[k])
    BY <1>1, <1>2, <2>1 DEF Tries
  <2>4. StopsAt(e[k], c[k], d) /\ ~c[k].stopped
    BY <1>5 DEF StopsAt
  <2> HIDE DEF p
  <2>5. c[k+1] = g[<<p, c[k]>>]
    BY <2>3, <2>4 DEF TryFile
  <2>6. CASE d \notin ToSet(c[k].named)
    <3>1. e[k] = c[k]
      BY <2>4, <2>6 DEF StopsAt
    <3>2. e[k+1] = h[<<p, c[k]>>]
      BY <2>3, <2>4, <3>1 DEF TryFile
    <3>3. StopsAt(e[k+1], c[k+1], d)
      BY <2>2, <2>3, <2>4, <2>5, <2>6, <3>2 DEF Alike
    <3> QED BY <2>1, <3>3
  <2>7. CASE d \in ToSet(c[k].named)
    <3>1. e[k].stopped
      BY <2>4, <2>7 DEF StopsAt
    <3>2. e[k+1] = e[k]
      BY <2>3, <3>1 DEF TryFile
    <3>3. Adds(c[k], c[k+1], Under(fs, p, n), Must(fs, Under(fs, p, n)), {})
      BY <2>2, <2>3, <2>4, <2>5 DEF AddsUnder
    <3>4. Under(fs, p, n) \subseteq Mentioned(fs)
      BY UnderMentioned
    <3>5. StopsAt(e[k], c[k+1], d)
      BY <2>3, <2>4, <2>7, <3>3, <3>4, StoppedStays
    <3> QED BY <2>1, <3>2, <3>5
  <2> QED BY <2>6, <2>7
<1>6. 0..Len(names) \subseteq S
  <2> HIDE DEF S
  <2> QED BY <1>3, <1>4, <1>5, Climb
<1> QED BY <1>1, <1>2, <1>3, <1>6

\* ... so does a line, ...
LEMMA ReadLineAlike ==
  ASSUME NEW fs, IsTree(fs), NEW g \in Walks(fs), NEW h \in Walks(fs), NEW d, Alike(fs, g, h, d),
         NEW n, AddsUnder(fs, g, n),
         NEW line \in Lines(fs), NEW st \in WalkStates(fs), ~st.stopped, d \notin ToSet(st.named)
  PROVE  StopsAt(ReadLine(fs, {d}, h, line, st), ReadLine(fs, {}, g, line, st), d)
<1> DEFINE want == Ending(line.base)
           names == Selected(fs.listing[line.dir], want)
           w == ReadLine(fs, {}, g, line, st)
           s == ReadLine(fs, {d}, h, line, st)
<1>1. StopsAt(st, st, d)
  BY DEF StopsAt
<1>2. CASE ~line.include
  <2>1. /\ w = [st EXCEPT !.named = Append(@, line.dir), !.stopped = line.dir \in {}]
        /\ s = [st EXCEPT !.named = Append(@, line.dir), !.stopped = line.dir \in {d}]
    BY <1>2 DEF ReadLine
  <2>2. st.named \in Seq(Mentioned(fs)) /\ line.dir \in Mentioned(fs)
    BY DEF WalkStates, Lines
  <2>3. /\ ~w.stopped /\ w.named = Append(st.named, line.dir)
        /\ s.named = Append(st.named, line.dir) /\ (line.dir = d => s.stopped)
    BY <2>1 DEF WalkStates
  <2>4. CASE line.dir = d
    <3>1. UpTo(Append(st.named, d), d) = Append(st.named, d) /\ d \in ToSet(Append(st.named, d))
      BY <2>2, <2>4, UpToAppend
    <3> HIDE DEF w, s
    <3> QED BY <2>3, <2>4, <3>1 DEF StopsAt, w, s
  <2>5. CASE line.dir # d
    <3>1. (line.dir \in {}) = (line.dir \in {d})
      BY <2>5
    <3>2. s = w
      BY <2>1, <3>1
    <3>3. d \notin ToSet(w.named)
      <4> DEFINE a == st.named
                 x == line.dir
                 M == Mentioned(fs)
      <4>1. a \in Seq(M) /\ x \in M /\ x # d /\ d \notin ToSet(a) /\ w.named = Append(a, x)
        BY <2>2, <2>3, <2>5
      <4> HIDE DEF a, x, M, w
      <4>2. /\ Append(a, x) \in Seq(M) /\ Len(Append(a, x)) = Len(a) + 1
            /\ \A j \in 1..Len(a) : Append(a, x)[j] = a[j]
            /\ Append(a, x)[Len(a) + 1] = x
        BY <4>1, AppendProperties
      <4>3. Len(a) \in Nat /\ DOMAIN a = 1..Len(a) /\ DOMAIN Append(a, x) = 1..Len(a) + 1
        BY <4>1, <4>2, LenProperties
      <4> QED BY <4>1, <4>2, <4>3 DEF ToSet
    <3> HIDE DEF w, s
    <3> QED BY <2>3, <3>2, <3>3 DEF StopsAt, w, s
  <2> QED BY <2>4, <2>5
<1>3. CASE line.include /\ (Len(want) >= SuffixSize \/ line.dir \notin DOMAIN fs.listing)
  <2>1. w = st /\ s = st
    BY <1>3 DEF ReadLine
  <2> HIDE DEF w, s
  <2> QED BY <1>1, <2>1 DEF w, s
<1>4. CASE line.include /\ ~(Len(want) >= SuffixSize \/ line.dir \notin DOMAIN fs.listing)
  <2>1. w = TryFiles(g, line.dir, names, st) /\ s = TryFiles(h, line.dir, names, st)
    BY <1>4 DEF ReadLine
  <2>2. want \in Names
    BY EndingIsName DEF Lines
  <2>3. names \in Seq(AllKept(fs.listing[line.dir], want))
    <3>1. fs.listing[line.dir] \in Listings
      BY <1>4, TreeFacts
    <3> QED BY <2>2, <3>1, SelectedIs
  <2>4. \A m \in AllKept(fs.listing[line.dir], want) : <<line.dir, m>> \in Paths(fs)
    BY <1>4, TreeFacts DEF AllKept
  <2> HIDE DEF want, names, w, s
  <2>5. StopsAt(TryFiles(h, line.dir, names, st), TryFiles(g, line.dir, names, st), d)
    BY <2>3, <2>4, TryFilesAlike
  <2> QED BY <2>1, <2>5 DEF w, s
<1> QED BY <1>2, <1>3, <1>4

\* ... and so does a file.
LEMMA WalkFileAlike ==
  ASSUME NEW fs, IsTree(fs), NEW g \in Walks(fs), NEW h \in Walks(fs), NEW d, Alike(fs, g, h, d),
         NEW n, AddsUnder(fs, g, n),
         NEW p \in Paths(fs), NEW st \in WalkStates(fs), ~st.stopped, d \notin ToSet(st.named)
  PROVE  StopsAt(WalkFile(fs, {d}, h, p, st), WalkFile(fs, {}, g, p, st), d)
<1> DEFINE less == [st EXCEPT !.budget = @ - 1]
           lines == fs.lines[p]
<1>1. CASE st.budget = 0
  BY <1>1 DEF WalkFile, StopsAt
<1>2. CASE st.budget # 0
  <2>1. /\ less \in WalkStates(fs) /\ ~less.stopped /\ d \notin ToSet(less.named)
    BY <1>2, OpenedType
  <2>2. StopsAt(less, less, d)
    BY <2>1 DEF StopsAt
  <2>3. CASE p \notin DOMAIN fs.lines
    BY <1>2, <2>2, <2>3 DEF WalkFile
  <2>4. CASE p \in DOMAIN fs.lines
    <3>1. /\ WalkFile(fs, {}, g, p, st) = ReadLines(fs, {}, g, lines, less)
          /\ WalkFile(fs, {d}, h, p, st) = ReadLines(fs, {d}, h, lines, less)
      BY <1>2, <2>4 DEF WalkFile
    <3>2. /\ lines \in Seq(Lines(fs)) /\ Len(lines) \in Nat
          /\ \A k \in 1..Len(lines) : lines[k] \in Lines(fs) /\ lines[k] \in ToSet(fs.lines[p])
      <4>1. /\ lines \in Seq(Lines(fs)) /\ Len(lines) \in Nat
            /\ ToSet(fs.lines[p]) = {lines[k] : k \in 1..Len(lines)}
            /\ \A k \in 1..Len(lines) : lines[k] \in Lines(fs)
        BY <2>4, TreeFacts
      <4> QED BY <4>1
    <3> HIDE DEF lines, less
    <3>3. PICK c : /\ Reads(fs, {}, g, lines, less, c)
                   /\ ReadLines(fs, {}, g, lines, less) = c[Len(lines)]
      BY <2>1, <3>2, ReadLinesIs
    <3>4. PICK e : /\ Reads(fs, {d}, h, lines, less, e)
                   /\ ReadLines(fs, {d}, h, lines, less) = e[Len(lines)]
      BY <2>1, <3>2, ReadLinesIs
    <3> DEFINE S == {k \in 0..Len(lines) : StopsAt(e[k], c[k], d)}
    <3>5. 0 \in S
      BY <2>2, <3>2, <3>3, <3>4 DEF Reads
    <3>6. ASSUME NEW k \in 0..Len(lines)-1, k \in S PROVE k + 1 \in S
      <4> DEFINE l == lines[k+1]
      <4>1. k + 1 \in 1..Len(lines) /\ (k + 1) - 1 = k /\ k \in 0..Len(lines) /\ k + 1 \in 0..Len(lines)
        BY <3>2
      <4>2. l \in Lines(fs) /\ l \in ToSet(fs.lines[p])
        BY <3>2, <4>1
      <4>3. /\ c[k] \in WalkStates(fs) /\ c[k+1] \in WalkStates(fs)
            /\ c[k+1] = ReadLine(fs, {}, g, l, c[k]) /\ e[k+1] = ReadLine(fs, {d}, h, l, e[k])
        BY <3>3, <3>4, <4>1 DEF Reads
      <4>4. StopsAt(e[k], c[k], d) /\ ~c[k].stopped
        BY <3>6 DEF StopsAt
      <4> HIDE DEF l
      <4>5. CASE d \notin ToSet(c[k].named)
        <5>1. e[k] = c[k]
          BY <4>4, <4>5 DEF StopsAt
        <5>2. StopsAt(e[k+1], c[k+1], d)
          BY <4>2, <4>3, <4>4, <4>5, <5>1, ReadLineAlike
        <5> QED BY <4>1, <5>2
      <4>6. CASE d \in ToSet(c[k].named)
        <5>1. e[k].stopped
          BY <4>4, <4>6 DEF StopsAt
        <5>2. e[k+1] = e[k]
          BY <4>3, <5>1 DEF ReadLine
        <5>3. Adds(c[k], c[k+1], LineUnder(fs, l, n), Must(fs, LineUnder(fs, l, n)), OwnDir(l))
          BY <2>4, <4>2, <4>3, <4>4, ReadLineAdds
        <5>4. LineUnder(fs, l, n) \subseteq Mentioned(fs)
          BY <4>2, UnderMentioned
        <5>5. StopsAt(e[k], c[k+1], d)
          BY <4>3, <4>4, <4>6, <5>3, <5>4, StoppedStays
        <5> QED BY <4>1, <5>2, <5>5
      <4> QED BY <4>5, <4>6
    <3>7. 0..Len(lines) \subseteq S
      <4> HIDE DEF S
      <4> QED BY <3>2, <3>5, <3>6, Climb
    <3>8. StopsAt(e[Len(lines)], c[Len(lines)], d)
      BY <3>2, <3>7
    <3> QED BY <3>1, <3>3, <3>4, <3>8
  <2> QED BY <2>3, <2>4
<1> QED BY <1>1, <1>2

\* A walk stopped at d has handed over what the whole walk does up to d.
LEMMA WalkStops ==
  ASSUME NEW fs, IsTree(fs), NEW d
  PROVE  /\ EachDir(fs, {d}).named = UpTo(EachDir(fs, {}).named, d)
         /\ EachDir(fs, {d}).stopped <=> d \in ToSet(EachDir(fs, {}).named)
<1> DEFINE n == MaxDepth + 1
<1>1. n \in Nat
  BY LimitsAssumption
<1>2. PICK w : Levels(fs, {}, w) /\ EachDir(fs, {}) = w[n][<<Root, Begin>>]
  BY EachDirIs
<1>3. PICK v : Levels(fs, {d}, v) /\ EachDir(fs, {d}) = v[n][<<Root, Begin>>]
  BY EachDirIs
<1> DEFINE S == {k \in 0..n : Alike(fs, w[k], v[k], d)}
<1>4. 0 \in S
  <2> SUFFICES ASSUME NEW p \in Paths(fs), NEW st \in WalkStates(fs), ~st.stopped,
                      d \notin ToSet(st.named)
               PROVE  StopsAt(v[0][<<p, st>>], w[0][<<p, st>>], d)
    BY <1>1 DEF Alike
  <2>1. v[0][<<p, st>>] = st /\ w[0][<<p, st>>] = st
    BY <1>2, <1>3 DEF Levels
  <2> QED BY <2>1 DEF StopsAt
<1>5. ASSUME NEW k \in 0..n-1, k \in S PROVE k + 1 \in S
  <2>1. k + 1 \in 1..n /\ (k + 1) - 1 = k /\ k + 1 \in 0..n /\ k \in 0..n
    BY <1>1
  <2>2. w[k] \in Walks(fs) /\ v[k] \in Walks(fs) /\ AddsUnder(fs, w[k], k) /\ Alike(fs, w[k], v[k], d)
    BY <1>2, <1>3, <1>5, <2>1, LevelsAdd DEF Levels
  <2> SUFFICES ASSUME NEW p \in Paths(fs), NEW st \in WalkStates(fs), ~st.stopped,
                      d \notin ToSet(st.named)
               PROVE  StopsAt(v[k+1][<<p, st>>], w[k+1][<<p, st>>], d)
    BY <2>1 DEF Alike
  <2>3. w[k+1][<<p, st>>] = WalkFile(fs, {}, w[k], p, st)
    <3>1. w[k+1] = [x \in Paths(fs) \X WalkStates(fs) |-> WalkFile(fs, {}, w[k], x[1], x[2])]
      BY <1>2, <2>1 DEF Levels
    <3> QED BY <3>1
  <2>4. v[k+1][<<p, st>>] = WalkFile(fs, {d}, v[k], p, st)
    <3>1. v[k+1] = [x \in Paths(fs) \X WalkStates(fs) |-> WalkFile(fs, {d}, v[k], x[1], x[2])]
      BY <1>3, <2>1 DEF Levels
    <3> QED BY <3>1
  <2> QED BY <2>2, <2>3, <2>4, WalkFileAlike
<1>6. 0..n \subseteq S
  <2> HIDE DEF S
  <2> QED BY <1>1, <1>4, <1>5, Climb
<1>7. Alike(fs, w[n], v[n], d)
  BY <1>1, <1>6
<1>8. Root \in Paths(fs) /\ Begin \in WalkStates(fs) /\ ~Begin.stopped /\ d \notin ToSet(Begin.named)
  BY TreeFacts, BeginIsState DEF ToSet
<1>9. StopsAt(EachDir(fs, {d}), EachDir(fs, {}), d)
  BY <1>2, <1>3, <1>7, <1>8 DEF Alike
<1> QED BY <1>9 DEF StopsAt, UpTo

\* The walk is right, whatever files include each other.
LEMMA WalkIsRight ==
  ASSUME NEW fs, IsTree(fs), NEW dirs
  PROVE  WalkRight(fs, dirs)
<1>1. \A d \in dirs : /\ EachDir(fs, {d}).named = UpTo(EachDir(fs, {}).named, d)
                      /\ EachDir(fs, {d}).stopped <=> d \in ToSet(EachDir(fs, {}).named)
  BY WalkStops
<1>2. Fits(fs) => EachDir(Turned(fs), {}).named = EachDir(fs, {}).named
  BY EachDirTurned
<1>3. /\ ToSet(EachDir(fs, {}).named) \subseteq NamedIn(fs, Reached(fs))
      /\ NamedIn(fs, {Root}) \subseteq ToSet(EachDir(fs, {}).named)
      /\ Fits(fs) /\ EachDir(fs, {}).budget > 0 =>
           ToSet(EachDir(fs, {}).named) = NamedIn(fs, Reached(fs))
  BY WalkFinds
<1> QED BY <1>1, <1>2, <1>3 DEF WalkRight

\* The search for the target walks conf files that name all they should: a
\* directory that a file names which ld.so.conf includes, or a file so included,
\* is handed over while the depth, the budget and the room last, those of
\* ld.so.conf itself always, and no other; in an order readdir has no part in;
\* and a search that stops at a directory has seen the same list up to it.
THEOREM ConfFilesRead == Spec => []WalkNamesAll
<1>1. TypeInv => WalkNamesAll
  <2> SUFFICES ASSUME TypeInv PROVE WalkRight(world.fs, Dirs)
    BY DEF WalkNamesAll
  <2>1. IsTree(world.fs)
    BY ConfAssumption DEF TypeInv
  <2> QED  BY <2>1, WalkIsRight
<1> QED  BY <1>1, TypeInit, TypeNext, PTL DEF Spec
=============================================================================
