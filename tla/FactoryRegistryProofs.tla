------------------------- MODULE FactoryRegistryProofs -------------------------
(* The registry of factories and elements, whatever the factories, the     *)
(* elements and the order of the static objects: Factory::init enters      *)
(* itself again for every factory it builds, and all of its activations    *)
(* walk the same list.                                                     *)
EXTENDS FactoryRegistry, SequenceTheorems, FiniteSetTheorems, TLAPS

(* Nothing of Factory::init happens before main. *)
MainNotBegun ==
  pending # {} =>
    stack = <<>> /\ instance = {} /\ ~isInit /\ todo = Lookups

(* What has left the static registrations is registered or has failed. *)
Registered ==
  /\ Factories \subseteq pending \cup factoryMap \cup failed
  /\ Elements \subseteq pending \cup ToSet(elemDescList)

(* The loop of a living init has an element behind it when its init()      *)
(* failed, or when its factory was there and took it.                      *)
Passed(e) ==
  \/ e \in failed
  \/ Owner[e] \in factoryMap /\ e \in elemDescGetFuncPtrMap[Owner[e]]

(* Where an activation of init is in the list. *)
InPlace(a) ==
  /\ a.at <= Len(elemDescList) + 1
  /\ a.step = "register" => a.at <= Len(elemDescList)
  /\ \A i \in 1..(a.at - 1) : Passed(elemDescList[i])

Activations == \A n \in 1..Len(stack) : InPlace(stack[n])

(* isInit is set by the first activation that ends; by then each element   *)
(* has been passed, though outer activations are still in the middle of    *)
(* the list.                                                               *)
InitDone == isInit => \A e \in Elements : Passed(e)

(* A factory object makes init run, and init has ended when no activation  *)
(* is left.                                                                *)
InitRuns == stack = <<>> /\ instance # {} => isInit

(* Activations are no more than factory objects. *)
ShallowNesting == Len(stack) <= Cardinality(instance)

OwnOnly == \A f \in Factories : \A e \in elemDescGetFuncPtrMap[f] : Owner[e] = f

(* What a lookup of main has found. *)
LookedUp ==
  \A f \in ToSet(Lookups) : f \in ToSet(todo) \/ f \in found \/ f \notin factoryMap

IInv ==
  /\ TypeOK /\ MainNotBegun /\ Registered /\ Activations /\ InitDone /\ InitRuns
  /\ ShallowNesting /\ OwnOnly /\ LookedUp /\ NullOnlyAfterFailure

-----------------------------------------------------------------------------
(* The stack when an activation is pushed, replaced and popped.            *)
LEMMA Pushed ==
  ASSUME NEW s \in Seq(Frame), NEW a \in Frame
  PROVE  /\ Append(s, a) \in Seq(Frame) /\ Append(s, a) # <<>>
         /\ Len(Append(s, a)) = Len(s) + 1 /\ Len(s) \in Nat
         /\ \A n \in 1..Len(s) : Append(s, a)[n] = s[n]
         /\ Append(s, a)[Len(s) + 1] = a
<1>1. Append(s, a) \in Seq(Frame) /\ Append(s, a) # <<>>
  BY AppendProperties
<1> QED
  BY <1>1, AppendProperties, LenProperties

LEMMA Popped ==
  ASSUME NEW s \in Seq(Frame), s # <<>>
  PROVE  /\ Front(s) \in Seq(Frame)
         /\ Len(s) \in Nat \ {0} /\ Len(Front(s)) = Len(s) - 1
         /\ \A n \in 1..(Len(s) - 1) : Front(s)[n] = s[n]
         /\ Last(s) \in Frame /\ Last(s) = s[Len(s)]
<1>1. Len(s) \in Nat \ {0}
  BY EmptySeq, LenProperties
<1>2. s[Len(s)] \in Frame
  BY <1>1, ElementOfSeq
<1>3. /\ Front(s) \in Seq(Frame) /\ Len(Front(s)) = Len(s) - 1
      /\ \A n \in 1..(Len(s) - 1) : Front(s)[n] = s[n]
  <2> DEFINE m == Len(s) - 1
  <2>1. m \in Nat /\ m - 1 + 1 = m /\ (1 <= m \/ m = 0)
    <3>1. \A k \in Nat \ {0} : k - 1 \in Nat /\ (k - 1) - 1 + 1 = k - 1 /\ (1 <= k - 1 \/ k - 1 = 0)
      OBVIOUS
    <3> QED
      BY <1>1, <3>1
  <2>2. \A i \in 1..m : s[i] \in Frame
    BY <1>1, ElementOfSeq
  <2> HIDE DEF m
  <2>3. /\ SubSeq(s, 1, m) \in Seq(Frame)
        /\ Len(SubSeq(s, 1, m)) = IF 1 <= m THEN m - 1 + 1 ELSE 0
        /\ \A i \in 1..(m - 1 + 1) : SubSeq(s, 1, m)[i] = s[1 + i - 1]
    BY <2>1, <2>2, SubSeqProperties
  <2>4. Len(SubSeq(s, 1, m)) = m
    BY <2>1, <2>3
  <2>5. \A i \in 1..m : SubSeq(s, 1, m)[i] = s[i]
    <3> TAKE i \in 1..m
    <3>1. 1 + i - 1 = i
      OBVIOUS
    <3> QED
      BY <2>1, <2>3, <3>1
  <2> QED
    BY <2>3, <2>4, <2>5 DEF Front, m
<1> QED
  BY <1>1, <1>2, <1>3 DEF Last

LEMMA Replaced ==
  ASSUME NEW s \in Seq(Frame), s # <<>>, NEW a \in Frame
  PROVE  /\ Append(Front(s), a) \in Seq(Frame) /\ Append(Front(s), a) # <<>>
         /\ Len(Append(Front(s), a)) = Len(s) /\ Len(s) \in Nat \ {0}
         /\ \A n \in 1..(Len(s) - 1) : Append(Front(s), a)[n] = s[n]
         /\ Append(Front(s), a)[Len(s)] = a
<1>1. /\ Front(s) \in Seq(Frame) /\ Len(Front(s)) = Len(s) - 1 /\ Len(s) \in Nat \ {0}
      /\ \A n \in 1..(Len(s) - 1) : Front(s)[n] = s[n]
  BY Popped
<1>2. /\ Append(Front(s), a) \in Seq(Frame) /\ Append(Front(s), a) # <<>>
      /\ Len(Append(Front(s), a)) = (Len(s) - 1) + 1
      /\ \A n \in 1..(Len(s) - 1) : Append(Front(s), a)[n] = Front(s)[n]
      /\ Append(Front(s), a)[(Len(s) - 1) + 1] = a
  BY <1>1, Pushed
<1> QED
  BY <1>1, <1>2

(* The elements and numbers that the invariants speak of. *)
LEMMA Values ==
  ASSUME TypeOK
  PROVE  /\ Len(elemDescList) \in Nat /\ Len(stack) \in Nat
         /\ \A i \in 1..Len(elemDescList) :
              elemDescList[i] \in Elements /\ Owner[elemDescList[i]] \in Factories
         /\ \A n \in 1..Len(stack) : stack[n] \in Frame
         /\ IsFiniteSet(instance) /\ Cardinality(instance) \in Nat
         /\ Cardinality(instance) <= Cardinality(Factories)
<1>1. Len(elemDescList) \in Nat /\ Len(stack) \in Nat
  BY LenProperties DEF TypeOK
<1>2. \A n \in 1..Len(stack) : stack[n] \in Frame
  BY ElementOfSeq DEF TypeOK
<1>3. \A i \in 1..Len(elemDescList) : elemDescList[i] \in Elements
  BY ElementOfSeq DEF TypeOK
<1>4. \A e \in Elements : Owner[e] \in Factories
  BY RegistryAssumption
<1>5. IsFiniteSet(Factories) /\ instance \subseteq Factories
  BY RegistryAssumption DEF TypeOK
<1>6. IsFiniteSet(instance) /\ Cardinality(instance) <= Cardinality(Factories)
  BY <1>5, FS_Subset
<1>7. Cardinality(instance) \in Nat
  BY <1>6, FS_CardinalityType
<1> QED
  BY <1>1, <1>2, <1>3, <1>4, <1>6, <1>7

(* Main has been given a factory once its lookups are over, and isInit is  *)
(* set then.                                                               *)
LEMMA AfterLookups ==
  ASSUME IInv, pending = {}, stack = <<>>, todo = <<>>
  PROVE  /\ isInit /\ \A e \in Elements : Passed(e)
         /\ ToSet(Lookups) \subseteq found
<1>1. ToSet(todo) = {}
  BY DEF ToSet
<1>2. ToSet(Lookups) \subseteq Factories
  BY RegistryAssumption, ElementOfSeq, LenProperties DEF ToSet
<1>3. PICK g \in ToSet(Lookups) : g \notin MayFail
  BY RegistryAssumption
<1>4. g \in factoryMap
  BY <1>2, <1>3 DEF IInv, Registered, TypeOK
<1>5. g \in found
  BY <1>1, <1>4 DEF IInv, LookedUp
<1>6. isInit
  BY <1>5 DEF IInv, TypeOK, InitRuns
<1>7. \A e \in Elements : Passed(e)
  BY <1>6 DEF IInv, InitDone
<1>8. \A f \in ToSet(Lookups) : f \in found
  <2> TAKE f \in ToSet(Lookups)
  <2>1. PICK e \in Elements \ MayFail : Owner[e] = f
    BY RegistryAssumption
  <2>2. e \notin failed
    BY <2>1 DEF IInv, TypeOK
  <2>3. f \in factoryMap
    BY <1>7, <2>1, <2>2 DEF Passed
  <2> QED
    BY <1>1, <2>3 DEF IInv, LookedUp
<1> QED
  BY <1>6, <1>7, <1>8

-----------------------------------------------------------------------------
LEMMA InitIInv == Init => IInv
<1> SUFFICES ASSUME Init
             PROVE  IInv
  OBVIOUS
<1>1. /\ pending = Factories \cup Elements /\ factoryMap = {} /\ elemDescList = <<>>
      /\ instance = {} /\ isInit = FALSE /\ stack = <<>>
      /\ elemDescGetFuncPtrMap = [f \in Factories |-> {}]
      /\ todo = Lookups /\ found = {} /\ wanted = Wanted /\ fault = "none" /\ failed = {}
  BY DEF Init
<1>2. Cardinality({}) = 0 /\ Len(<<>>) = 0 /\ Cardinality(Factories) \in Nat
  BY RegistryAssumption, FS_EmptySet, FS_CardinalityType, EmptySeq
<1>3. TypeOK
  <2>1. <<>> \in Seq(Elements) /\ <<>> \in Seq(Frame)
    BY EmptySeq
  <2>2. elemDescGetFuncPtrMap \in [Factories -> SUBSET Elements]
    BY <1>1
  <2>3. Len(stack) <= Cardinality(Factories)
    BY <1>1, <1>2
  <2> QED
    BY <1>1, <2>1, <2>2, <2>3, RegistryAssumption DEF TypeOK
<1>4. Activations /\ ShallowNesting
  BY <1>1, <1>2 DEF Activations, ShallowNesting
<1>5. OwnOnly
  BY <1>1 DEF OwnOnly
<1> QED
  BY <1>1, <1>3, <1>4, <1>5
     DEF IInv, MainNotBegun, Registered, InitDone, InitRuns, LookedUp, NullOnlyAfterFailure

(* What a step keeps that only adds to what is registered and has failed.  *)
Grows ==
  /\ elemDescList' = elemDescList /\ factoryMap \subseteq factoryMap'
  /\ failed \subseteq failed'
  /\ \A f \in Factories : elemDescGetFuncPtrMap[f] \subseteq elemDescGetFuncPtrMap'[f]

LEMMA PassedKept ==
  ASSUME Grows, NEW e \in Elements, Passed(e)
  PROVE  Passed(e)'
<1>1. Owner[e] \in Factories
  BY RegistryAssumption
<1> QED
  BY <1>1 DEF Grows, Passed

LEMMA InPlaceKept ==
  ASSUME TypeOK, Grows, NEW a \in Frame, InPlace(a)
  PROVE  InPlace(a)'
<1>1. a.at \in Nat \ {0} /\ a.at <= Len(elemDescList) + 1 /\ Len(elemDescList) \in Nat
  BY Values DEF Frame, InPlace
<1>2. \A i \in 1..(a.at - 1) : elemDescList[i] \in Elements /\ Passed(elemDescList[i])
  BY <1>1, Values DEF InPlace
<1>3. elemDescList' = elemDescList
  BY DEF Grows
<1>4. ASSUME NEW i \in 1..(a.at - 1)
      PROVE  Passed(elemDescList[i])'
  <2> DEFINE e == elemDescList[i]
  <2>1. e \in Elements /\ Passed(e) /\ Owner[e] \in Factories
    BY <1>2, RegistryAssumption
  <2> QED
    BY <1>3, <2>1 DEF Grows, Passed
<1>5. a.step = "register" =>
        a.at <= Len(elemDescList)
  BY DEF InPlace, Grows
<1> QED
  BY <1>1, <1>3, <1>4, <1>5 DEF InPlace

-----------------------------------------------------------------------------
(* A factory object that is built enters init once more, unless init has   *)
(* ended: activations and objects grow together.                           *)
LEMMA AfterGetInstance ==
  ASSUME TypeOK, NEW f \in factoryMap, NEW s \in Seq(Frame), getInstance(f, s),
         Len(s) <= Cardinality(instance)
  PROVE  /\ instance' = instance \cup {f} /\ stack' \in Seq(Frame)
         /\ Len(stack') <= Cardinality(instance')
         /\ Len(stack') <= Cardinality(Factories)
         /\ \/ stack' = s /\ (f \in instance \/ isInit)
            \/ stack' = Append(s, NewFrame) /\ stack' # <<>>
<1>1. NewFrame \in Frame
  BY DEF NewFrame, Frame
<1>2. instance' = instance \cup {f}
  BY DEF getInstance
<1>3. /\ IsFiniteSet(instance) /\ Cardinality(instance) \in Nat /\ Len(s) \in Nat
      /\ Cardinality(instance) <= Cardinality(instance')
      /\ f \notin instance => Cardinality(instance') = Cardinality(instance) + 1
  <2>1. IsFiniteSet(instance) /\ Cardinality(instance) \in Nat /\ Len(s) \in Nat
    BY Values, LenProperties
  <2>2. Cardinality(instance') =
          IF f \in instance THEN Cardinality(instance) ELSE Cardinality(instance) + 1
    BY <1>2, <2>1, FS_AddElement
  <2> QED
    BY <2>1, <2>2
<1>4. Cardinality(instance') <= Cardinality(Factories) /\ Cardinality(instance') \in Nat
      /\ Cardinality(Factories) \in Nat
  <2>1. instance' \subseteq Factories /\ IsFiniteSet(Factories)
    BY <1>2, RegistryAssumption DEF TypeOK
  <2>2. IsFiniteSet(instance') /\ Cardinality(instance') <= Cardinality(Factories)
    BY <2>1, FS_Subset
  <2> QED
    BY <2>1, <2>2, FS_CardinalityType
<1>5. CASE f \in instance \/ isInit
  <2>1. stack' = s
    BY <1>5 DEF getInstance
  <2> QED
    BY <1>2, <1>3, <1>4, <1>5, <2>1
<1>6. CASE ~(f \in instance \/ isInit)
  <2>1. stack' = Append(s, NewFrame)
    BY <1>6 DEF getInstance
  <2>2. stack' \in Seq(Frame) /\ stack' # <<>> /\ Len(stack') = Len(s) + 1
    BY <1>1, <2>1, Pushed
  <2> QED
    BY <1>2, <1>3, <1>4, <1>6, <2>1, <2>2
<1> QED
  BY <1>5, <1>6

(* Before main. *)
LEMMA RegisterFactoryStep ==
  ASSUME IInv, NEW f \in Factories, registerFactory(f)
  PROVE  IInv'
<1>1. /\ f \in pending /\ pending' = pending \ {f}
      /\ UNCHANGED <<elemDescList, instance, isInit, stack, elemDescGetFuncPtrMap,
                     todo, found, wanted, fault>>
      /\ \/ factoryMap' = factoryMap \cup {f} /\ failed' = failed
         \/ f \in MayFail /\ failed' = failed \cup {f} /\ factoryMap' = factoryMap
  BY DEF registerFactory, mainVars
<1>2. /\ TypeOK /\ stack = <<>> /\ instance = {} /\ ~isInit /\ todo = Lookups
      /\ Registered /\ OwnOnly /\ ShallowNesting /\ NullOnlyAfterFailure
  BY <1>1 DEF IInv, MainNotBegun
<1>3. TypeOK'
  BY <1>1, <1>2 DEF TypeOK
<1>4. Registered' /\ MainNotBegun' /\ InitDone' /\ InitRuns'
  BY <1>1, <1>2, RegistryAssumption DEF Registered, MainNotBegun, InitDone, InitRuns
<1>5. Activations' /\ ShallowNesting' /\ OwnOnly'
  BY <1>1, <1>2, EmptySeq DEF Activations, ShallowNesting, OwnOnly
<1>6. LookedUp' /\ NullOnlyAfterFailure'
  BY <1>1, <1>2 DEF LookedUp, NullOnlyAfterFailure
<1> QED
  BY <1>3, <1>4, <1>5, <1>6 DEF IInv

LEMMA AddElementStep ==
  ASSUME IInv, NEW e \in Elements, addElementDesc(e)
  PROVE  IInv'
<1>1. /\ e \in pending /\ pending' = pending \ {e}
      /\ elemDescList' = Append(elemDescList, e)
      /\ UNCHANGED <<factoryMap, instance, isInit, stack, elemDescGetFuncPtrMap,
                     todo, found, wanted, fault, failed>>
  BY DEF addElementDesc, mainVars
<1>2. /\ TypeOK /\ stack = <<>> /\ instance = {} /\ ~isInit /\ todo = Lookups
      /\ Registered /\ OwnOnly /\ ShallowNesting /\ NullOnlyAfterFailure /\ LookedUp
  BY <1>1 DEF IInv, MainNotBegun
<1>3. /\ elemDescList' \in Seq(Elements) /\ e \notin Factories
      /\ ToSet(elemDescList') = ToSet(elemDescList) \cup {e}
  <2>1. /\ elemDescList' \in Seq(Elements)
        /\ Len(elemDescList) \in Nat /\ DOMAIN elemDescList = 1..Len(elemDescList)
        /\ DOMAIN elemDescList' = 1..(Len(elemDescList) + 1)
        /\ \A i \in 1..Len(elemDescList) : elemDescList'[i] = elemDescList[i]
        /\ elemDescList'[Len(elemDescList) + 1] = e
    BY <1>1, <1>2, AppendProperties, LenProperties DEF TypeOK
  <2>2. ToSet(elemDescList') = ToSet(elemDescList) \cup {e}
    BY <2>1 DEF ToSet
  <2>3. e \notin Factories
    BY RegistryAssumption
  <2> QED
    BY <2>1, <2>2, <2>3
<1>4. TypeOK'
  BY <1>1, <1>2, <1>3 DEF TypeOK
<1>5. Registered' /\ MainNotBegun' /\ InitDone' /\ InitRuns'
  BY <1>1, <1>2, <1>3 DEF Registered, MainNotBegun, InitDone, InitRuns
<1>6. Activations' /\ ShallowNesting' /\ OwnOnly'
  BY <1>1, <1>2, EmptySeq DEF Activations, ShallowNesting, OwnOnly
<1>7. LookedUp' /\ NullOnlyAfterFailure'
  BY <1>1, <1>2 DEF LookedUp, NullOnlyAfterFailure
<1> QED
  BY <1>4, <1>5, <1>6, <1>7 DEF IInv

(* main's lookup. *)
LEMMA LookupStep ==
  ASSUME IInv, getFactoryInstanceByName
  PROVE  IInv'
<1> DEFINE f == Head(todo)
<1>1. /\ pending = {} /\ stack = <<>> /\ todo # <<>> /\ todo' = Tail(todo)
      /\ UNCHANGED <<pending, factoryMap, elemDescList, isInit, elemDescGetFuncPtrMap,
                     wanted, fault, failed>>
  BY DEF getFactoryInstanceByName
<1>2. /\ TypeOK /\ Registered /\ OwnOnly /\ ShallowNesting /\ NullOnlyAfterFailure
      /\ LookedUp /\ InitDone /\ InitRuns
  BY DEF IInv
<1>3. /\ f \in Factories /\ todo' \in Seq(Factories)
      /\ ToSet(todo) = {f} \cup ToSet(todo')
  <2>1. /\ todo' \in Seq(Factories) /\ f = todo[1] /\ Len(todo) \in Nat \ {0}
        /\ DOMAIN todo = 1..Len(todo) /\ DOMAIN todo' = 1..(Len(todo) - 1)
        /\ \A i \in 1..(Len(todo) - 1) : todo'[i] = todo[i + 1]
    BY <1>1, <1>2, HeadTailProperties, LenProperties, EmptySeq DEF TypeOK
  <2>2. f \in Factories
    BY <1>2, <2>1, ElementOfSeq DEF TypeOK
  <2>3. \A i \in DOMAIN todo : i = 1 \/ (i - 1 \in DOMAIN todo' /\ todo[i] = todo'[i - 1])
    BY <2>1
  <2>4. \A i \in DOMAIN todo' : i + 1 \in DOMAIN todo /\ todo'[i] = todo[i + 1]
    BY <2>1
  <2>5. 1 \in DOMAIN todo
    BY <2>1
  <2>6. ToSet(todo) \subseteq {f} \cup ToSet(todo')
    BY <2>1, <2>3 DEF ToSet
  <2>7. {f} \cup ToSet(todo') \subseteq ToSet(todo)
    BY <2>1, <2>4, <2>5 DEF ToSet
  <2> QED
    BY <2>1, <2>2, <2>6, <2>7
<1>4. CASE f \notin factoryMap
  <2>1. UNCHANGED <<instance, stack, found>>
    BY <1>4 DEF getFactoryInstanceByName
  <2>2. TypeOK'
    BY <1>1, <1>2, <1>3, <2>1 DEF TypeOK
  <2>3. LookedUp'
    BY <1>1, <1>2, <1>3, <1>4, <2>1 DEF LookedUp
  <2>4. /\ MainNotBegun' /\ Registered' /\ InitDone' /\ InitRuns' /\ ShallowNesting'
        /\ OwnOnly' /\ NullOnlyAfterFailure'
    BY <1>1, <1>2, <2>1 DEF MainNotBegun, Registered, InitDone, InitRuns, ShallowNesting,
       OwnOnly, NullOnlyAfterFailure, Passed
  <2>5. Activations'
    BY <1>1, <2>1, EmptySeq DEF Activations
  <2> QED
    BY <2>2, <2>3, <2>4, <2>5 DEF IInv
<1>5. CASE f \in factoryMap
  <2>1. getInstance(f, <<>>) /\ found' = found \cup {f}
    BY <1>5 DEF getFactoryInstanceByName
  <2> HIDE DEF f
  <2>2. <<>> \in Seq(Frame) /\ Len(<<>>) = 0 /\ Len(<<>>) <= Cardinality(instance)
    BY <1>2, Values, EmptySeq
  <2>3. /\ instance' = instance \cup {f} /\ stack' \in Seq(Frame)
        /\ Len(stack') <= Cardinality(instance')
        /\ Len(stack') <= Cardinality(Factories)
        /\ \/ stack' = <<>> /\ (f \in instance \/ isInit)
           \/ stack' = Append(<<>>, NewFrame) /\ stack' # <<>>
    BY <1>2, <1>5, <2>1, <2>2, AfterGetInstance
  <2>4. TypeOK'
    BY <1>1, <1>2, <1>3, <1>5, <2>1, <2>3 DEF TypeOK
  <2>5. LookedUp'
    BY <1>1, <1>2, <1>3, <2>1 DEF LookedUp
  <2>6. InitRuns'
    BY <1>1, <1>2, <2>3 DEF InitRuns
  <2>7. ShallowNesting'
    BY <2>3 DEF ShallowNesting
  <2>8. Activations'
    <3>1. CASE stack' = <<>>
      BY <3>1, EmptySeq DEF Activations
    <3>2. CASE stack' = Append(<<>>, NewFrame)
      <4>1. stack' = <<NewFrame>> /\ Len(stack') = 1 /\ stack'[1] = NewFrame
        BY <3>2
      <4>2. NewFrame.at = 1 /\ NewFrame.step = "look" /\ Len(elemDescList) \in Nat
        BY <1>2, Values DEF NewFrame
      <4>3. InPlace(stack[1])'
        BY <1>1, <4>1, <4>2 DEF InPlace
      <4> QED
        BY <4>1, <4>3 DEF Activations
    <3> QED
      BY <2>3, <3>1, <3>2
  <2>9. MainNotBegun' /\ Registered' /\ InitDone' /\ OwnOnly' /\ NullOnlyAfterFailure'
    BY <1>1, <1>2 DEF MainNotBegun, Registered, InitDone, OwnOnly, NullOnlyAfterFailure, Passed
  <2> QED
    BY <2>4, <2>5, <2>6, <2>7, <2>8, <2>9 DEF IInv
<1> QED
  BY <1>4, <1>5

-----------------------------------------------------------------------------
(* What the innermost activation works on. *)
LEMMA TopInPlace ==
  ASSUME IInv, Running
  PROVE  /\ TypeOK /\ stack # <<>> /\ stack \in Seq(Frame) /\ pending = {} /\ instance # {}
         /\ Top \in Frame /\ Top = stack[Len(stack)] /\ Len(stack) \in Nat \ {0}
         /\ InPlace(Top) /\ Top.at \in Nat \ {0}
         /\ Top.at <= Len(elemDescList) => Here \in Elements /\ Owner[Here] \in Factories
<1>1. TypeOK /\ stack # <<>> /\ stack \in Seq(Frame) /\ pending = {}
  BY DEF Running, IInv, MainNotBegun, TypeOK
<1>2. Top \in Frame /\ Top = stack[Len(stack)] /\ Len(stack) \in Nat \ {0}
  BY <1>1, Popped DEF Top
<1>3. InPlace(Top)
  <2>1. Len(stack) \in 1..Len(stack)
    BY <1>2
  <2> QED
    BY <1>2, <2>1 DEF IInv, Activations
<1>4. Top.at \in Nat \ {0}
  BY <1>2 DEF Frame
<1>5. Top.at <= Len(elemDescList) => Here \in Elements /\ Owner[Here] \in Factories
  BY <1>1, <1>4, Values DEF Here
<1>6. instance # {}
  <2>1. Len(stack) <= Cardinality(instance)
    BY DEF IInv, ShallowNesting
  <2>2. instance = {} => Cardinality(instance) = 0
    BY FS_EmptySet
  <2> QED
    BY <1>2, <2>1, <2>2
<1> QED
  BY <1>1, <1>2, <1>3, <1>4, <1>5, <1>6

(* The activations after a step that replaces the innermost one, and after *)
(* one that pushes another on it.                                          *)
LEMMA ActivationsReplaced ==
  ASSUME TypeOK, Activations, Grows, stack # <<>>, NEW a \in Frame, InPlace(a)',
         stack' = Append(Front(stack), a)
  PROVE  Activations'
<1>1. /\ Len(stack') = Len(stack) /\ Len(stack) \in Nat \ {0}
      /\ \A n \in 1..(Len(stack) - 1) : stack'[n] = stack[n]
      /\ stack'[Len(stack)] = a
  BY Replaced DEF TypeOK
<1>2. SUFFICES ASSUME NEW n \in 1..Len(stack)
               PROVE  InPlace(stack[n])'
  BY <1>1 DEF Activations
<1>3. CASE n = Len(stack)
  <2>1. stack'[n] = a
    BY <1>1, <1>3
  <2> QED
    BY <2>1 DEF InPlace
<1>4. CASE n # Len(stack)
  <2>1. PICK b \in Frame : b = stack[n]
    BY Values
  <2>2. stack'[n] = b
    BY <1>1, <1>4, <2>1
  <2>3. InPlace(b)
    BY <2>1 DEF Activations
  <2>4. InPlace(b)'
    BY <2>3, InPlaceKept
  <2> QED
    BY <2>2, <2>4 DEF InPlace
<1> QED
  BY <1>3, <1>4

LEMMA ActivationsPushed ==
  ASSUME TypeOK, NEW s \in Seq(Frame), NEW a \in Frame, InPlace(a)',
         stack' = Append(s, a), \A n \in 1..Len(s) : InPlace(s[n])'
  PROVE  Activations'
<1>1. /\ Len(stack') = Len(s) + 1 /\ Len(s) \in Nat
      /\ \A n \in 1..Len(s) : stack'[n] = s[n]
      /\ stack'[Len(s) + 1] = a
  BY Pushed
<1>2. SUFFICES ASSUME NEW n \in 1..(Len(s) + 1)
               PROVE  InPlace(stack[n])'
  BY <1>1 DEF Activations
<1>3. CASE n = Len(s) + 1
  <2>1. stack'[n] = a
    BY <1>1, <1>3
  <2> QED
    BY <2>1 DEF InPlace
<1>4. CASE n # Len(s) + 1
  <2>1. n \in 1..Len(s)
    BY <1>1, <1>4
  <2>2. stack'[n] = s[n]
    BY <1>1, <2>1
  <2>3. InPlace(s[n])'
    BY <2>1
  <2> QED
    BY <2>2, <2>3 DEF InPlace
<1> QED
  BY <1>3, <1>4

-----------------------------------------------------------------------------
(* The next element of the list, or none is left. *)
LEMMA LookUpOwnerStep ==
  ASSUME IInv, LookUpOwner
  PROVE  IInv'
<1>1. /\ TypeOK /\ stack # <<>> /\ stack \in Seq(Frame) /\ pending = {} /\ instance # {}
      /\ Top \in Frame /\ Top = stack[Len(stack)] /\ Len(stack) \in Nat \ {0}
      /\ InPlace(Top) /\ Top.at \in Nat \ {0}
      /\ Top.step = "look" /\ Top.at <= Len(elemDescList)
      /\ Here \in Elements /\ Owner[Here] \in Factories
  BY TopInPlace DEF LookUpOwner
<1>2. /\ UNCHANGED <<pending, factoryMap, elemDescList, isInit, elemDescGetFuncPtrMap,
                     todo, found, wanted, fault, failed>>
  BY DEF LookUpOwner, mainVars
<1>3. /\ Registered /\ OwnOnly /\ ShallowNesting /\ NullOnlyAfterFailure /\ LookedUp
      /\ InitDone /\ Activations
  BY DEF IInv
<1>4. Registered' /\ MainNotBegun' /\ InitDone' /\ OwnOnly'
  BY <1>1, <1>2, <1>3 DEF Registered, MainNotBegun, InitDone, OwnOnly, Passed
<1>5. Grows
  BY <1>2 DEF Grows
<1>6. PICK r \in Frame : r = [Top EXCEPT !.step = "register"]
  <2>1. [Top EXCEPT !.step = "register"] \in Frame
    BY <1>1 DEF Frame
  <2> QED
    BY <2>1
<1>7. r.at = Top.at /\ r.step = "register"
  BY <1>1, <1>6 DEF Frame
<1>8. InPlace(r)
  BY <1>1, <1>7 DEF InPlace
<1>9. PICK s \in Seq(Frame) : s = Append(Front(stack), r)
  BY <1>1, Replaced
<1>10. /\ Len(s) = Len(stack) /\ s # <<>> /\ s = Registering
       /\ \A n \in 1..(Len(stack) - 1) : s[n] = stack[n]
       /\ s[Len(stack)] = r
  BY <1>1, <1>6, <1>9, Replaced DEF Registering
<1>11. \A n \in 1..Len(s) : InPlace(s[n])'
  <2> TAKE n \in 1..Len(s)
  <2>1. PICK b \in Frame : b = s[n]
    BY ElementOfSeq
  <2>2. InPlace(b)
    <3>1. CASE n = Len(stack)
      BY <1>8, <1>10, <2>1, <3>1
    <3>2. CASE n # Len(stack)
      <4>1. n \in 1..Len(stack) /\ b = stack[n]
        BY <1>1, <1>10, <2>1, <3>2
      <4> QED
        BY <1>3, <4>1 DEF Activations
    <3> QED
      BY <3>1, <3>2
  <2>3. InPlace(b)'
    BY <1>1, <1>5, <2>2, InPlaceKept
  <2> QED
    BY <2>1, <2>3
<1>12. NullOnlyAfterFailure' /\ LookedUp'
  BY <1>2, <1>3 DEF NullOnlyAfterFailure, LookedUp
<1>13. CASE Owner[Here] \notin factoryMap
  <2>1. instance' = instance /\ stack' = s
    BY <1>10, <1>13 DEF LookUpOwner
  <2>2. TypeOK'
    BY <1>1, <1>2, <1>10, <2>1 DEF TypeOK
  <2>3. Activations' /\ InitRuns' /\ ShallowNesting'
    BY <1>1, <1>3, <1>10, <1>11, <2>1 DEF Activations, InitRuns, ShallowNesting
  <2> QED
    BY <1>4, <1>12, <2>2, <2>3 DEF IInv
<1>14. CASE Owner[Here] \in factoryMap
  <2>1. PICK f \in factoryMap : f = Owner[Here]
    BY <1>14
  <2>2. getInstance(f, s)
    BY <1>14, <1>10, <2>1 DEF LookUpOwner
  <2>3. /\ instance' = instance \cup {f} /\ stack' \in Seq(Frame)
        /\ Len(stack') <= Cardinality(instance')
        /\ Len(stack') <= Cardinality(Factories)
        /\ stack' = s \/ stack' = Append(s, NewFrame)
        /\ stack' # <<>>
    <3>1. Len(s) <= Cardinality(instance)
      BY <1>3, <1>10 DEF ShallowNesting
    <3> QED
      BY <1>1, <1>10, <2>2, <3>1, AfterGetInstance
  <2>4. TypeOK'
    BY <1>1, <1>2, <2>3 DEF TypeOK
  <2>5. Activations'
    <3>1. CASE stack' = s
      BY <1>11, <3>1 DEF Activations
    <3>2. CASE stack' = Append(s, NewFrame)
      <4>1. NewFrame \in Frame /\ NewFrame.at = 1 /\ NewFrame.step = "look"
            /\ Len(elemDescList) \in Nat
        BY <1>1, Values DEF NewFrame, Frame
      <4>2. InPlace(NewFrame)'
        BY <1>2, <4>1 DEF InPlace
      <4> QED
        BY <1>1, <1>11, <3>2, <4>1, <4>2, ActivationsPushed
    <3> QED
      BY <2>3, <3>1, <3>2
  <2>6. InitRuns' /\ ShallowNesting'
    BY <1>2, <1>3, <2>3 DEF InitRuns, ShallowNesting
  <2> QED
    BY <1>4, <1>12, <2>4, <2>5, <2>6 DEF IInv
<1> QED
  BY <1>13, <1>14

(* An element without a factory, whose init() succeeds, ends the program.  *)
LEMMA NobodyTakesStep ==
  ASSUME IInv, registerElement, NobodyTakesElement
  PROVE  IInv'
<1>1. /\ TypeOK /\ stack # <<>> /\ pending = {}
      /\ Top \in Frame /\ InPlace(Top) /\ Top.at \in Nat \ {0} /\ Top.step = "register"
  BY TopInPlace DEF registerElement
<1>2. Top.at <= Len(elemDescList)
  BY <1>1 DEF InPlace
<1>3. Here \in Elements /\ Owner[Here] \in Factories
  BY <1>2, TopInPlace DEF registerElement, Here
<1>4. /\ UNCHANGED <<pending, factoryMap, elemDescList, instance, isInit, stack,
                     elemDescGetFuncPtrMap, todo, found, wanted, failed>>
      /\ fault' = "nullFactory" /\ Owner[Here] \notin factoryMap
  BY DEF registerElement, NobodyTakesElement, mainVars
<1>5. Owner[Here] \in failed
  BY <1>1, <1>3, <1>4 DEF IInv, Registered
<1>6. NullOnlyAfterFailure'
  BY <1>4, <1>5 DEF NullOnlyAfterFailure
<1>7. TypeOK'
  BY <1>1, <1>4 DEF TypeOK
<1> QED
  BY <1>4, <1>6, <1>7
     DEF IInv, MainNotBegun, Registered, Activations, InPlace, Passed, InitDone, InitRuns,
         ShallowNesting, OwnOnly, LookedUp

(* Its factory takes the element, or its init() fails. *)
LEMMA RegisterElementStep ==
  ASSUME IInv, registerElement
  PROVE  IInv'
<1> SUFFICES ASSUME ElementFails \/ ElementTaken, stack' = NextElement
             PROVE  IInv'
  BY NobodyTakesStep DEF registerElement
<1>1. /\ TypeOK /\ stack # <<>> /\ stack \in Seq(Frame) /\ pending = {} /\ instance # {}
      /\ Top \in Frame /\ Top = stack[Len(stack)] /\ Len(stack) \in Nat \ {0}
      /\ InPlace(Top) /\ Top.at \in Nat \ {0} /\ Top.step = "register"
  BY TopInPlace DEF registerElement
<1>2. Top.at <= Len(elemDescList)
  BY <1>1 DEF InPlace
<1>3. PICK e \in Elements : e = Here /\ Owner[e] \in Factories
  BY <1>2, TopInPlace DEF registerElement, Here
<1>4. /\ UNCHANGED <<pending, factoryMap, elemDescList, instance, isInit,
                     todo, found, wanted, fault>>
      /\ stack' = NextElement
      /\ \/ /\ Owner[e] \in factoryMap
            /\ elemDescGetFuncPtrMap' =
                 [elemDescGetFuncPtrMap EXCEPT ![Owner[e]] = @ \cup {e}]
            /\ failed' = failed
         \/ /\ e \in MayFail /\ failed' = failed \cup {e}
            /\ UNCHANGED elemDescGetFuncPtrMap
  BY <1>3 DEF registerElement, ElementFails, ElementTaken, mainVars
<1>5. elemDescGetFuncPtrMap \in [Factories -> SUBSET Elements]
  BY <1>1 DEF TypeOK
<1>6. Grows /\ Passed(e)'
  <2>1. CASE /\ Owner[e] \in factoryMap
             /\ elemDescGetFuncPtrMap' =
                  [elemDescGetFuncPtrMap EXCEPT ![Owner[e]] = @ \cup {e}]
             /\ failed' = failed
    BY <1>3, <1>4, <1>5, <2>1 DEF Grows, Passed
  <2>2. CASE /\ e \in MayFail /\ failed' = failed \cup {e}
             /\ UNCHANGED elemDescGetFuncPtrMap
    BY <1>3, <1>4, <1>5, <2>2 DEF Grows, Passed
  <2> QED
    BY <1>4, <2>1, <2>2
<1>7. PICK a \in Frame : a = [at |-> Top.at + 1, step |-> "look"]
  <2>1. Top.at + 1 \in Nat \ {0}
    BY <1>1
  <2> QED
    BY <2>1 DEF Frame
<1>8. stack' = Append(Front(stack), a) /\ a.at = Top.at + 1 /\ a.step = "look"
  BY <1>4, <1>7 DEF NextElement
<1>9. InPlace(a)'
  <2>1. Len(elemDescList) \in Nat /\ elemDescList' = elemDescList
    BY <1>1, <1>4, Values
  <2>2. PICK k \in Nat \ {0} : k = Top.at
    BY <1>1
  <2>3. a.at = k + 1 /\ a.at <= Len(elemDescList') + 1 /\ a.at - 1 = k
    BY <1>1, <1>2, <1>8, <2>1, <2>2
  <2>4. PICK b \in Frame : b = Top
    BY <1>1
  <2>5. InPlace(b)'
    BY <1>1, <1>6, <2>4, InPlaceKept
  <2>6. \A i \in 1..(k - 1) : Passed(elemDescList[i])'
    BY <2>2, <2>4, <2>5 DEF InPlace
  <2>7. Passed(elemDescList[k])'
    <3>1. elemDescList'[k] = e
      BY <1>3, <2>1, <2>2 DEF Here
    <3> QED
      BY <1>6, <3>1 DEF Passed
  <2>8. \A i \in 1..(a.at - 1) : Passed(elemDescList[i])'
    <3> TAKE i \in 1..(a.at - 1)
    <3>1. i \in 1..(k - 1) \/ i = k
      BY <2>2, <2>3
    <3> QED
      BY <2>6, <2>7, <3>1
  <2> QED
    BY <1>8, <2>3, <2>8 DEF InPlace
<1>10. Activations'
  BY <1>1, <1>6, <1>8, <1>9, ActivationsReplaced DEF IInv
<1>11. /\ stack' \in Seq(Frame) /\ stack' # <<>> /\ Len(stack') = Len(stack)
  BY <1>1, <1>8, Replaced
<1>12. TypeOK'
  <2>1. elemDescGetFuncPtrMap' \in [Factories -> SUBSET Elements]
    BY <1>3, <1>4, <1>5
  <2>2. failed' \subseteq MayFail
    BY <1>1, <1>4 DEF TypeOK
  <2> QED
    BY <1>1, <1>4, <1>11, <2>1, <2>2 DEF TypeOK
<1>13. OwnOnly'
  BY <1>3, <1>4, <1>5 DEF IInv, OwnOnly
<1>14. InitDone'
  <2>1. ASSUME isInit, NEW d \in Elements
        PROVE  Passed(d)'
    BY <1>6, <2>1, PassedKept DEF IInv, InitDone
  <2> QED
    BY <1>4, <2>1 DEF InitDone
<1>15. /\ MainNotBegun' /\ Registered' /\ InitRuns' /\ ShallowNesting' /\ LookedUp'
       /\ NullOnlyAfterFailure'
  BY <1>1, <1>4, <1>11 DEF IInv, MainNotBegun, Registered, InitRuns, ShallowNesting, LookedUp,
     NullOnlyAfterFailure
<1> QED
  BY <1>10, <1>12, <1>13, <1>14, <1>15 DEF IInv

(* The end of the list. *)
LEMMA InitReturnsStep ==
  ASSUME IInv, InitReturns
  PROVE  IInv'
<1>1. /\ TypeOK /\ stack # <<>> /\ stack \in Seq(Frame) /\ pending = {} /\ instance # {}
      /\ Top \in Frame /\ Len(stack) \in Nat \ {0}
      /\ InPlace(Top) /\ Top.at \in Nat \ {0} /\ Top.at > Len(elemDescList)
  BY TopInPlace DEF InitReturns
<1>2. /\ isInit' = TRUE /\ stack' = Front(stack)
      /\ UNCHANGED <<pending, factoryMap, elemDescList, instance,
                     elemDescGetFuncPtrMap, todo, found, wanted, fault, failed>>
  BY DEF InitReturns, mainVars
<1>3. /\ stack' \in Seq(Frame) /\ Len(stack') = Len(stack) - 1
      /\ \A n \in 1..(Len(stack) - 1) : stack'[n] = stack[n]
  BY <1>1, <1>2, Popped
<1>4. \A e \in Elements : Passed(e)
  <2> TAKE e \in Elements
  <2>1. e \in ToSet(elemDescList)
    BY <1>1 DEF IInv, Registered
  <2>2. PICK i \in 1..Len(elemDescList) : e = elemDescList[i]
    BY <1>1, <2>1, LenProperties DEF ToSet, TypeOK
  <2>3. i \in 1..(Top.at - 1)
    BY <1>1, <2>2, Values
  <2> QED
    BY <1>1, <2>2, <2>3 DEF InPlace
<1>5. InitDone'
  BY <1>2, <1>4 DEF InitDone, Passed
<1>6. Activations'
  <2>1. SUFFICES ASSUME NEW n \in 1..(Len(stack) - 1)
                 PROVE  InPlace(stack[n])'
    BY <1>3 DEF Activations
  <2>2. n \in 1..Len(stack) /\ stack'[n] = stack[n]
    BY <1>1, <1>3
  <2>3. InPlace(stack[n])
    BY <2>2 DEF IInv, Activations
  <2> QED
    BY <1>2, <2>2, <2>3 DEF InPlace, Passed
<1>7. TypeOK'
  <2>1. Len(stack') <= Cardinality(Factories)
    BY <1>1, <1>3, RegistryAssumption, FS_CardinalityType DEF TypeOK
  <2> QED
    BY <1>1, <1>2, <1>3, <2>1 DEF TypeOK
<1>8. ShallowNesting'
  <2>1. Cardinality(instance) \in Nat
    BY <1>1, Values
  <2> QED
    BY <1>1, <1>2, <1>3, <2>1 DEF IInv, ShallowNesting
<1>9. /\ MainNotBegun' /\ Registered' /\ InitRuns' /\ OwnOnly' /\ LookedUp'
      /\ NullOnlyAfterFailure'
  BY <1>1, <1>2 DEF IInv, MainNotBegun, Registered, InitRuns, OwnOnly, LookedUp,
     NullOnlyAfterFailure
<1> QED
  BY <1>5, <1>6, <1>7, <1>8, <1>9 DEF IInv

(* main creates an element. *)
LEMMA CreateStep ==
  ASSUME IInv, createElementByName
  PROVE  IInv'
<1>1. /\ pending = {} /\ stack = <<>> /\ todo = <<>> /\ wanted # <<>>
      /\ wanted' = Tail(wanted)
      /\ UNCHANGED <<pending, factoryMap, elemDescList, instance, isInit, stack,
                     elemDescGetFuncPtrMap, todo, found, failed>>
  BY DEF createElementByName
<1>2. TypeOK
  BY DEF IInv
<1>3. PICK e \in Elements : e = Head(wanted)
  BY <1>1, <1>2, HeadTailProperties DEF TypeOK
<1>4. fault' = IF e \in elemDescGetFuncPtrMap[Owner[e]] THEN "none" ELSE "nullElement"
  BY <1>3 DEF createElementByName
<1>5. wanted' \in Seq(Elements)
  BY <1>1, <1>2, HeadTailProperties DEF TypeOK
<1>6. TypeOK'
  BY <1>1, <1>2, <1>4, <1>5 DEF TypeOK
<1>7. e \in elemDescGetFuncPtrMap[Owner[e]] \cup failed
  BY <1>1, AfterLookups DEF Passed
<1>8. NullOnlyAfterFailure'
  BY <1>1, <1>4, <1>7 DEF NullOnlyAfterFailure
<1>9. /\ MainNotBegun' /\ Registered' /\ InitRuns' /\ OwnOnly' /\ LookedUp'
      /\ ShallowNesting' /\ InitDone'
  BY <1>1 DEF IInv, MainNotBegun, Registered, InitRuns, OwnOnly, LookedUp, ShallowNesting,
     InitDone, Passed
<1>10. Activations'
  BY <1>1, EmptySeq DEF Activations
<1> QED
  BY <1>6, <1>8, <1>9, <1>10 DEF IInv

LEMMA NextIInv == IInv /\ [Next]_vars => IInv'
<1> SUFFICES ASSUME IInv, [Next]_vars
             PROVE  IInv'
  OBVIOUS
<1>1. CASE UNCHANGED vars
  BY <1>1 DEF vars, mainVars, IInv, TypeOK, MainNotBegun, Registered, Activations, InPlace,
     Passed, InitDone, InitRuns, ShallowNesting, OwnOnly, LookedUp, NullOnlyAfterFailure
<1>2. CASE Next
  BY <1>2, RegisterFactoryStep, AddElementStep, LookupStep, LookUpOwnerStep,
     RegisterElementStep, InitReturnsStep, CreateStep DEF Next, FactoryInit
<1> QED
  BY <1>1, <1>2

LEMMA Invariance == Spec => []IInv
  BY InitIInv, NextIInv, PTL DEF Spec

(* The variables keep their types; above all, Factory::init never enters   *)
(* itself more often than there are factories, because                     *)
(* DECLARE_FACTORY_GET_INSTANCE sets _instance before it calls init.       *)
THEOREM TypeCorrect == Spec => []TypeOK
<1>1. IInv => TypeOK
  BY DEF IInv
<1> QED
  BY Invariance, <1>1, PTL

(* Whatever the order of the static objects and however init nested, a     *)
(* factory that main has been given knows all of its elements but those    *)
(* whose init() failed, and no other factory's.                            *)
THEOREM Complete == Spec => []RegistryComplete
<1>1. IInv => RegistryComplete
  <2> SUFFICES ASSUME IInv, stack = <<>>, NEW f \in found
               PROVE  LET own == {e \in Elements : Owner[e] = f}
                      IN /\ own \ failed \subseteq elemDescGetFuncPtrMap[f]
                         /\ elemDescGetFuncPtrMap[f] \subseteq own
    BY DEF RegistryComplete
  <2>1. isInit /\ f \in Factories
    BY DEF IInv, TypeOK, InitRuns
  <2>2. \A e \in Elements : Passed(e)
    BY <2>1 DEF IInv, InitDone
  <2>3. elemDescGetFuncPtrMap[f] \subseteq Elements
    BY <2>1 DEF IInv, TypeOK
  <2>4. \A e \in elemDescGetFuncPtrMap[f] : Owner[e] = f
    BY <2>1 DEF IInv, OwnOnly
  <2> QED
    BY <2>2, <2>3, <2>4 DEF Passed
<1> QED
  BY Invariance, <1>1, PTL

(* The program meets a null factory or element only when some init() has   *)
(* failed, never because of the order of the static objects                *)
(* (Factory::init, createElementByName).                                   *)
THEOREM NullNeedsFailure == Spec => []NullOnlyAfterFailure
<1>1. IInv => NullOnlyAfterFailure
  BY DEF IInv
<1> QED
  BY Invariance, <1>1, PTL

(* The assertion on the factories in NovaEncoderInit never fails.          *)
THEOREM AssertionHolds == Spec => []AssertHolds
<1>1. IInv => AssertHolds
  BY AfterLookups DEF AssertHolds
<1> QED
  BY Invariance, <1>1, PTL
=============================================================================
