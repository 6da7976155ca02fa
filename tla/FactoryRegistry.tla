--------------------------- MODULE FactoryRegistry ---------------------------
(***************************************************************************)
(* The registry of factories and elements (CXStreamer/factory.h and        *)
(* factory.cpp, FactoryCommon, SSC339GFactory) and its use by              *)
(* Player::NovaEncoderInit(0).                                             *)
(*                                                                         *)
(* Every translation unit registers what it defines while its static       *)
(* objects are initialised, in whatever order the linker chose.  A factory *)
(* object is built by the first getFactoryInstanceByName that names it,    *)
(* and Factory::init then gives every element of the list to its factory,  *)
(* which it looks up by name: that builds the other factories in turn and  *)
(* enters init again inside the loop.                                      *)
(***************************************************************************)
EXTENDS Naturals, FiniteSets, SequencesExt

CONSTANTS
  Factories,   (* "SSC339G" and "common"                                   *)
  Elements,    (* the element classes that are linked into the program     *)
  Owner,       (* the factoryName of each element's descriptor             *)
  MayFail,     (* those whose init() can fail                              *)
  Lookups,     (* the factories NovaEncoderInit(0) asks for, in order      *)
  Wanted       (* the elements it then creates, in order                   *)

(* The init() of FactoryCommon returns 0 (factorycommon.cpp), so that one  *)
(* lookup at least finds its factory, and each factory that is looked up   *)
(* has an element of its own whose init() returns 0, as all of this build  *)
(* do.                                                                     *)
ASSUME RegistryAssumption ==
  /\ IsFiniteSet(Factories) /\ Factories \cap Elements = {}
  /\ Owner \in [Elements -> Factories]
  /\ MayFail \subseteq Factories \cup Elements
  /\ Lookups \in Seq(Factories)
  /\ Wanted \in Seq(Elements)
  /\ \E f \in ToSet(Lookups) : f \notin MayFail
  /\ \A f \in ToSet(Lookups) : \E e \in Elements \ MayFail : Owner[e] = f

VARIABLES
  pending,       (* static registrations still to run                      *)
  factoryMap,    (* names getFactoryMap() holds a descriptor for           *)
  elemDescList,
  instance,      (* factories whose static _instance is set                *)
  isInit,
  stack,         (* the activations of Factory::init, the innermost last   *)
  elemDescGetFuncPtrMap,
  todo,          (* lookups main has yet to make                           *)
  found,         (* history: a lookup of it returned an object             *)
  wanted,        (* elements main has yet to create                        *)
  fault,         (* why the process is dead, if it is                      *)
  failed         (* history: those whose init() has failed                 *)

mainVars == <<todo, found, wanted>>
vars == <<pending, factoryMap, elemDescList, instance, isInit, stack,
          elemDescGetFuncPtrMap, mainVars, fault, failed>>

(* An activation is about to look up the factory of the element at `at',   *)
(* or has done so and is about to register the element with what it got.   *)
Frame == [at : Nat \ {0}, step : {"look", "register"}]
NewFrame == [at |-> 1, step |-> "look"]

Init ==
  /\ pending = Factories \cup Elements
  /\ factoryMap = {}
  /\ elemDescList = <<>>
  /\ instance = {}
  /\ isInit = FALSE
  /\ stack = <<>>
  /\ elemDescGetFuncPtrMap = [f \in Factories |-> {}]
  /\ todo = Lookups
  /\ found = {}
  /\ wanted = Wanted
  /\ fault = "none"
  /\ failed = {}

Alive == fault = "none"

-----------------------------------------------------------------------------
(* Before main: REGISTER_FACTORY and REGISTER_ELEMENT. *)

registerFactory(f) ==
  /\ Alive
  /\ f \in pending
  /\ pending' = pending \ {f}
  /\ \/ factoryMap' = factoryMap \cup {f} /\ failed' = failed
     \/ f \in MayFail /\ failed' = failed \cup {f} /\ factoryMap' = factoryMap
  /\ UNCHANGED <<elemDescList, instance, isInit, stack, elemDescGetFuncPtrMap,
                 mainVars, fault>>

(* A bug for the mutant runs: the element is registered at once, not when  *)
(* all static objects have been initialised.                               *)
AddAtOnce(e) ==
  /\ Alive
  /\ e \in pending
  /\ pending' = pending \ {e}
  /\ elemDescList' = Append(elemDescList, e)
  /\ fault' = IF Owner[e] \in factoryMap THEN "none" ELSE "nullFactory"
  /\ UNCHANGED <<factoryMap, instance, isInit, stack, elemDescGetFuncPtrMap,
                 mainVars, failed>>

addElementDesc(e) ==
  /\ Alive
  /\ e \in pending
  /\ pending' = pending \ {e}
  /\ elemDescList' = Append(elemDescList, e)
  /\ UNCHANGED <<factoryMap, instance, isInit, stack, elemDescGetFuncPtrMap,
                 mainVars, fault, failed>>

-----------------------------------------------------------------------------
(* getInstance of DECLARE_FACTORY_GET_INSTANCE, from the activations s: a  *)
(* first call sets _instance and then calls init, which returns at once    *)
(* when isInit is set.  The second definition is a bug for the mutant      *)
(* runs: init comes first.                                                 *)
InitBeforeInstance(f, s) ==
  IF f \in instance THEN instance' = instance /\ stack' = s
  ELSE IF isInit THEN instance' = instance \cup {f} /\ stack' = s
  ELSE instance' = instance /\ stack' = Append(s, NewFrame)

getInstance(f, s) ==
  /\ instance' = instance \cup {f}
  /\ stack' = IF f \in instance \/ isInit THEN s ELSE Append(s, NewFrame)

(* main's next getFactoryInstanceByName. *)
getFactoryInstanceByName ==
  /\ Alive
  /\ pending = {}
  /\ stack = <<>>
  /\ todo # <<>>
  /\ IF Head(todo) \in factoryMap
     THEN getInstance(Head(todo), <<>>) /\ found' = found \cup {Head(todo)}
     ELSE UNCHANGED <<instance, stack, found>>
  /\ todo' = Tail(todo)
  /\ UNCHANGED <<pending, factoryMap, elemDescList, isInit,
                 elemDescGetFuncPtrMap, wanted, fault, failed>>

-----------------------------------------------------------------------------
(* Factory::init, its innermost activation.                                *)

Running == Alive /\ stack # <<>>
Top == Last(stack)
Here == elemDescList[Top.at]

NextElement == Append(Front(stack), [at |-> Top.at + 1, step |-> "look"])
Registering == Append(Front(stack), [Top EXCEPT !.step = "register"])

(* A bug for the mutant runs: an element without a factory is skipped.     *)
SkipOwnerless ==
  /\ Running
  /\ Top.step = "look"
  /\ Top.at <= Len(elemDescList)
  /\ IF Owner[Here] \in factoryMap
     THEN getInstance(Owner[Here], Registering)
     ELSE instance' = instance /\ stack' = NextElement
  /\ UNCHANGED <<pending, factoryMap, elemDescList, isInit,
                 elemDescGetFuncPtrMap, mainVars, fault, failed>>

(* The factory of the next element is looked up; what the lookup returns,  *)
(* a null pointer too, is the object registerElement is called on.         *)
LookUpOwner ==
  /\ Running
  /\ Top.step = "look"
  /\ Top.at <= Len(elemDescList)
  /\ IF Owner[Here] \in factoryMap
     THEN getInstance(Owner[Here], Registering)
     ELSE instance' = instance /\ stack' = Registering
  /\ UNCHANGED <<pending, factoryMap, elemDescList, isInit,
                 elemDescGetFuncPtrMap, mainVars, fault, failed>>

(* registerElement leaves its object alone when init() of the element has  *)
(* failed, and uses it when it has not.                                    *)
ElementFails ==
  /\ Here \in MayFail
  /\ failed' = failed \cup {Here}
  /\ UNCHANGED <<elemDescGetFuncPtrMap, fault>>

ElementTaken ==
  /\ Owner[Here] \in factoryMap
  /\ elemDescGetFuncPtrMap' =
       [elemDescGetFuncPtrMap EXCEPT ![Owner[Here]] = @ \cup {Here}]
  /\ UNCHANGED <<failed, fault>>

NobodyTakesElement ==
  /\ Owner[Here] \notin factoryMap
  /\ fault' = "nullFactory"
  /\ UNCHANGED <<stack, elemDescGetFuncPtrMap, failed>>

(* A bug for the mutant runs: a failure of init() ends the loop. *)
StopAtFailure ==
  /\ Running
  /\ Top.step = "register"
  /\ \/ ElementTaken /\ stack' = NextElement
     \/ NobodyTakesElement
     \/ /\ ElementFails
        /\ stack' = Append(Front(stack),
                           [at |-> Len(elemDescList) + 1, step |-> "look"])
  /\ UNCHANGED <<pending, factoryMap, elemDescList, instance, isInit, mainVars>>

registerElement ==
  /\ Running
  /\ Top.step = "register"
  /\ \/ (ElementFails \/ ElementTaken) /\ stack' = NextElement
     \/ NobodyTakesElement
  /\ UNCHANGED <<pending, factoryMap, elemDescList, instance, isInit, mainVars>>

InitReturns ==
  /\ Running
  /\ Top.step = "look"
  /\ Top.at > Len(elemDescList)
  /\ isInit' = TRUE
  /\ stack' = Front(stack)
  /\ UNCHANGED <<pending, factoryMap, elemDescList, instance,
                 elemDescGetFuncPtrMap, mainVars, fault, failed>>

FactoryInit == LookUpOwner \/ registerElement \/ InitReturns

-----------------------------------------------------------------------------
(* cf_assert has let main pass (see AssertHolds): the next element is      *)
(* created and used; a class its factory does not know is a null pointer.  *)
createElementByName ==
  /\ Alive
  /\ pending = {} /\ stack = <<>> /\ todo = <<>>
  /\ wanted # <<>>
  /\ LET e == Head(wanted)
     IN fault' = IF e \in elemDescGetFuncPtrMap[Owner[e]] THEN "none"
                                                          ELSE "nullElement"
  /\ wanted' = Tail(wanted)
  /\ UNCHANGED <<pending, factoryMap, elemDescList, instance, isInit, stack,
                 elemDescGetFuncPtrMap, todo, found, failed>>

Next ==
  \/ \E f \in Factories : registerFactory(f)
  \/ \E e \in Elements : addElementDesc(e)
  \/ getFactoryInstanceByName
  \/ FactoryInit
  \/ createElementByName

Spec == Init /\ [][Next]_vars
-----------------------------------------------------------------------------
(* Types of the variables; init never nests deeper than there are          *)
(* factories, because _instance is set before init is called.              *)
TypeOK ==
  /\ pending \subseteq Factories \cup Elements
  /\ factoryMap \subseteq Factories
  /\ elemDescList \in Seq(Elements)
  /\ instance \subseteq factoryMap
  /\ isInit \in BOOLEAN
  /\ stack \in Seq(Frame)
  /\ Len(stack) <= Cardinality(Factories)
  /\ elemDescGetFuncPtrMap \in [Factories -> SUBSET Elements]
  /\ todo \in Seq(Factories)
  /\ found \subseteq instance
  /\ wanted \in Seq(Elements)
  /\ fault \in {"none", "nullFactory", "nullElement"}
  /\ failed \subseteq MayFail

(* Whatever the order of the static objects and however init nested, a     *)
(* factory that main has been given knows every element of its own, except *)
(* for those whose init failed, and no other factory's.                    *)
RegistryComplete ==
  stack = <<>> /\ Alive =>
    \A f \in found :
      LET own == {e \in Elements : Owner[e] = f}
      IN /\ own \ failed \subseteq elemDescGetFuncPtrMap[f]
         /\ elemDescGetFuncPtrMap[f] \subseteq own

(* The order of the static objects never makes the program meet a null     *)
(* factory or element: it does so only when some init() has failed.        *)
NullOnlyAfterFailure == fault # "none" => failed # {}

(* The assertion on the two factories (player.cpp:481) never fails: when   *)
(* one could not be registered, registerElement has already been called on *)
(* the null pointer its lookup gave, for an element whose init() succeeds. *)
AssertHolds ==
  Alive /\ pending = {} /\ stack = <<>> /\ todo = <<>> =>
    ToSet(Lookups) \subseteq found
=============================================================================
