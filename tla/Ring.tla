-------------------------------- MODULE Ring ---------------------------------
(***************************************************************************)
(* squeue of the utility library (public/_public.h): a queue of at most    *)
(* MaxLength values in an array, with the place of its head, the place of  *)
(* its tail and its length.                                                *)
(*                                                                         *)
(* init() does nothing when m_inited is true, and the constructor calls it *)
(* without having set m_inited.  The object is taken to lie in memory that *)
(* was zeroed: static storage, or a new segment of shared memory, where    *)
(* every process that attaches calls init().                               *)
(***************************************************************************)
EXTENDS Naturals, Sequences

CONSTANTS Values,
          MaxLength,
          Zero       \* what memset() leaves in an element

ASSUME RingAssumption == MaxLength \in Nat \ {0}

VARIABLES m_inited,
          m_data,
          m_head,
          m_tail,    \* the place of the last value
          m_length,
          result     \* what the last call returned

ringVars == <<m_inited, m_data, m_head, m_tail, m_length, result>>

Indices == 0..MaxLength - 1

-----------------------------------------------------------------------------

(* The memory before the constructor.                                      *)
RingInit == /\ m_inited = FALSE
            /\ m_data = [i \in Indices |-> Zero]
            /\ m_head = 0 /\ m_tail = 0 /\ m_length = 0
            /\ result = "true"

\* Mutation, for the checks of the properties.
InitialiseAtFront == /\ ~m_inited
                     /\ m_head' = 0
                     /\ m_tail' = 0
                     /\ m_length' = 0
                     /\ m_data' = [i \in Indices |-> Zero]
                     /\ m_inited' = TRUE
                     /\ UNCHANGED result

(* init(): the first value will go behind the last place.                  *)
Initialise == /\ ~m_inited
              /\ m_head' = 0
              /\ m_tail' = MaxLength - 1
              /\ m_length' = 0
              /\ m_data' = [i \in Indices |-> Zero]
              /\ m_inited' = TRUE
              /\ UNCHANGED result

(* The place after i, in a circle.                                         *)
After(i) == (i + 1) % MaxLength

Refuse == /\ result' = "false"
          /\ UNCHANGED <<m_inited, m_data, m_head, m_tail, m_length>>

PushFull == m_length = MaxLength /\ Refuse

PushValue(v) == /\ m_length # MaxLength
                /\ m_tail' = After(m_tail)
                /\ m_data' = [m_data EXCEPT ![m_tail'] = v]
                /\ m_length' = m_length + 1
                /\ result' = "true"
                /\ UNCHANGED <<m_inited, m_head>>

PopEmpty == m_length = 0 /\ Refuse

PopValue == /\ m_length # 0
            /\ m_head' = After(m_head)
            /\ m_length' = m_length - 1
            /\ result' = "true"
            /\ UNCHANGED <<m_inited, m_data, m_tail>>

(* A caller asks for the front of a queue that is not empty.               *)
ReadFront == /\ m_length # 0
             /\ result' = m_data[m_head]
             /\ UNCHANGED <<m_inited, m_data, m_head, m_tail, m_length>>

(* Whatever else a process does with the queue, it has called init().      *)
RingCall == /\ m_inited
            /\ PopEmpty \/ PopValue \/ ReadFront \/ \E v \in Values : PushFull \/ PushValue(v)

RingNext == Initialise \/ RingCall

RingSpec == RingInit /\ [][RingNext]_ringVars

-----------------------------------------------------------------------------

RingTypes == /\ m_inited \in BOOLEAN
             /\ m_data \in [Indices -> Values \union {Zero}]
             /\ {m_head, m_tail} \subseteq Indices
             /\ m_length \in 0..MaxLength
             /\ result \in Values \union {Zero, "true", "false"}

(* The values in the queue, from the front to the tail, across the end of  *)
(* the array.                                                              *)
Waiting == [i \in 1..m_length |-> m_data[(m_head + i - 1) % MaxLength]]

Abstract == INSTANCE BoundedQueue WITH Capacity <- MaxLength, queue <- Waiting

(* squeue keeps the promise of a bounded queue: what push() accepted comes *)
(* out in the order of the calls, push() refuses exactly when MaxLength    *)
(* values wait and pop() exactly when none does (_public.h:682-734).       *)
ImplementsQueue == Abstract!BQSpec

=============================================================================
