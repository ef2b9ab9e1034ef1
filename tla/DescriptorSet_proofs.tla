------------------------- MODULE DescriptorSet_proofs -------------------------
(***************************************************************************)
(* For any payload the decoder stays within it, each of its steps takes    *)
(* bytes or goes on to another part, and what it accepts is a descriptor   *)
(* set that encode turns into bytes, or refuses.                           *)
(*                                                                         *)
(* For any set that can be sent, decode gives back what was encoded; a     *)
(* payload that is cut or goes on is refused; and what decode accepts,     *)
(* encoded again, decodes to itself.  The invariant has two parts.         *)
(*   Tracking: while the encoding of a well-formed set arrives, what is    *)
(*     open and what is closed are the beginning of that set, and what     *)
(*     follows offset is the encoding of the rest of it.                   *)
(*   Measured: whatever arrives, what was taken is as long as the encoding *)
(*     of what was built from it; so what is accepted is well formed, and  *)
(*     Tracking holds of the second decode too.                            *)
(***************************************************************************)
EXTENDS DescriptorSet, SharedLemmas
LOCAL INSTANCE SequencesExt

\* Where decode is within the payload.
WhileDecoding ==
    /\ bytes \in Seq(0 .. 255)
    /\ pc \in Parts
    /\ bodyEnd \in Nat
    /\ accepted \in BOOLEAN
    /\ accepted => pc = "done"
    /\ WithinPayload

\* A byte that lies within the payload is a byte.
LEMMA ByteRange ==
    ASSUME bytes \in Seq(0 .. 255), NEW i \in 1 .. Len(bytes)
    PROVE  bytes[i] \in 0 .. 255
BY ElementOfSeq

\* A length of two bytes within the payload is a natural number.
LEMMA U16Range ==
    ASSUME bytes \in Seq(0 .. 255), NEW i \in 1 .. Len(bytes), i + 1 <= Len(bytes)
    PROVE  U16At(i) \in Nat
<1>1. Len(bytes) \in Nat
    OBVIOUS
<1>2. i + 1 \in 1 .. Len(bytes)
    BY <1>1
<1>3. bytes[i] \in 0 .. 255 /\ bytes[i + 1] \in 0 .. 255
    BY <1>2, ByteRange
<1>4. ASSUME NEW low \in 0 .. 255, NEW high \in 0 .. 255
      PROVE  low + 256 * high \in Nat
    OBVIOUS
<1> QED
    BY <1>3, <1>4, Zenon DEF U16At

\* Init: nothing has been taken of what arrived.
LEMMA InitWhileDecoding == Init => WhileDecoding
<1> SUFFICES ASSUME Init PROVE WhileDecoding
    OBVIOUS
<1>1. bytes \in Seq(0 .. 255)
    BY InputAssumption DEF Init
<1>2. accepted \in BOOLEAN /\ ~accepted
    BY DEF Init
<1>3. /\ pc \in Parts /\ bodyEnd \in Nat /\ pc # "body" /\ offset \in 0 .. Len(bytes)
    BY <1>1 DEF Init, Parts
<1> QED
    BY <1>1, <1>2, <1>3 DEF WhileDecoding, WithinPayload

\* Reject: every early return with an error leaves the decoder where it is.
LEMMA RejectStays ==
    ASSUME WhileDecoding, Reject, pc # "done"
    PROVE  WhileDecoding' /\ pc' # pc
<1>1. /\ pc' = "done" /\ offset' = offset /\ bytes' = bytes
      /\ accepted' = accepted /\ bodyEnd' = bodyEnd
    BY DEF Reject, parser
<1> QED
    BY <1>1 DEF WhileDecoding, WithinPayload, Parts

\* DecodeHeader: the payload is long enough for the two headers.
LEMMA HeaderAdvances ==
    ASSUME WhileDecoding, DecodeHeader
    PROVE  WhileDecoding' /\ pc' # pc
BY DEF WhileDecoding, DecodeHeader, HeaderFits, WithinPayload, Parts

\* OpenConfiguration: the total length ends within the payload and is not
\* shorter than the descriptor that states it.
LEMMA ConfigurationAdvances ==
    ASSUME WhileDecoding, OpenConfiguration
    PROVE  WhileDecoding' /\ pc' # pc
<1> DEFINE total == U16At(offset + 3)
<1>1. /\ offset \in Nat /\ offset + 9 <= Len(bytes)
      /\ total >= 9 /\ offset + total <= Len(bytes)
    BY DEF OpenConfiguration, ConfigurationFits, WhileDecoding, WithinPayload
<1>2. total \in Nat
    <2>1. offset + 3 \in 1 .. Len(bytes) /\ (offset + 3) + 1 <= Len(bytes)
        BY <1>1 DEF WhileDecoding
    <2> QED
        BY <2>1, U16Range DEF WhileDecoding
<1>3. /\ pc = "configurations" /\ pc' = "body" /\ bytes' = bytes
      /\ accepted' = accepted /\ offset' = offset + 9 /\ bodyEnd' = offset + total
    BY DEF OpenConfiguration
<1> HIDE DEF total
<1> QED
    BY <1>1, <1>2, <1>3 DEF WhileDecoding, WithinPayload, Parts

\* TakesDescriptor: a descriptor has a length of at least two, and lies within
\* the configuration.
LEMMA DescriptorAdvances ==
    ASSUME WhileDecoding, NEW type, TakesDescriptor(type)
    PROVE  WhileDecoding' /\ offset' > offset
<1>1. /\ offset \in Nat /\ bodyEnd <= Len(bytes)
      /\ offset + 2 <= bodyEnd /\ Field(1) >= 2 /\ offset + Field(1) <= bodyEnd
    BY DEF TakesDescriptor, DescriptorFits, LengthFits, WhileDecoding, WithinPayload
<1>2. Field(1) \in Nat
    <2>1. offset + 1 \in 1 .. Len(bytes)
        BY <1>1 DEF WhileDecoding
    <2>2. bytes[offset + 1] \in 0 .. 255
        BY <2>1, ByteRange DEF WhileDecoding
    <2> QED
        BY <2>2 DEF Field
<1>3. /\ pc = "body" /\ pc' = pc /\ bytes' = bytes /\ bodyEnd' = bodyEnd
      /\ accepted' = accepted /\ offset' = offset + Field(1)
    BY DEF TakesDescriptor
<1> QED
    BY <1>1, <1>2, <1>3 DEF WhileDecoding, WithinPayload, Parts

\* CloseConfiguration and ConfigurationsEnd take nothing and go on to another part.
LEMMA PartEnds ==
    ASSUME WhileDecoding, CloseConfiguration \/ ConfigurationsEnd
    PROVE  WhileDecoding' /\ pc' # pc
BY DEF WhileDecoding, CloseConfiguration, ConfigurationsEnd, WithinPayload, Parts

\* TakeSidecar: the report ends within the payload.
LEMMA SidecarAdvances ==
    ASSUME WhileDecoding, TakeSidecar
    PROVE  WhileDecoding' /\ offset' > offset
<1> DEFINE size == U16At(offset + 7)
<1>1. offset \in Nat /\ offset + 8 <= Len(bytes) /\ offset + 8 + size <= Len(bytes)
    BY DEF TakeSidecar, SidecarFits, WhileDecoding, WithinPayload
<1>2. size \in Nat
    <2>1. offset + 7 \in 1 .. Len(bytes) /\ (offset + 7) + 1 <= Len(bytes)
        BY <1>1 DEF WhileDecoding
    <2> QED
        BY <2>1, U16Range DEF WhileDecoding
<1>3. /\ pc = "sidecars" /\ pc' = pc /\ bytes' = bytes /\ bodyEnd' = bodyEnd
      /\ accepted' = accepted /\ offset' = offset + 8 + size
    BY DEF TakeSidecar
<1> HIDE DEF size
<1> QED
    BY <1>1, <1>2, <1>3 DEF WhileDecoding, WithinPayload, Parts

\* Accept: the set is returned only at the end of the payload.
LEMMA AcceptAtEnd ==
    ASSUME WhileDecoding, Accept
    PROVE  WhileDecoding' /\ pc' # pc
<1>1. /\ pc = "sidecars" /\ pc' = "done" /\ offset' = offset /\ bytes' = bytes
      /\ bodyEnd' = bodyEnd /\ accepted' = (offset = Len(bytes))
    BY DEF Accept, parser
<1> QED
    BY <1>1 DEF WhileDecoding, WithinPayload, Parts

\* Each step of decode keeps the invariant, and takes bytes or goes on.
LEMMA DecodeStep ==
    ASSUME WhileDecoding, Decode
    PROVE  WhileDecoding' /\ (pc' = pc => offset' > offset)
<1>1. CASE DecodeHeader
    BY <1>1, HeaderAdvances
<1>2. CASE RejectHeader \/ RejectConfiguration \/ RejectDescriptor \/ RejectBody \/ RejectSidecar
    BY <1>2, RejectStays
       DEF RejectHeader, RejectConfiguration, RejectDescriptor, RejectBody, RejectSidecar
<1>3. CASE OpenConfiguration
    BY <1>3, ConfigurationAdvances
<1>4. CASE TakeInterface \/ TakeEndpoint \/ TakeExtra
    BY <1>4, DescriptorAdvances DEF TakeInterface, TakeEndpoint, TakeExtra
<1>5. CASE CloseConfiguration \/ ConfigurationsEnd
    BY <1>5, PartEnds
<1>6. CASE TakeSidecar
    BY <1>6, SidecarAdvances
<1>7. CASE Accept
    BY <1>7, AcceptAtEnd
<1> QED
    BY <1>1, <1>2, <1>3, <1>4, <1>5, <1>6, <1>7 DEF Decode

-----------------------------------------------------------------------------
(* Encodings are bytes                                                     *)

\* Sequences over a set, one behind the other (FlatBounded).
LEMMA FlattenFacts ==
    ASSUME NEW S, NEW s \in Seq(Seq(S)), NEW B \in Nat, \A i \in 1 .. Len(s) : Len(s[i]) <= B
    PROVE  Bounded(FlattenSeq(s), S, B, Len(s))
<1> DEFINE L == Len(s)
           flat == CHOOSE g : g = [i \in 1 .. L |-> IF i = 1 THEN s[i] ELSE g[i - 1] \o s[i]]
<1>1. L \in Nat
  OBVIOUS
<1>2. IF L = 0 THEN FlattenSeq(s) = s ELSE FlattenSeq(s) = flat[L]
  BY DEF FlattenSeq
<1>3. FlattensTo(s, L, flat)
  <2>1. \E g : FlattensTo(s, L, g)
    BY <1>1, FlattensExist
  <2> QED
    BY <2>1 DEF FlattensTo
<1> HIDE DEF flat
<1>4. FlatIs(s, FlattenSeq(s))
  BY <1>2, <1>3 DEF FlatIs
<1> QED
  BY <1>4, FlatBounded

\* The sequences of a sequence of sequences, one behind the other.
LEMMA FlattenTyped ==
    ASSUME NEW S, NEW s \in Seq(Seq(S))
    PROVE  FlattenSeq(s) \in Seq(S)
<1> DEFINE L == Len(s)
           T == {n \in Nat : n <= L => \E B \in Nat : \A i \in 1 .. n : Len(s[i]) <= B}
<1>1. L \in Nat /\ \A i \in 1 .. L : Len(s[i]) \in Nat
  <2>1. \A i \in 1 .. L : s[i] \in Seq(S)
    BY ElementOfSeq
  <2> QED
    BY <2>1, LenProperties
<1>2. 0 \in T
  BY <1>1
<1>3. ASSUME NEW n \in Nat, n \in T
      PROVE  n + 1 \in T
  <2> DEFINE m == n + 1
  <2> SUFFICES ASSUME m <= L
               PROVE  \E B \in Nat : \A i \in 1 .. m : Len(s[i]) <= B
    OBVIOUS
  <2>1. PICK B \in Nat : \A i \in 1 .. n : Len(s[i]) <= B
    BY <1>1, <1>3
  <2>2. Len(s[m]) \in Nat
    BY <1>1
  <2>3. B + Len(s[m]) \in Nat /\ \A i \in 1 .. m : Len(s[i]) <= B + Len(s[m])
    BY <1>1, <2>1, <2>2
  <2> QED
    BY <2>3
<1> HIDE DEF T
<1>4. L \in T
  BY <1>1, <1>2, <1>3, SetInduction
<1>5. PICK B \in Nat : \A i \in 1 .. L : Len(s[i]) <= B
  BY <1>1, <1>4 DEF T
<1>6. Bounded(FlattenSeq(s), S, B, L)
  BY <1>5, FlattenFacts
<1> QED
  BY <1>6 DEF Bounded

\* A part of a row of bytes.
LEMMA PartOfRow ==
    ASSUME NEW S, NEW s \in Seq(S), NEW m \in Nat \ {0}, NEW n \in Nat, m <= n, n <= Len(s)
    PROVE  SubSeq(s, m, n) \in Seq(S) /\ Len(SubSeq(s, m, n)) = n - m + 1
<1>1. \A i \in m .. n : s[i] \in S
  BY ElementOfSeq
<1>2. (IF m <= n THEN n - m + 1 ELSE 0) = n - m + 1
  OBVIOUS
<1> QED
  BY <1>1, <1>2, SubSeqProperties

\* s is a sequence over S of length n.
Long(s, S, n) == s \in Seq(S) /\ Len(s) = n

\* Parts of encodings, one behind the other, with their lengths.
LEMMA Joined ==
    ASSUME NEW S, NEW m \in Nat, NEW n \in Nat, NEW k, k = m + n,
           NEW s, NEW t, Long(s, S, m), Long(t, S, n)
    PROVE  Long(s \o t, S, k)
BY ConcatProperties DEF Long

\* Two sequences joined are a sequence of the same elements.
LEMMA Chained ==
    ASSUME NEW S, NEW s \in Seq(S), NEW t \in Seq(S)
    PROVE  s \o t \in Seq(S) /\ Len(s \o t) \in Nat
BY ConcatProperties, LenProperties

\* Sequences of one and of two elements have that length.
LEMMA OneByte ==
    ASSUME NEW S, NEW a \in S
    PROVE  Long(<<a>>, S, 1)
BY DEF Long

\* The same, of two.
LEMMA TwoBytes ==
    ASSUME NEW S, NEW a \in S, NEW b \in S
    PROVE  Long(<<a, b>>, S, 2)
BY DEF Long

\* A number that fits in one byte is a byte.
LEMMA Small ==
    ASSUME NEW n \in Nat, n <= 255
    PROVE  n \in Byte
BY DEF Byte

\* What two bytes can hold is less than this.
Word == 65536

\* Le16: what fits in two bytes.
LEMMA Le16Typed ==
    ASSUME NEW n \in Nat, n < Word
    PROVE  Long(Le16(n), Byte, 2)
<1>1. n % 256 \in Byte /\ n \div 256 \in Byte
  <2> DEFINE q == n \div 256
             r == n % 256
  <2>1. q \in Nat /\ n = 256 * q + r /\ r \in 0 .. 255
    <3>1. 256 \in Nat \ {0} /\ 256 - 1 = 255
      OBVIOUS
    <3> QED
      BY <3>1, DivMod
  <2> HIDE DEF q, r
  <2>2. q <= 255
    BY <2>1 DEF Word
  <2> QED
    BY <2>1, <2>2, Small DEF q, r, Byte
<1> QED
  BY <1>1, TwoBytes DEF Le16

\* The length of a descriptor is a byte, if its body is short enough.
LEMMA DescriptorTyped ==
    ASSUME NEW type \in Byte, NEW n \in Nat, n <= 253, NEW body, Long(body, Byte, n)
    PROVE  Long(Descriptor(type, body), Byte, n + 2)
<1>1. n + 2 \in Byte
  BY Small
<1>2. Len(body) = n
  BY DEF Long
<1>3. Long(<<n + 2, type>>, Byte, 2)
  BY <1>1, TwoBytes
<1>4. n + 2 = 2 + n /\ 2 \in Nat
  OBVIOUS
<1>5. Long(<<n + 2, type>> \o body, Byte, n + 2)
  BY <1>3, <1>4, Joined, Zenon
<1> QED
  BY <1>2, <1>5, Zenon DEF Descriptor

\* EndpointBytes: each endpoint has seven bytes.
LEMMA EndpointsTyped ==
    ASSUME NEW endpoints \in Seq(Row(5))
    PROVE  EndpointBytes(endpoints) \in Seq(Byte)
<1> DEFINE each == [i \in DOMAIN endpoints |-> Descriptor(EndpointType, endpoints[i])]
<1>1. DOMAIN endpoints = 1 .. Len(endpoints) /\ Len(endpoints) \in Nat
  BY LenProperties
<1>2. ASSUME NEW i \in 1 .. Len(endpoints)
      PROVE  Descriptor(EndpointType, endpoints[i]) \in Seq(Byte)
  <2>1. endpoints[i] \in Row(5)
    BY ElementOfSeq
  <2>2. Long(endpoints[i], Byte, 5)
    BY <2>1 DEF Row, Long
  <2>3. EndpointType \in Byte /\ 5 \in Nat /\ 5 <= 253
    BY DEF EndpointType, Byte
  <2>4. Long(Descriptor(EndpointType, endpoints[i]), Byte, 5 + 2)
    BY <2>2, <2>3, DescriptorTyped, Zenon
  <2> QED
    BY <2>4 DEF Long
<1>3. each \in Seq(Seq(Byte))
  <2> DEFINE B == Seq(Byte)
  <2>1. \A i \in 1 .. Len(endpoints) : each[i] \in B
    BY <1>1, <1>2
  <2>2. each \in [1 .. Len(endpoints) -> B]
    BY <1>1, <2>1
  <2> HIDE DEF B, each
  <2>3. each \in Seq(B)
    BY <1>1, <2>2
  <2> QED
    BY <2>3 DEF B
<1> HIDE DEF each
<1>4. FlattenSeq(each) \in Seq(Byte)
  BY <1>3, FlattenTyped
<1> QED
  BY <1>4 DEF EndpointBytes, each

\* InterfaceBytes, if encode does not refuse the number of endpoints.
LEMMA InterfaceTyped ==
    ASSUME NEW interface \in Interfaces, Len(interface.endpoints) < 256
    PROVE  InterfaceBytes(interface) \in Seq(Byte)
<1>1. /\ interface.fields \in Row(6) /\ interface.extras \in Seq(Seq(Byte))
      /\ interface.endpoints \in Seq(Row(5))
  BY DEF Interfaces
<1> DEFINE a == SubSeq(interface.fields, 1, 2)
           b == <<Len(interface.endpoints)>>
           c == SubSeq(interface.fields, 3, 6)
           body == a \o b \o c
<1>2. Long(a, Byte, 2) /\ Long(c, Byte, 4)
  <2>1. interface.fields \in Seq(Byte) /\ Len(interface.fields) = 6
    BY <1>1 DEF Row
  <2> QED
    BY <2>1, PartOfRow DEF Long
<1>3. Long(b, Byte, 1)
  <2>1. Len(interface.endpoints) \in Byte
    <3>1. Len(interface.endpoints) \in Nat
      BY <1>1, LenProperties
    <3> QED
      BY <3>1, Small
  <2> QED
    BY <2>1, OneByte
<1> HIDE DEF a, b, c
<1>4. Long(body, Byte, 7)
  <2>1. 3 = 2 + 1 /\ 7 = 3 + 4 /\ {1, 2, 3, 4} \subseteq Nat
    OBVIOUS
  <2> DEFINE ab == a \o b
  <2>2. Long(ab, Byte, 3)
    BY <1>2, <1>3, <2>1, Joined
  <2> HIDE DEF ab
  <2>3. Long(ab \o c, Byte, 7)
    BY <1>2, <2>1, <2>2, Joined
  <2> QED
    BY <2>3 DEF ab
<1> HIDE DEF body
<1>5. Descriptor(InterfaceType, body) \in Seq(Byte)
  <2>1. InterfaceType \in Byte /\ 7 \in Nat /\ 7 <= 253
    BY DEF InterfaceType, Byte
  <2>2. Long(Descriptor(InterfaceType, body), Byte, 7 + 2)
    BY <1>4, <2>1, DescriptorTyped, Zenon
  <2> QED
    BY <2>2 DEF Long
<1>6. FlattenSeq(interface.extras) \in Seq(Byte) /\ EndpointBytes(interface.endpoints) \in Seq(Byte)
  BY <1>1, FlattenTyped, EndpointsTyped
<1>7. Descriptor(InterfaceType, body) \o FlattenSeq(interface.extras)
        \o EndpointBytes(interface.endpoints) \in Seq(Byte)
  BY <1>5, <1>6, Chained
<1> QED
  BY <1>7 DEF InterfaceBytes, body, a, b, c

\* A part for each element.
LEMMA EachTyped ==
    ASSUME NEW S, NEW n \in Nat, NEW f \in [1 .. n -> S]
    PROVE  f \in Seq(S) /\ Len(f) = n
OBVIOUS

\* Sequences over a set are sequences over a larger one.
LEMMA SeqWider ==
    ASSUME NEW S, NEW T, S \subseteq T, NEW s \in Seq(S)
    PROVE  s \in Seq(T)
<1>1. Len(s) \in Nat /\ s \in [1 .. Len(s) -> S]
  BY LenProperties
<1>2. s \in [1 .. Len(s) -> T]
  BY <1>1
<1> QED
  BY <1>1, <1>2, EachTyped

\* The descriptor of a configuration has nine bytes, whatever its total length.
LEMMA ConfigurationLength ==
    ASSUME NEW total, Long(total, Int, 2), NEW n \in Int,
           NEW fields, Long(fields, Int, 4), NEW m \in Nat, NEW body, Long(body, Int, m)
    PROVE  Len(Descriptor(ConfigurationType, total \o <<n>> \o fields) \o body) = 9 + m
<1>0. 3 = 2 + 1 /\ 7 = 3 + 4 /\ 9 = 2 + 7 /\ {1, 2, 3, 4, 7, 9} \subseteq Nat
  OBVIOUS
<1> DEFINE one == <<n>>
<1>1. Long(one, Int, 1)
  BY OneByte
<1> HIDE DEF one
<1> DEFINE three == total \o one
<1>2. Long(three, Int, 3)
  BY <1>0, <1>1, Joined
<1> HIDE DEF three
<1> DEFINE d == three \o fields
<1>3. Long(d, Int, 7)
  BY <1>0, <1>2, Joined
<1> HIDE DEF d
<1> DEFINE head == <<Len(d) + 2, ConfigurationType>>
<1>4. Long(head, Int, 2)
  <2>1. Len(d) + 2 \in Int /\ ConfigurationType \in Int
    BY <1>3 DEF ConfigurationType, Long
  <2> HIDE DEF ConfigurationType
  <2> QED
    BY <2>1, TwoBytes
<1> HIDE DEF head
<1> DEFINE whole == head \o d
<1>5. Long(whole, Int, 9)
  BY <1>0, <1>3, <1>4, Joined
<1> HIDE DEF whole
<1>6. Long(whole \o body, Int, 9 + m)
  BY <1>0, <1>5, Joined
<1> QED
  BY <1>6 DEF whole, head, d, three, one, Descriptor, Long

\* A configuration whose total length encode does not refuse.
LEMMA ConfigurationHeader ==
    ASSUME NEW n \in Nat, n < 256, NEW fields, Long(fields, Byte, 4),
           NEW m \in Nat, NEW body, Long(body, Byte, m),
           Len(Descriptor(ConfigurationType, Le16(9 + m) \o <<n>> \o fields) \o body) < Word
    PROVE  Descriptor(ConfigurationType, Le16(9 + m) \o <<n>> \o fields) \o body \in Seq(Byte)
<1> DEFINE total == Le16(9 + m)
<1>1. 3 = 2 + 1 /\ 7 = 3 + 4 /\ {1, 2, 3, 4, 7} \subseteq Nat /\ 7 <= 253
  OBVIOUS
<1>2. Long(total, Int, 2)
  <2>1. (9 + m) % 256 \in Int /\ (9 + m) \div 256 \in Int
    <3>1. \A a \in Nat : a % 256 \in Int /\ a \div 256 \in Int
      OBVIOUS
    <3>2. 9 + m \in Nat
      OBVIOUS
    <3> QED
      BY <3>1, <3>2, Zenon
  <2> QED
    BY <2>1, TwoBytes DEF Le16
<1>3. ASSUME NEW k, NEW b, Long(b, Byte, k)
      PROVE  Long(b, Int, k)
  <2>1. Byte \subseteq Int
    BY DEF Byte
  <2>2. b \in Seq(Byte) /\ Len(b) = k
    BY <1>3 DEF Long
  <2>3. b \in Seq(Int)
    BY <2>1, <2>2, SeqWider
  <2> QED
    BY <2>2, <2>3 DEF Long
<1>4. Long(fields, Int, 4) /\ Long(body, Int, m)
  BY <1>1, <1>3
<1> HIDE DEF total
<1>5. Len(Descriptor(ConfigurationType, total \o <<n>> \o fields) \o body) = 9 + m
  <2>1. n \in Int
    OBVIOUS
  <2> QED
    BY <1>2, <1>4, <2>1, ConfigurationLength
<1>6. Long(total, Byte, 2)
  <2>1. 9 + m \in Nat /\ 9 + m < Word
    BY <1>5 DEF total
  <2> QED
    BY <2>1, Le16Typed DEF total
<1> DEFINE one == <<n>>
<1>7. Long(one, Byte, 1)
  <2>1. n \in Byte
    BY Small
  <2> QED
    BY <2>1, OneByte
<1> HIDE DEF one
<1> DEFINE three == total \o one
<1>8. Long(three, Byte, 3)
  BY <1>1, <1>6, <1>7, Joined
<1> HIDE DEF three
<1> DEFINE seven == three \o fields
<1>9. Long(seven, Byte, 7)
  BY <1>1, <1>8, Joined
<1> HIDE DEF seven
<1>10. Descriptor(ConfigurationType, seven) \in Seq(Byte)
  <2>1. ConfigurationType \in Byte
    BY Small DEF ConfigurationType
  <2>2. Long(Descriptor(ConfigurationType, seven), Byte, 7 + 2)
    BY <1>1, <1>9, <2>1, DescriptorTyped
  <2> QED
    BY <2>2 DEF Long
<1>11. Descriptor(ConfigurationType, seven) \o body \in Seq(Byte)
  BY <1>10, Chained DEF Long
<1> QED
  BY <1>11 DEF seven, three, one, total

\* ConfigurationBytes: what encode does not refuse is bytes.
LEMMA ConfigurationTyped ==
    ASSUME NEW c \in Configurations, Len(c.interfaces) < 256,
           \A i \in DOMAIN c.interfaces : Len(c.interfaces[i].endpoints) < 256,
           Len(ConfigurationBytes(c)) < Word
    PROVE  ConfigurationBytes(c) \in Seq(Byte)
<1> DEFINE n == Len(c.interfaces)
           each == [i \in DOMAIN c.interfaces |-> InterfaceBytes(c.interfaces[i])]
           body == FlattenSeq(c.extras) \o FlattenSeq(each)
           m == Len(body)
<1>1. c.fields \in Row(4) /\ c.extras \in Seq(Seq(Byte)) /\ c.interfaces \in Seq(Interfaces)
  BY DEF Configurations
<1>2. n \in Nat /\ DOMAIN c.interfaces = 1 .. n
  BY <1>1, LenProperties
<1>3. each \in Seq(Seq(Byte))
  <2> DEFINE B == Seq(Byte)
  <2>1. ASSUME NEW i \in 1 .. n
        PROVE  InterfaceBytes(c.interfaces[i]) \in B
    <3>1. c.interfaces[i] \in Interfaces
      BY <1>1, ElementOfSeq
    <3>2. Len(c.interfaces[i].endpoints) < 256
      BY <1>2
    <3> QED
      BY <3>1, <3>2, InterfaceTyped
  <2>2. each \in [1 .. n -> B]
    <3> HIDE DEF B
    <3> QED
      BY <1>2, <2>1
  <2> HIDE DEF each, n, B
  <2>3. each \in Seq(B)
    BY <1>2, <2>2, EachTyped
  <2> QED
    BY <2>3 DEF B
<1> HIDE DEF each
<1>4. body \in Seq(Byte) /\ m \in Nat
  <2>1. FlattenSeq(c.extras) \in Seq(Byte) /\ FlattenSeq(each) \in Seq(Byte)
    BY <1>1, <1>3, FlattenTyped
  <2> QED
    BY <2>1, Chained
<1> HIDE DEF body
<1>5. Long(body, Byte, m) /\ Long(c.fields, Byte, 4)
  BY <1>1, <1>4 DEF Row, Long
<1>6. ConfigurationBytes(c) =
        Descriptor(ConfigurationType, Le16(9 + m) \o <<n>> \o c.fields) \o body
  BY DEF ConfigurationBytes, each, body
<1>7. n < 256
  OBVIOUS
<1> HIDE DEF m, n
<1> QED
  BY <1>2, <1>4, <1>5, <1>6, <1>7, ConfigurationHeader, Zenon

\* The bytes in front of a report: six of them are bytes of the interface or
\* constants, two its length.
LEMMA SidecarTyped ==
    ASSUME NEW c \in Nat \ {0}, c < 256, NEW interface \in Interfaces,
           \A r \in DOMAIN interface.report : Len(interface.report[r]) < Word
    PROVE  Sidecar(c, interface) \in Seq(Seq(Byte)) /\ Len(Sidecar(c, interface)) <= 1
<1> DEFINE n == Len(interface.report)
           B == Seq(Byte)
<1>1. /\ interface.fields \in Row(6)
      /\ interface.report \in Seq(B) /\ n <= 1
  BY DEF Interfaces
<1>2. n \in Nat /\ DOMAIN interface.report = 1 .. n
  BY <1>1, LenProperties
<1>3. interface.fields[1] \in Byte /\ interface.fields[2] \in Byte
  <2>1. interface.fields \in B /\ Len(interface.fields) = 6
    BY <1>1 DEF Row
  <2>2. 1 \in 1 .. 6 /\ 2 \in 1 .. 6
    OBVIOUS
  <2> QED
    BY <2>1, <2>2, ElementOfSeq
<1>4. c - 1 \in Byte /\ ReportType \in Byte /\ 0 \in Byte
  BY DEF Byte, ReportType
<1> DEFINE front == <<c - 1, interface.fields[1], interface.fields[2], ReportType, 0, 0>>
<1>5. front \in B
  <2>1. ASSUME NEW a1 \in Byte, NEW a2 \in Byte, NEW a3 \in Byte, NEW a4 \in Byte, NEW a5 \in Byte
        PROVE  <<a1, a2, a3, a4, a5, a5>> \in Seq(Byte)
    OBVIOUS
  <2> QED
    BY <1>3, <1>4, <2>1
<1> HIDE DEF front
<1> DEFINE each == [r \in DOMAIN interface.report |->
                      front \o Le16(Len(interface.report[r])) \o interface.report[r]]
<1>6. ASSUME NEW r \in 1 .. n
      PROVE  front \o Le16(Len(interface.report[r])) \o interface.report[r] \in B
  <2> DEFINE report == interface.report[r]
  <2>1. report \in B
    BY <1>1, <1>2, ElementOfSeq
  <2>2. Len(report) \in Nat /\ Len(report) < Word
    BY <1>2, <2>1, LenProperties
  <2> HIDE DEF report
  <2>3. Le16(Len(report)) \in B
    BY <2>2, Le16Typed DEF Long
  <2>4. front \o Le16(Len(report)) \in B
    BY <1>5, <2>3, Chained
  <2>5. front \o Le16(Len(report)) \o report \in B
    BY <2>1, <2>4, Chained
  <2> QED
    BY <2>5 DEF report
<1>7. Sidecar(c, interface) = each
  BY DEF Sidecar, front
<1>8. each \in [1 .. n -> B]
  <2> HIDE DEF B
  <2> QED
    BY <1>2, <1>6
<1> HIDE DEF each, B
<1>9. each \in Seq(B) /\ Len(each) = n
  BY <1>2, <1>8, EachTyped
<1> QED
  BY <1>1, <1>7, <1>9 DEF B

\* Fewer than Word sidecars: one for each interface, and there are no more than a
\* byte can count of configurations and of the interfaces of each.
LEMMA SidecarsTyped ==
    ASSUME NEW s \in DescriptorSets, Encodable(s)
    PROVE  Sidecars(s) \in Seq(Seq(Byte)) /\ Len(Sidecars(s)) \in Nat /\ Len(Sidecars(s)) < Word
<1> DEFINE B == Seq(Byte)
           n == Len(s.configurations)
           Of(c) == LET interfaces == s.configurations[c].interfaces
                    IN  FlattenSeq([i \in DOMAIN interfaces |-> Sidecar(c, interfaces[i])])
           all == [c \in DOMAIN s.configurations |-> Of(c)]
<1>1. s.configurations \in Seq(Configurations) /\ n < 256
  BY DEF DescriptorSets, Encodable
<1>2. n \in Nat /\ DOMAIN s.configurations = 1 .. n
  BY <1>1, LenProperties
<1>3. ASSUME NEW c \in 1 .. n
      PROVE  Of(c) \in Seq(B) /\ Len(Of(c)) \in Nat /\ Len(Of(c)) <= 255
  <2> DEFINE interfaces == s.configurations[c].interfaces
             m == Len(interfaces)
             each == [i \in DOMAIN interfaces |-> Sidecar(c, interfaces[i])]
  <2>1. s.configurations[c] \in Configurations
    BY <1>1, <1>2, ElementOfSeq
  <2>2. interfaces \in Seq(Interfaces)
    BY <2>1 DEF Configurations
  <2>3. m < 256 /\ \A i \in DOMAIN interfaces : \A r \in DOMAIN interfaces[i].report :
                        Len(interfaces[i].report[r]) < Word
    BY <1>2 DEF Encodable, Word
  <2> HIDE DEF interfaces
  <2>4. m \in Nat /\ DOMAIN interfaces = 1 .. m
    BY <2>2, LenProperties
  <2>5. ASSUME NEW i \in 1 .. m
        PROVE  Sidecar(c, interfaces[i]) \in Seq(B) /\ Len(Sidecar(c, interfaces[i])) <= 1
    <3>1. interfaces[i] \in Interfaces
      BY <2>2, <2>4, ElementOfSeq
    <3>2. c \in Nat \ {0} /\ c < 256
      BY <1>1, <1>2
    <3> QED
      BY <2>3, <2>4, <3>1, <3>2, SidecarTyped
  <2> HIDE DEF B
  <2> DEFINE BB == Seq(B)
  <2>6. each \in [1 .. m -> BB] /\ \A i \in 1 .. m : Len(each[i]) <= 1
    <3> HIDE DEF BB
    <3>1. \A i \in 1 .. m : Sidecar(c, interfaces[i]) \in BB
      BY <2>5 DEF BB
    <3> QED
      BY <2>4, <2>5, <3>1
  <2> HIDE DEF each, BB
  <2>7. each \in Seq(BB) /\ Len(each) = m
    BY <2>4, <2>6, EachTyped
  <2>8. Bounded(FlattenSeq(each), B, 1, m)
    BY <2>6, <2>7, FlattenFacts DEF BB
  <2>9. Of(c) = FlattenSeq(each)
    BY DEF each, interfaces
  <2> HIDE DEF Of
  <2>10. Of(c) \in Seq(B) /\ Len(Of(c)) <= 1 * m
    BY <2>8, <2>9 DEF Bounded
  <2>11. Len(Of(c)) \in Nat
    BY <2>10, LenProperties
  <2> HIDE DEF m
  <2>12. 1 * m <= 255
    BY <2>3, <2>4 DEF m
  <2> QED
    BY <2>4, <2>10, <2>11, <2>12
<1> HIDE DEF Of, B
<1> DEFINE BB == Seq(B)
<1>4. all \in [1 .. n -> BB] /\ \A c \in 1 .. n : Len(all[c]) <= 255
  <2>1. \A c \in 1 .. n : Of(c) \in BB
    BY <1>3
  <2> HIDE DEF BB
  <2> QED
    BY <1>2, <1>3, <2>1
<1> HIDE DEF all, BB
<1>5. all \in Seq(BB) /\ Len(all) = n
  BY <1>2, <1>4, EachTyped
<1>6. Bounded(FlattenSeq(all), B, 255, n)
  <2>1. 255 \in Nat
    OBVIOUS
  <2> QED
    BY <1>4, <1>5, <2>1, FlattenFacts DEF BB
<1>7. Sidecars(s) = FlattenSeq(all)
  BY DEF Sidecars, all, Of
<1>8. FlattenSeq(all) \in Seq(B) /\ Len(FlattenSeq(all)) <= 255 * n
  BY <1>6 DEF Bounded
<1>9. Len(FlattenSeq(all)) \in Nat
  BY <1>8, LenProperties
<1>10. 255 * n < Word
  <2> HIDE DEF n
  <2>1. n <= 255
    BY <1>1, <1>2
  <2> QED
    BY <1>2, <2>1 DEF Word
<1> HIDE DEF n
<1>11. Len(FlattenSeq(all)) < Word
  <2>1. 255 * n \in Int /\ Word \in Int
    BY <1>2 DEF Word
  <2> QED
    BY <1>8, <1>9, <1>10, <2>1
<1> QED
  BY <1>7, <1>8, <1>9, <1>11 DEF B

\* Encode: what it does not refuse is bytes.
LEMMA EncodeTyped ==
    ASSUME NEW s \in DescriptorSets, Encodable(s)
    PROVE  Encode(s) \in Seq(Byte)
<1> DEFINE B == Seq(Byte)
           n == Len(s.configurations)
           each == [c \in DOMAIN s.configurations |-> ConfigurationBytes(s.configurations[c])]
           counts == <<Version, n>>
           le == Le16(Len(Sidecars(s)))
<1>1. /\ s.configurations \in Seq(Configurations) /\ n < 256
      /\ s.device \in Seq(Byte) /\ Len(s.device) <= 15
  BY DEF DescriptorSets, Encodable
<1>2. n \in Nat /\ DOMAIN s.configurations = 1 .. n
  BY <1>1, LenProperties
<1>3. n \in Byte
  BY <1>1, <1>2, Small
<1>4. FlattenSeq(each) \in B
  <2>1. ASSUME NEW c \in 1 .. n
        PROVE  ConfigurationBytes(s.configurations[c]) \in B
    <3>1. s.configurations[c] \in Configurations
      BY <1>1, <1>2, ElementOfSeq
    <3>2. /\ Len(s.configurations[c].interfaces) < 256
          /\ \A i \in DOMAIN s.configurations[c].interfaces :
                Len(s.configurations[c].interfaces[i].endpoints) < 256
          /\ Len(ConfigurationBytes(s.configurations[c])) < Word
      BY <1>2 DEF Encodable, Word
    <3> QED
      BY <3>1, <3>2, ConfigurationTyped
  <2>2. each \in [1 .. n -> B]
    <3> HIDE DEF B
    <3> QED
      BY <1>2, <2>1
  <2> HIDE DEF each, B
  <2>3. each \in Seq(B)
    BY <1>2, <2>2, EachTyped
  <2> QED
    BY <2>3, FlattenTyped DEF B
<1>5. DeviceBytes(s) \in B
  <2> DEFINE body == Append(s.device, n)
             m == Len(s.device) + 1
  <2>1. Len(s.device) \in Nat
    BY <1>1, LenProperties
  <2>2. m \in Nat /\ m <= 253
    BY <1>1, <2>1
  <2>3. Long(body, Byte, m)
    BY <1>1, <1>3, AppendProperties DEF Long
  <2>4. DeviceType \in Byte
    BY DEF DeviceType, Byte
  <2> HIDE DEF m
  <2>5. Long(Descriptor(DeviceType, body), Byte, m + 2)
    BY <2>2, <2>3, <2>4, DescriptorTyped
  <2> QED
    BY <2>5 DEF DeviceBytes, Long
<1>6. counts \in B
  <2>1. Version \in Byte
    BY DEF Version, Byte
  <2> QED
    BY <1>3, <2>1, TwoBytes DEF Long
<1>7. le \in B
  BY SidecarsTyped, Le16Typed DEF Long
<1>8. Magic \in B
  <2>1. {87, 68, 69, 83} \subseteq Byte
    BY DEF Byte
  <2>2. ASSUME NEW a1 \in Byte, NEW a2 \in Byte, NEW a3 \in Byte, NEW a4 \in Byte
        PROVE  <<a1, a2, a3, a4>> \in Seq(Byte)
    OBVIOUS
  <2> QED
    BY <2>1, <2>2 DEF Magic
<1>9. FlattenSeq(Sidecars(s)) \in B
  BY SidecarsTyped, FlattenTyped
<1> HIDE DEF each, counts, le
<1>10. Magic \o counts \o le \o DeviceBytes(s) \o FlattenSeq(each) \o FlattenSeq(Sidecars(s)) \in B
  <2>1. Magic \o counts \in B
    BY <1>6, <1>8, Chained
  <2>2. Magic \o counts \o le \in B
    BY <1>7, <2>1, Chained
  <2>3. Magic \o counts \o le \o DeviceBytes(s) \in B
    BY <1>5, <2>2, Chained
  <2>4. Magic \o counts \o le \o DeviceBytes(s) \o FlattenSeq(each) \in B
    BY <1>4, <2>3, Chained
  <2> QED
    BY <1>9, <2>4, Chained
<1> QED
  BY <1>10 DEF Encode, each, counts, le

-----------------------------------------------------------------------------
(* What decode holds is a descriptor set, and so encode can be given it    *)

\* The configuration and the interface that decode has open.
OpenConfigurations ==
    [fields : Row(4), extras : Seq(Seq(Byte)), interfaces : Seq(Interfaces), expected : Byte]

OpenInterfaces ==
    [fields : Row(6), extras : Seq(Seq(Byte)), endpoints : Seq(Row(5)), expected : Byte]

Typed ==
    /\ set \in DescriptorSets
    /\ config \in Seq(OpenConfigurations) /\ Len(config) <= 1
    /\ current \in Seq(OpenInterfaces) /\ Len(current) <= Len(config)
    /\ pc = "body" => Len(config) = 1
    /\ left \in Nat /\ left < Word
    /\ Len(first) <= 1

\* A byte and a part of the payload.
LEMMA FieldTyped ==
    ASSUME WhileDecoding, NEW k \in Nat \ {0}, offset + k <= Len(bytes)
    PROVE  Field(k) \in Byte
<1>1. bytes \in Seq(0 .. 255) /\ offset + k \in 1 .. Len(bytes)
  BY DEF WhileDecoding, WithinPayload
<1>2. bytes[offset + k] \in 0 .. 255
  BY <1>1, ByteRange
<1> QED
  BY <1>2 DEF Field, Byte

\* A part of the payload is a row of bytes.
LEMMA PartTyped ==
    ASSUME WhileDecoding, NEW m \in Nat \ {0}, NEW n \in Nat, m <= n, n <= Len(bytes)
    PROVE  SubSeq(bytes, m, n) \in Seq(Byte) /\ Len(SubSeq(bytes, m, n)) = n - m + 1
<1>1. bytes \in Seq(Byte)
  BY Zenon DEF WhileDecoding, Byte
<1> QED
  BY <1>1, PartOfRow

\* A length read from the payload fits in two bytes.
LEMMA U16Typed ==
    ASSUME WhileDecoding, NEW i \in Nat \ {0}, i + 1 <= Len(bytes)
    PROVE  U16At(i) \in Nat /\ U16At(i) < Word
<1>1. bytes \in Seq(0 .. 255) /\ i \in 1 .. Len(bytes) /\ i + 1 \in 1 .. Len(bytes)
  BY DEF WhileDecoding
<1> DEFINE low == bytes[i]
           high == bytes[i + 1]
<1>2. low \in 0 .. 255 /\ high \in 0 .. 255
  BY <1>1, ByteRange
<1> HIDE DEF low, high
<1>3. low + 256 * high \in Nat /\ low + 256 * high < Word
  BY <1>2 DEF Word
<1> QED
  BY <1>3 DEF U16At, low, high

\* A sequence of one element, and one with an element changed.
LEMMA OneTyped ==
    ASSUME NEW S, NEW a \in S
    PROVE  <<a>> \in Seq(S) /\ Len(<<a>>) = 1
OBVIOUS

\* The first step leaves a set with a device descriptor and nothing open.
LEMMA HeaderTyped ==
    ASSUME WhileDecoding, Typed, DecodeHeader
    PROVE  Typed'
<1>1. Len(bytes) >= 26 /\ Len(bytes) \in Nat
  <2>1. Len(bytes) >= 8 + 18
    BY DEF DecodeHeader, HeaderFits
  <2>2. Len(bytes) \in Nat
    BY DEF WhileDecoding
  <2> QED
    BY <2>1, <2>2
<1>2. set' \in DescriptorSets
  <2> DEFINE device == SubSeq(bytes, 11, 25)
  <2>1. device \in Seq(Byte) /\ Len(device) = 25 - 11 + 1
    <3>1. 11 \in Nat \ {0} /\ 25 \in Nat /\ 11 <= 25 /\ 25 <= Len(bytes)
      BY <1>1
    <3> QED
      BY <3>1, PartTyped, Zenon
  <2>2. <<>> \in Seq(Configurations)
    OBVIOUS
  <2>3. set' = [device |-> device, configurations |-> <<>>]
    BY DEF DecodeHeader
  <2> HIDE DEF device
  <2>4. Len(device) <= 15
    BY <2>1
  <2> QED
    BY <2>1, <2>2, <2>3, <2>4 DEF DescriptorSets
<1>3. left' \in Nat /\ left' < Word
  <2>1. bytes[6] \in 0 .. 255
    BY <1>1, ByteRange DEF WhileDecoding
  <2>2. left' = bytes[6]
    BY DEF DecodeHeader
  <2> QED
    BY <2>1, <2>2 DEF Word
<1>4. config' = config /\ current' = current /\ first' = first /\ pc' # "body"
  BY DEF DecodeHeader
<1> QED
  BY <1>2, <1>3, <1>4 DEF Typed

\* A configuration that is opened is one.
LEMMA OpenTyped ==
    ASSUME WhileDecoding, Typed, OpenConfiguration
    PROVE  Typed'
<1>1. offset \in Nat /\ offset + 9 <= Len(bytes) /\ Len(bytes) \in Nat
  BY DEF OpenConfiguration, ConfigurationFits, WhileDecoding, WithinPayload
<1> DEFINE fields == SubSeq(bytes, offset + 6, offset + 9)
           open == [fields |-> fields, extras |-> <<>>, interfaces |-> <<>>,
                    expected |-> Field(5)]
<1>2. fields \in Row(4)
  <2>1. fields \in Seq(Byte) /\ Len(fields) = (offset + 9) - (offset + 6) + 1
    BY <1>1, PartTyped
  <2> HIDE DEF fields
  <2>2. Len(fields) = 4
    BY <1>1, <2>1
  <2> QED
    BY <2>1, <2>2 DEF Row
<1>3. Field(5) \in Byte
  BY <1>1, FieldTyped
<1> HIDE DEF fields
<1>4. open \in OpenConfigurations
  <2>1. <<>> \in Seq(Seq(Byte)) /\ <<>> \in Seq(Interfaces)
    OBVIOUS
  <2> QED
    BY <1>2, <1>3, <2>1 DEF OpenConfigurations
<1>5. config' = <<open>>
  BY DEF OpenConfiguration, fields
<1> HIDE DEF open
<1>6. config' \in Seq(OpenConfigurations) /\ Len(config') = 1
  BY <1>4, <1>5, OneTyped
<1>7. /\ set' = set /\ current' = current /\ first' = first
      /\ left > 0 /\ left' = left - 1
  BY DEF OpenConfiguration
<1>8. Len(current') <= 1
  <2>1. Len(current) \in Nat /\ Len(config) \in Nat
    BY LenProperties DEF Typed
  <2> QED
    BY <1>7, <2>1 DEF Typed
<1>9. left' \in Nat /\ left' < Word
  BY <1>7 DEF Typed, Word
<1> QED
  BY <1>6, <1>7, <1>8, <1>9 DEF Typed

\* The open configuration, and an interface if one is open.
LEMMA OpenOnes ==
    ASSUME Typed, pc = "body"
    PROVE  /\ config[1] \in OpenConfigurations
           /\ Len(current) \in Nat /\ DOMAIN current = 1 .. Len(current) /\ Len(current) <= 1
           /\ \A i \in 1 .. Len(current) : current[i] \in OpenInterfaces
<1>1. config \in Seq(OpenConfigurations) /\ Len(config) = 1
  BY DEF Typed
<1>2. config[1] \in OpenConfigurations
  <2>1. 1 \in 1 .. 1
    OBVIOUS
  <2> QED
    BY <1>1, <2>1, ElementOfSeq
<1>3. current \in Seq(OpenInterfaces) /\ Len(current) <= 1
  BY <1>1 DEF Typed
<1> QED
  BY <1>2, <1>3, ElementOfSeq, LenProperties

\* Closed: the interfaces of the configuration, the open one among them.
LEMMA ClosedTyped ==
    ASSUME Typed, pc = "body"
    PROVE  Closed \in Seq(Interfaces)
<1> DEFINE n == Len(current)
           of(i) == [fields |-> current[i].fields, extras |-> current[i].extras,
                     endpoints |-> current[i].endpoints, report |-> <<>>]
           closed == [i \in DOMAIN current |-> of(i)]
<1>1. n \in Nat /\ DOMAIN current = 1 .. n
  BY OpenOnes
<1>2. ASSUME NEW i \in 1 .. n
      PROVE  of(i) \in Interfaces
  <2>1. current[i] \in OpenInterfaces
    BY OpenOnes
  <2>2. <<>> \in {r \in Seq(Seq(Byte)) : Len(r) <= 1}
    OBVIOUS
  <2> QED
    BY <2>1, <2>2 DEF OpenInterfaces, Interfaces
<1> HIDE DEF n, of
<1>3. closed \in [1 .. n -> Interfaces]
  BY <1>1, <1>2
<1> HIDE DEF closed
<1>4. closed \in Seq(Interfaces)
  BY <1>1, <1>3, EachTyped
<1>5. config[1].interfaces \in Seq(Interfaces)
  BY OpenOnes DEF OpenConfigurations
<1>6. config[1].interfaces \o closed \in Seq(Interfaces)
  BY <1>4, <1>5, Chained
<1> QED
  BY <1>6 DEF Closed, closed, of

\* TakesDescriptor: the body goes on, and the descriptor lies within the payload.
LEMMA TakesTyped ==
    ASSUME WhileDecoding, Typed, NEW type, TakesDescriptor(type)
    PROVE  /\ pc = "body" /\ pc' = "body" /\ set' = set /\ left' = left /\ first' = first
           /\ offset \in Nat /\ Field(1) \in Nat /\ Field(1) >= 2
           /\ offset + Field(1) <= Len(bytes) /\ Len(bytes) \in Nat
<1>1. /\ offset \in Nat /\ bodyEnd <= Len(bytes) /\ bodyEnd \in Nat /\ Len(bytes) \in Nat
      /\ offset + 2 <= bodyEnd /\ Field(1) >= 2 /\ offset + Field(1) <= bodyEnd
  BY DEF TakesDescriptor, DescriptorFits, LengthFits, WhileDecoding, WithinPayload
<1>2. Field(1) \in Nat
  <2>1. Field(1) \in Byte
    <3>1. offset + 1 <= Len(bytes)
      BY <1>1
    <3> QED
      BY <3>1, FieldTyped
  <2> QED
    BY <2>1 DEF Byte
<1>3. pc = "body" /\ pc' = "body" /\ set' = set /\ left' = left /\ first' = first
  BY DEF TakesDescriptor
<1> HIDE DEF Field
<1>4. offset + Field(1) <= Len(bytes)
  BY <1>1, <1>2
<1> QED
  BY <1>1, <1>2, <1>3, <1>4

\* The invariant, after a step within the body.
LEMMA BodyTyped ==
    ASSUME Typed, pc = "body", set' = set, left' = left, first' = first,
           config' \in Seq(OpenConfigurations), Len(config') = 1,
           current' \in Seq(OpenInterfaces), Len(current') <= 1
    PROVE  Typed'
BY DEF Typed

\* So is an interface, and the one before it is closed as an interface.
LEMMA InterfaceStepTyped ==
    ASSUME WhileDecoding, Typed, TakeInterface
    PROVE  Typed'
<1>1. TakesDescriptor({InterfaceType})
  BY DEF TakeInterface
<1>2. Field(1) = 9
  BY <1>1 DEF TakesDescriptor, DescriptorFits
<1>3. offset \in Nat /\ offset + 9 <= Len(bytes) /\ Len(bytes) \in Nat
  BY <1>1, <1>2, TakesTyped
<1> DEFINE tail == SubSeq(bytes, offset + 6, offset + 9)
           head == <<Field(3), Field(4)>>
           open == [fields |-> head \o tail, extras |-> <<>>, endpoints |-> <<>>,
                    expected |-> Field(5)]
           other == [config[1] EXCEPT !.interfaces = Closed]
<1>4. head \o tail \in Row(6)
  <2>1. Long(tail, Byte, 4)
    <3>1. tail \in Seq(Byte) /\ Len(tail) = (offset + 9) - (offset + 6) + 1
      BY <1>3, PartTyped
    <3> HIDE DEF tail
    <3>2. Len(tail) = 4
      BY <1>3, <3>1
    <3> QED
      BY <3>1, <3>2 DEF Long
  <2>2. Long(head, Byte, 2)
    <3>1. Field(3) \in Byte /\ Field(4) \in Byte
      BY <1>3, FieldTyped
    <3> QED
      BY <3>1, TwoBytes
  <2>3. 6 = 2 + 4 /\ {2, 4, 6} \subseteq Nat
    OBVIOUS
  <2> HIDE DEF head, tail
  <2>4. Long(head \o tail, Byte, 6)
    BY <2>1, <2>2, <2>3, Joined
  <2> QED
    BY <2>4 DEF Long, Row
<1>5. Field(5) \in Byte
  BY <1>3, FieldTyped
<1> HIDE DEF head, tail
<1>6. open \in OpenInterfaces
  <2>1. <<>> \in Seq(Seq(Byte)) /\ <<>> \in Seq(Row(5))
    OBVIOUS
  <2> QED
    BY <1>4, <1>5, <2>1 DEF OpenInterfaces
<1>7. other \in OpenConfigurations
  BY <1>1, TakesTyped, OpenOnes, ClosedTyped DEF OpenConfigurations
<1>8. config' = <<other>> /\ current' = <<open>>
  BY DEF TakeInterface, head, tail
<1> HIDE DEF other, open
<1>9. /\ config' \in Seq(OpenConfigurations) /\ Len(config') = 1
      /\ current' \in Seq(OpenInterfaces) /\ Len(current') = 1
  BY <1>6, <1>7, <1>8, OneTyped
<1> QED
  BY <1>1, <1>9, TakesTyped, BodyTyped

\* An endpoint is taken only while an interface is open.
LEMMA EndpointStepTyped ==
    ASSUME WhileDecoding, Typed, TakeEndpoint
    PROVE  Typed'
<1>1. TakesDescriptor({EndpointType})
  BY DEF TakeEndpoint
<1>2. Field(1) = 7 /\ current # <<>>
  BY <1>1 DEF TakesDescriptor, DescriptorFits
<1>3. offset \in Nat /\ offset + 7 <= Len(bytes) /\ Len(bytes) \in Nat
  BY <1>1, <1>2, TakesTyped
<1> DEFINE endpoint == SubSeq(bytes, offset + 3, offset + 7)
           open == [current[1] EXCEPT !.endpoints = Append(@, endpoint)]
<1>4. endpoint \in Row(5)
  <2>1. endpoint \in Seq(Byte) /\ Len(endpoint) = (offset + 7) - (offset + 3) + 1
    BY <1>3, PartTyped
  <2> HIDE DEF endpoint
  <2>2. Len(endpoint) = 5
    BY <1>3, <2>1
  <2> QED
    BY <2>1, <2>2 DEF Row
<1> HIDE DEF endpoint
<1>5. current[1] \in OpenInterfaces
  <2>1. Len(current) # 0
    BY <1>2, EmptySeq DEF Typed
  <2>2. 1 \in 1 .. Len(current)
    BY <1>1, <2>1, TakesTyped, OpenOnes
  <2> QED
    BY <1>1, <2>2, TakesTyped, OpenOnes
<1>6. open \in OpenInterfaces
  <2>1. current[1].endpoints \in Seq(Row(5))
    BY <1>5 DEF OpenInterfaces
  <2>2. Append(current[1].endpoints, endpoint) \in Seq(Row(5))
    BY <1>4, <2>1, AppendProperties
  <2> QED
    BY <1>5, <2>2 DEF OpenInterfaces
<1>7. current' = <<open>> /\ config' = config
  BY DEF TakeEndpoint, endpoint
<1> HIDE DEF open
<1>8. current' \in Seq(OpenInterfaces) /\ Len(current') = 1
  BY <1>6, <1>7, OneTyped
<1>9. config' \in Seq(OpenConfigurations) /\ Len(config') = 1
  BY <1>1, <1>7, TakesTyped DEF Typed
<1> QED
  BY <1>1, <1>8, <1>9, TakesTyped, BodyTyped

\* An extra descriptor goes to the interface that is open, or to the
\* configuration.
LEMMA ExtraStepTyped ==
    ASSUME WhileDecoding, Typed, TakeExtra
    PROVE  Typed'
<1> DEFINE type == (0 .. 255) \ {InterfaceType, EndpointType}
           extra == SubSeq(bytes, offset + 1, offset + Field(1))
<1>1. TakesDescriptor(type)
  BY DEF TakeExtra
<1> HIDE DEF type
<1>2. extra \in Seq(Byte)
  <2> DEFINE size == Field(1)
  <2>1. /\ offset \in Nat /\ size \in Nat /\ size >= 2
        /\ offset + size <= Len(bytes)
    BY <1>1, TakesTyped
  <2> HIDE DEF size
  <2>2. /\ offset + 1 \in Nat \ {0} /\ offset + size \in Nat
        /\ offset + 1 <= offset + size
    BY <2>1
  <2>3. SubSeq(bytes, offset + 1, offset + size) \in Seq(Byte)
    BY <2>1, <2>2, PartTyped
  <2> QED
    BY <2>3 DEF size
<1>3. CASE current = <<>>
  <2> DEFINE open == [config[1] EXCEPT !.extras = Append(@, extra)]
  <2>1. config' = <<open>> /\ current' = current
    BY <1>3 DEF TakeExtra
  <2>2. config[1] \in OpenConfigurations
    BY <1>1, TakesTyped, OpenOnes
  <2> HIDE DEF extra
  <2>3. open \in OpenConfigurations
    <3>1. config[1].extras \in Seq(Seq(Byte))
      BY <2>2 DEF OpenConfigurations
    <3>2. Append(config[1].extras, extra) \in Seq(Seq(Byte))
      BY <1>2, <3>1, AppendProperties
    <3> QED
      BY <2>2, <3>2 DEF OpenConfigurations
  <2> HIDE DEF open
  <2>4. config' \in Seq(OpenConfigurations) /\ Len(config') = 1
    BY <2>1, <2>3, OneTyped
  <2>5. current' \in Seq(OpenInterfaces) /\ Len(current') <= 1
    BY <1>1, <2>1, TakesTyped DEF Typed
  <2> QED
    BY <1>1, <2>4, <2>5, TakesTyped, BodyTyped
<1>4. CASE current # <<>>
  <2> DEFINE open == [current[1] EXCEPT !.extras = Append(@, extra)]
  <2>1. current' = <<open>> /\ config' = config
    BY <1>4 DEF TakeExtra
  <2>2. current[1] \in OpenInterfaces
    <3>1. Len(current) # 0
      BY <1>4, EmptySeq DEF Typed
    <3>2. 1 \in 1 .. Len(current)
      BY <1>1, <3>1, TakesTyped, OpenOnes
    <3> QED
      BY <1>1, <3>2, TakesTyped, OpenOnes
  <2> HIDE DEF extra
  <2>3. open \in OpenInterfaces
    <3>1. current[1].extras \in Seq(Seq(Byte))
      BY <2>2 DEF OpenInterfaces
    <3>2. Append(current[1].extras, extra) \in Seq(Seq(Byte))
      BY <1>2, <3>1, AppendProperties
    <3> QED
      BY <2>2, <3>2 DEF OpenInterfaces
  <2> HIDE DEF open
  <2>4. current' \in Seq(OpenInterfaces) /\ Len(current') = 1
    BY <2>1, <2>3, OneTyped
  <2>5. config' \in Seq(OpenConfigurations) /\ Len(config') = 1
    BY <1>1, <2>1, TakesTyped DEF Typed
  <2> QED
    BY <1>1, <2>4, <2>5, TakesTyped, BodyTyped
<1> QED
  BY <1>3, <1>4

\* CloseConfiguration: the configuration joins the set.
LEMMA CloseTyped ==
    ASSUME WhileDecoding, Typed, CloseConfiguration
    PROVE  Typed'
<1> DEFINE closed == [fields |-> config[1].fields, extras |-> config[1].extras,
                      interfaces |-> Closed]
           all == Append(set.configurations, closed)
<1>1. pc = "body" /\ pc' # "body"
  BY DEF CloseConfiguration
<1>2. closed \in Configurations
  BY <1>1, OpenOnes, ClosedTyped DEF OpenConfigurations, Configurations
<1>3. set' = [set EXCEPT !.configurations = all]
  BY DEF CloseConfiguration
<1> HIDE DEF closed
<1>4. all \in Seq(Configurations)
  <2>1. set.configurations \in Seq(Configurations)
    BY DEF Typed, DescriptorSets
  <2> QED
    BY <1>2, <2>1, AppendProperties
<1> HIDE DEF all
<1>5. set' \in DescriptorSets
  BY <1>3, <1>4 DEF Typed, DescriptorSets
<1>6. config' = <<>> /\ current' = <<>> /\ left' = left /\ first' = first
  BY DEF CloseConfiguration
<1>7. /\ config' \in Seq(OpenConfigurations) /\ current' \in Seq(OpenInterfaces)
      /\ Len(config') = 0 /\ Len(current') = 0
  BY <1>6
<1> QED
  BY <1>1, <1>5, <1>6, <1>7 DEF Typed

\* ConfigurationsEnd: the number of sidecars has two bytes.  The payload has a
\* header: decode is beyond it.
LEMMA EndTyped ==
    ASSUME WhileDecoding, Typed, ConfigurationsEnd, Len(bytes) >= 26
    PROVE  Typed'
<1>1. left' = U16At(7) /\ pc' # "body"
  BY DEF ConfigurationsEnd
<1>2. U16At(7) \in Nat /\ U16At(7) < Word
  <2>1. 7 \in Nat \ {0} /\ 7 + 1 <= Len(bytes)
    BY DEF WhileDecoding
  <2> QED
    BY <2>1, U16Typed
<1>3. set' = set /\ config' = config /\ current' = current /\ first' = first
  BY DEF ConfigurationsEnd
<1> QED
  BY <1>1, <1>2, <1>3 DEF Typed

\* TakeSidecar: one interface of one configuration gets the report.
LEMMA ReportTyped ==
    ASSUME WhileDecoding, Typed, TakeSidecar
    PROVE  Typed'
<1> DEFINE size == U16At(offset + 7)
           end == offset + 8 + size
           report == << SubSeq(bytes, offset + 9, end) >>
           c == Field(1) + 1
           t == Target
           Of(interface) == [interface EXCEPT !.report = report]
           With(configuration) == [configuration EXCEPT !.interfaces =
                                     [configuration.interfaces EXCEPT
                                       ![t] = Of(configuration.interfaces[t])]]
           old == set.configurations
           new == [old EXCEPT ![c] = With(old[c])]
<1>1. set' = [set EXCEPT !.configurations = new]
  BY DEF TakeSidecar
<1>2. report \in {r \in Seq(Seq(Byte)) : Len(r) <= 1}
  <2>1. offset \in Nat /\ offset + 8 <= Len(bytes) /\ end <= Len(bytes) /\ Len(bytes) \in Nat
    BY DEF TakeSidecar, SidecarFits, WhileDecoding, WithinPayload
  <2>2. size \in Nat
    <3>1. offset + 7 \in Nat \ {0} /\ (offset + 7) + 1 <= Len(bytes)
      BY <2>1
    <3> QED
      BY <3>1, U16Typed
  <2>3. SubSeq(bytes, offset + 9, end) \in Seq(Byte)
    <3>1. CASE size = 0
      <4>1. offset + 9 > end
        BY <2>1, <3>1
      <4>2. SubSeq(bytes, offset + 9, end) = <<>>
        BY <2>1, <4>1, <3>1 DEF WhileDecoding
      <4>3. <<>> \in Seq(Byte)
        OBVIOUS
      <4> QED
        BY <4>2, <4>3, Zenon
    <3>2. CASE size # 0
      <4>1. offset + 9 \in Nat \ {0} /\ end \in Nat /\ offset + 9 <= end
        BY <2>1, <2>2, <3>2
      <4> HIDE DEF end
      <4> QED
        BY <2>1, <4>1, PartTyped
    <3> QED
      BY <3>1, <3>2
  <2> DEFINE part == SubSeq(bytes, offset + 9, end)
             B == Seq(Byte)
  <2> HIDE DEF part, B
  <2>4. <<part>> \in Seq(B) /\ Len(<<part>>) = 1
    BY <2>3, OneTyped DEF part, B
  <2> QED
    BY <2>4 DEF part, B
<1> HIDE DEF report, c, t
<1>3. \A interface \in Interfaces : Of(interface) \in Interfaces
  BY <1>2 DEF Interfaces
<1> HIDE DEF Of
<1>4. ASSUME NEW configuration \in Configurations
      PROVE  With(configuration) \in Configurations
  <2> DEFINE s == configuration.interfaces
             u == [s EXCEPT ![t] = Of(s[t])]
  <2>1. s \in Seq(Interfaces)
    BY DEF Configurations
  <2>2. u \in Seq(Interfaces)
    <3> HIDE DEF s
    <3>1. Len(s) \in Nat /\ DOMAIN s = 1 .. Len(s)
      BY <2>1, LenProperties
    <3>2. \A i \in 1 .. Len(s) : u[i] \in Interfaces
      BY <1>3, <2>1, <3>1, ElementOfSeq
    <3>3. u \in [1 .. Len(s) -> Interfaces]
      BY <3>1, <3>2
    <3> HIDE DEF u
    <3> QED
      BY <3>1, <3>3, EachTyped
  <2>3. With(configuration) = [configuration EXCEPT !.interfaces = u]
    OBVIOUS
  <2> HIDE DEF u, With
  <2> QED
    BY <2>2, <2>3 DEF Configurations
<1> HIDE DEF With
<1>5. old \in Seq(Configurations)
  BY DEF Typed, DescriptorSets
<1> HIDE DEF old
<1>6. new \in Seq(Configurations)
  <2>1. Len(old) \in Nat /\ DOMAIN old = 1 .. Len(old)
    BY <1>5, LenProperties
  <2>2. \A i \in 1 .. Len(old) : new[i] \in Configurations
    BY <1>4, <1>5, <2>1, ElementOfSeq
  <2>3. new \in [1 .. Len(old) -> Configurations]
    BY <2>1, <2>2
  <2> HIDE DEF new
  <2> QED
    BY <2>1, <2>3, EachTyped
<1> HIDE DEF new
<1>7. set' \in DescriptorSets
  BY <1>1, <1>6 DEF Typed, DescriptorSets
<1>8. /\ pc = "sidecars" /\ pc' = pc /\ left > 0 /\ left' = left - 1
      /\ config' = config /\ current' = current /\ first' = first
  BY DEF TakeSidecar
<1>9. left' \in Nat /\ left' < Word
  BY <1>8 DEF Typed, Word
<1> QED
  BY <1>7, <1>8, <1>9 DEF Typed

\* Beyond the header there is one.
HasHeader == pc \notin {"header", "done"} => Len(bytes) >= 26

TypeInv == WhileDecoding /\ Typed /\ HasHeader

\* Init: what arrived is bytes, and nothing has been decoded.
LEMMA InitTypeInv == Init => TypeInv
<1> SUFFICES ASSUME Init
             PROVE  TypeInv
  OBVIOUS
<1>1. first = <<>> /\ pc = "header"
  BY DEF Init
<1>2. WhileDecoding
  BY InitWhileDecoding
<1>3. set \in DescriptorSets
  <2>1. set = [device |-> <<>>, configurations |-> <<>>]
    BY DEF Init
  <2>2. <<>> \in Seq(Byte) /\ Len(<<>>) <= 15 /\ <<>> \in Seq(Configurations)
    OBVIOUS
  <2> QED
    BY <2>1, <2>2 DEF DescriptorSets
<1>4. config = <<>> /\ current = <<>> /\ left = 0
  BY DEF Init
<1>5. /\ config \in Seq(OpenConfigurations) /\ current \in Seq(OpenInterfaces)
      /\ Len(config) = 0 /\ Len(current) = 0 /\ Len(first) = 0
  BY <1>1, <1>4
<1> QED
  BY <1>1, <1>2, <1>3, <1>4, <1>5 DEF TypeInv, Typed, HasHeader, Word

\* Each step of decode keeps what it holds a descriptor set.
LEMMA DecodeTyped ==
    ASSUME TypeInv, Decode
    PROVE  TypeInv'
<1>1. WhileDecoding'
  BY DecodeStep DEF TypeInv
<1>2. CASE DecodeHeader
  <2>1. Typed'
    BY <1>2, HeaderTyped DEF TypeInv
  <2>2. bytes' = bytes /\ Len(bytes) >= 8 + 18 /\ Len(bytes) \in Nat
    BY <1>2 DEF DecodeHeader, HeaderFits, TypeInv, WhileDecoding
  <2>3. Len(bytes) >= 26
    BY <2>2
  <2> QED
    BY <1>1, <2>1, <2>2, <2>3 DEF TypeInv, HasHeader
<1>3. CASE RejectHeader \/ RejectConfiguration \/ RejectDescriptor \/ RejectBody \/ RejectSidecar
  <2>1. /\ pc' = "done" /\ bytes' = bytes /\ set' = set /\ first' = first
        /\ config' = config /\ current' = current /\ left' = left
    BY <1>3 DEF RejectHeader, RejectConfiguration, RejectDescriptor, RejectBody,
                RejectSidecar, Reject, parser
  <2> QED
    BY <1>1, <2>1 DEF TypeInv, Typed, HasHeader
<1>4. CASE OpenConfiguration
  <2>1. Typed'
    BY <1>4, OpenTyped DEF TypeInv
  <2>2. bytes' = bytes /\ pc = "configurations"
    BY <1>4 DEF OpenConfiguration
  <2> QED
    BY <1>1, <2>1, <2>2 DEF TypeInv, HasHeader
<1>5. CASE TakeInterface \/ TakeEndpoint \/ TakeExtra
  <2>1. Typed'
    BY <1>5, InterfaceStepTyped, EndpointStepTyped, ExtraStepTyped DEF TypeInv
  <2>2. bytes' = bytes /\ pc' = pc
    BY <1>5 DEF TakeInterface, TakeEndpoint, TakeExtra, TakesDescriptor
  <2> QED
    BY <1>1, <2>1, <2>2 DEF TypeInv, HasHeader
<1>6. CASE CloseConfiguration
  <2>1. Typed'
    BY <1>6, CloseTyped DEF TypeInv
  <2>2. bytes' = bytes /\ pc = "body"
    BY <1>6 DEF CloseConfiguration
  <2> QED
    BY <1>1, <2>1, <2>2 DEF TypeInv, HasHeader
<1>7. CASE ConfigurationsEnd
  <2>1. bytes' = bytes /\ pc = "configurations"
    BY <1>7 DEF ConfigurationsEnd
  <2>2. Len(bytes) >= 26
    BY <2>1 DEF TypeInv, HasHeader
  <2>3. Typed'
    BY <1>7, <2>2, EndTyped DEF TypeInv
  <2> QED
    BY <1>1, <2>1, <2>2, <2>3 DEF TypeInv, HasHeader
<1>8. CASE TakeSidecar
  <2>1. Typed'
    BY <1>8, ReportTyped DEF TypeInv
  <2>2. bytes' = bytes /\ pc' = pc
    BY <1>8 DEF TakeSidecar
  <2> QED
    BY <1>1, <2>1, <2>2 DEF TypeInv, HasHeader
<1>9. CASE Accept
  <2>1. /\ pc' = "done" /\ bytes' = bytes /\ set' = set /\ first' = first
        /\ config' = config /\ current' = current /\ left' = left
    BY <1>9 DEF Accept, parser
  <2> QED
    BY <1>1, <2>1 DEF TypeInv, Typed, HasHeader
<1> QED
  BY <1>2, <1>3, <1>4, <1>5, <1>6, <1>7, <1>8, <1>9 DEF Decode

\* Again: what is decoded next is bytes, whatever set was accepted.
LEMMA AgainTyped ==
    ASSUME TypeInv, Again
    PROVE  TypeInv'
<1>1. /\ pc' = "header" /\ offset' = 0 /\ accepted' = FALSE /\ first' = <<set>>
      /\ set' = set /\ config' = config /\ current' = current /\ left' = left
      /\ bodyEnd' = bodyEnd
      /\ bytes' = IF Encodable(set) THEN Encode(set) ELSE <<>>
  BY DEF Again, parser
<1>2. bytes' \in Seq(Byte)
  <2>1. CASE Encodable(set)
    BY <1>1, <2>1, EncodeTyped DEF TypeInv, Typed
  <2>2. CASE ~Encodable(set)
    <3>1. <<>> \in Seq(Byte)
      OBVIOUS
    <3> QED
      BY <1>1, <2>2, <3>1, Zenon
  <2> QED
    BY <2>1, <2>2
<1>3. Len(bytes') \in Nat
  BY <1>2, LenProperties
<1>4. WhileDecoding'
  <2>1. accepted' \in BOOLEAN /\ ~accepted'
    BY <1>1
  <2>2. /\ bytes' \in Seq(0 .. 255) /\ pc' \in Parts /\ bodyEnd' \in Nat
        /\ offset' \in 0 .. Len(bytes')
    BY <1>1, <1>2, <1>3 DEF TypeInv, WhileDecoding, Parts, Byte
  <2>3. pc' # "body"
    BY <1>1
  <2> QED
    BY <2>1, <2>2, <2>3 DEF WhileDecoding, WithinPayload
<1>5. Len(first') = 1
  BY <1>1
<1> QED
  BY <1>1, <1>4, <1>5 DEF TypeInv, Typed, HasHeader

\* Every step keeps the types, and stays within the payload.
LEMMA NextTypeInv == TypeInv /\ [Next]_vars => TypeInv'
<1> SUFFICES ASSUME TypeInv, [Next]_vars
             PROVE  TypeInv'
  OBVIOUS
<1>1. CASE Decode
  BY <1>1, DecodeTyped
<1>2. CASE Again
  BY <1>2, AgainTyped
<1>3. CASE UNCHANGED vars
  BY <1>3 DEF vars, parser, TypeInv, WhileDecoding, WithinPayload, Typed, HasHeader
<1> QED
  BY <1>1, <1>2, <1>3 DEF Next

-----------------------------------------------------------------------------
(* Sequences one behind the other                                          *)

\* Induction over sequences, on a set of sequences.
LEMMA GrowingInduction ==
    ASSUME NEW S, NEW T, <<>> \in T, \A s \in Seq(S), e \in S : s \in T => Append(s, e) \in T
    PROVE  Seq(S) \subseteq T
<1> DEFINE N == {n \in Nat : \A s \in Seq(S) : Len(s) = n => s \in T}
<1>1. 0 \in N
  <2>1. ASSUME NEW s \in Seq(S), Len(s) = 0
        PROVE  s \in T
    BY <2>1, EmptySeq
  <2> QED
    BY <2>1
<1>2. ASSUME NEW n \in Nat, n \in N
      PROVE  n + 1 \in N
  <2>1. ASSUME NEW s \in Seq(S), Len(s) = n + 1
        PROVE  s \in T
    <3>1. s # <<>>
      BY <2>1, EmptySeq
    <3>2. PICK u \in Seq(S), e \in S : s = Append(u, e)
      BY <3>1, SequenceEmptyOrAppend
    <3>3. Len(u) \in Nat /\ Len(s) = Len(u) + 1
      BY <3>2, AppendProperties, LenProperties
    <3>4. Len(u) = n
      BY <2>1, <3>3
    <3>5. u \in T
      BY <1>2, <3>4
    <3> QED
      BY <3>2, <3>5
  <2>2. n + 1 \in Nat
    OBVIOUS
  <2> QED
    BY <2>1, <2>2
<1> HIDE DEF N
<1>3. Nat \subseteq N
  BY <1>1, <1>2, SetInduction
<1>4. \A s \in Seq(S) : Len(s) \in N
  BY <1>3, LenProperties
<1> QED
  BY <1>4 DEF N

\* The first m elements of s and t are the same.
Alike(s, t, m) == \A i \in 1 .. m : s[i] = t[i]

\* What the first sequences are, one behind the other, does not depend on the others.
LEMMA FlattensAlike ==
    ASSUME NEW s, NEW t, NEW m \in Nat, NEW n \in Nat, m <= n, Alike(s, t, m),
           NEW g, FlattensTo(s, m, g), NEW h, FlattensTo(t, n, h)
    PROVE  Alike(g, h, m)
<1> DEFINE T == {k \in Nat : k \in 1 .. m => g[k] = h[k]}
<1>1. 0 \in T
  OBVIOUS
<1>2. ASSUME NEW k \in Nat, k \in T
      PROVE  k + 1 \in T
  <2> SUFFICES ASSUME NEW l, l = k + 1, l \in 1 .. m
               PROVE  g[l] = h[l]
    OBVIOUS
  <2>0. l \in 1 .. m /\ l \in 1 .. n
    OBVIOUS
  <2>1. g[l] = IF l = 1 THEN s[l] ELSE g[l - 1] \o s[l]
    BY <2>0 DEF FlattensTo
  <2>2. h[l] = IF l = 1 THEN t[l] ELSE h[l - 1] \o t[l]
    BY <2>0 DEF FlattensTo
  <2>3. l # 1 => g[l - 1] = h[l - 1]
    BY <1>2
  <2>4. s[l] = t[l]
    BY DEF Alike
  <2> QED
    BY <2>1, <2>2, <2>3, <2>4
<1> HIDE DEF T
<1>3. Nat \subseteq T
  BY <1>1, <1>2, SetInduction
<1>4. \A i \in 1 .. m : i \in T
  BY <1>3
<1> QED
  BY <1>4 DEF T, Alike

\* FlattenSeq, of a sequence that is not empty.
LEMMA FlattenLast ==
    ASSUME NEW S, NEW s \in Seq(S), s # <<>>, NEW g, FlattensTo(s, Len(s), g)
    PROVE  FlattenSeq(s) = g[Len(s)]
<1> DEFINE L == Len(s)
           flat == CHOOSE f : f = [i \in 1 .. L |-> IF i = 1 THEN s[i] ELSE f[i - 1] \o s[i]]
<1>1. L \in Nat \ {0}
  BY EmptySeq
<1>2. FlattenSeq(s) = flat[L]
  BY <1>1 DEF FlattenSeq
<1>3. FlattensTo(s, L, flat)
  <2>1. \E f : FlattensTo(s, L, f)
    BY <1>1, FlattensExist
  <2> QED
    BY <2>1 DEF FlattensTo
<1> HIDE DEF flat
<1>4. L \in Nat /\ L <= L /\ L \in 1 .. L /\ FlattensTo(s, L, g)
  BY <1>1
<1>5. Alike(s, s, L)
  BY DEF Alike
<1> HIDE DEF L
<1>6. Alike(flat, g, L)
  BY <1>3, <1>4, <1>5, FlattensAlike
<1> QED
  BY <1>2, <1>4, <1>6 DEF L, Alike

\* Flattening, over no sequences and over one.
LEMMA FlattenEmpty == FlattenSeq(<<>>) = <<>>
<1>1. Len(<<>>) = 0
  OBVIOUS
<1> QED
  BY <1>1 DEF FlattenSeq

\* The same, over one.
LEMMA FlattenOne ==
    ASSUME NEW S, NEW x \in S
    PROVE  FlattenSeq(<<x>>) = x
<1>1. <<x>> \in Seq(S) /\ Len(<<x>>) = 1 /\ <<x>> # <<>> /\ <<x>>[1] = x
  BY OneElement
<1> DEFINE q == <<x>>
<1>2. PICK g : FlattensTo(q, 1, g)
  <2>1. 1 \in Nat
    OBVIOUS
  <2> QED
    BY <2>1, FlattensExist
<1>3. g[1] = x
  <2>1. 1 \in 1 .. 1
    OBVIOUS
  <2> HIDE DEF q
  <2>2. g[1] = q[1]
    BY <1>2, <2>1 DEF FlattensTo
  <2> QED
    BY <1>1, <2>2 DEF q
<1> HIDE DEF q
<1>4. FlattenSeq(q) = g[1]
  <2>1. q \in Seq(S) /\ Len(q) = 1 /\ q # <<>>
    BY <1>1 DEF q
  <2> QED
    BY <1>2, <2>1, FlattenLast
<1> QED
  BY <1>3, <1>4 DEF q

\* Flattening one sequence more.
LEMMA FlattenAppend ==
    ASSUME NEW S, NEW q \in Seq(Seq(S)), NEW x \in Seq(S)
    PROVE  FlattenSeq(Append(q, x)) = FlattenSeq(q) \o x
<1> DEFINE B == Seq(S)
           L == Len(q)
           r == Append(q, x)
<1>0. q \in Seq(B) /\ x \in B
  OBVIOUS
<1>1. CASE q = <<>>
  <2>1. Append(<<>>, x) = <<x>>
    OBVIOUS
  <2>2. FlattenSeq(<<x>>) = x
    BY FlattenOne
  <2>3. <<>> \o x = x
    BY ConcatEmptySeq
  <2> QED
    BY <1>1, <2>1, <2>2, <2>3, FlattenEmpty, Zenon
<1>2. CASE q # <<>>
  <2> HIDE DEF B
  <2>1. L \in Nat \ {0}
    BY <1>0, <1>2, EmptySeq
  <2>2. r \in Seq(B) /\ r # <<>> /\ Len(r) = L + 1 /\ r[L + 1] = x /\ \A i \in 1 .. L : r[i] = q[i]
    BY <1>0, AppendProperties
  <2>3. PICK few : FlattensTo(q, L, few)
    BY <2>1, FlattensExist
  <2>4. PICK more : FlattensTo(r, L + 1, more)
    <3>1. L + 1 \in Nat
      BY <2>1
    <3> QED
      BY <3>1, FlattensExist
  <2> HIDE DEF r, L
  <2>5. more[L + 1] = more[L] \o x
    <3>1. L + 1 \in 1 .. L + 1 /\ L + 1 # 1 /\ (L + 1) - 1 = L
      BY <2>1
    <3>2. more[L + 1] = IF L + 1 = 1 THEN r[L + 1] ELSE more[(L + 1) - 1] \o r[L + 1]
      BY <2>4, <3>1 DEF FlattensTo
    <3> QED
      BY <2>2, <3>1, <3>2
  <2>6. few[L] = more[L]
    <3>1. L \in Nat /\ L + 1 \in Nat /\ L <= L + 1 /\ L \in 1 .. L
      BY <2>1
    <3>2. Alike(q, r, L)
      BY <2>2 DEF Alike
    <3>3. Alike(few, more, L)
      BY <2>3, <2>4, <3>1, <3>2, FlattensAlike
    <3> QED
      BY <3>1, <3>3 DEF Alike
  <2>7. FlattenSeq(q) = few[L]
    BY <1>0, <1>2, <2>3, FlattenLast DEF L
  <2>8. FlattenSeq(r) = more[L + 1]
    BY <2>2, <2>4, FlattenLast
  <2> QED
    BY <2>5, <2>6, <2>7, <2>8 DEF r
<1> QED
  BY <1>1, <1>2

\* The order in which sequences are put one behind the other.
AnyOrder(B) == \A s, t, u \in B : (s \o t) \o u = s \o (t \o u)

\* Joining is associative.
LEMMA SequencesAnyOrder ==
    ASSUME NEW S
    PROVE  AnyOrder(Seq(S))
BY ConcatAssociative DEF AnyOrder

Regroups(x, y, z) == (x \o y) \o z = x \o (y \o z)

\* The same, of three sequences.
LEMMA Regrouping ==
    ASSUME NEW S, NEW x \in Seq(S), NEW y \in Seq(S), NEW z \in Seq(S)
    PROVE  Regroups(x, y, z)
BY ConcatAssociative DEF Regroups

\* Flattening two rows of sequences, one behind the other.
LEMMA FlattenConcat ==
    ASSUME NEW S, NEW p \in Seq(Seq(S)), NEW q \in Seq(Seq(S))
    PROVE  FlattenSeq(p \o q) = FlattenSeq(p) \o FlattenSeq(q)
<1> DEFINE B == Seq(S)
           T == {r \in Seq(B) : FlattenSeq(p \o r) = FlattenSeq(p) \o FlattenSeq(r)}
<1>0. FlattenSeq(p) \in B
  BY FlattenTyped
<1>1. <<>> \in T
  <2>1. <<>> \in Seq(B)
    OBVIOUS
  <2>2. p \o <<>> = p /\ FlattenSeq(p) \o <<>> = FlattenSeq(p)
    BY <1>0, ConcatEmptySeq
  <2> QED
    BY <2>1, <2>2, FlattenEmpty
<1>2. ASSUME NEW r \in Seq(B), NEW x \in B, r \in T
      PROVE  Append(r, x) \in T
  <2>1. Append(r, x) \in Seq(B)
    BY AppendProperties
  <2>2. p \o Append(r, x) = Append(p \o r, x)
    <3>0. p \in Seq(B)
      OBVIOUS
    <3> HIDE DEF B
    <3>1. p \o r \in Seq(B) /\ <<x>> \in Seq(B)
      BY <3>0, Chained, OneTyped
    <3>2. Append(r, x) = r \o <<x>>
      BY AppendIsConcat
    <3>3. Append(p \o r, x) = (p \o r) \o <<x>>
      BY <3>1, AppendIsConcat
    <3>4. (p \o r) \o <<x>> = p \o (r \o <<x>>)
      BY <3>0, <3>1, ConcatAssociative
    <3> QED
      BY <3>2, <3>3, <3>4
  <2>3. p \o r \in Seq(B)
    BY Chained
  <2>4. FlattenSeq(Append(p \o r, x)) = FlattenSeq(p \o r) \o x
    BY <2>3, FlattenAppend
  <2>5. FlattenSeq(Append(r, x)) = FlattenSeq(r) \o x
    BY FlattenAppend
  <2>6. FlattenSeq(r) \in B
    BY FlattenTyped
  <2>7. (FlattenSeq(p) \o FlattenSeq(r)) \o x = FlattenSeq(p) \o (FlattenSeq(r) \o x)
    <3>1. AnyOrder(B)
      BY SequencesAnyOrder
    <3> HIDE DEF B, T
    <3> QED
      BY <1>0, <2>6, <3>1, Zenon DEF AnyOrder
  <2>8. FlattenSeq(p \o r) = FlattenSeq(p) \o FlattenSeq(r)
    BY <1>2
  <2>9. FlattenSeq(p \o Append(r, x)) = FlattenSeq(p) \o FlattenSeq(Append(r, x))
    BY <2>2, <2>4, <2>5, <2>7, <2>8, Zenon
  <2> QED
    BY <2>1, <2>9
<1> HIDE DEF T
<1>3. Seq(B) \subseteq T
  BY <1>1, <1>2, GrowingInduction
<1>4. q \in T
  BY <1>3
<1> QED
  BY <1>4 DEF T

\* What is left of a sequence after its first k elements.
After(q, k) == SubSeq(q, k + 1, Len(q))

\* What is left of a row after its first elements.
LEMMA AfterTyped ==
    ASSUME NEW S, NEW q \in Seq(S), NEW k \in 0 .. Len(q)
    PROVE  After(q, k) \in Seq(S) /\ Len(After(q, k)) = Len(q) - k
<1>1. Len(q) \in Nat /\ \A i \in k + 1 .. Len(q) : q[i] \in S
  BY ElementOfSeq, LenProperties
<1>2. k + 1 \in Int /\ Len(q) \in Int
    /\ (IF k + 1 <= Len(q) THEN Len(q) - (k + 1) + 1 ELSE 0) = Len(q) - k
  BY <1>1
<1> QED
  BY <1>1, <1>2, SubSeqProperties DEF After

\* After none of them it is the row, after all of them nothing.
LEMMA AfterNone ==
    ASSUME NEW S, NEW q \in Seq(S)
    PROVE  After(q, 0) = q
<1>1. 0 + 1 = 1
  OBVIOUS
<1>2. SubSeq(q, 1, Len(q)) = q
  BY SubSeqFull
<1> QED
  BY <1>1, <1>2 DEF After

\* Nothing is left after all of them.
LEMMA AfterAll ==
    ASSUME NEW S, NEW q \in Seq(S)
    PROVE  After(q, Len(q)) = <<>>
<1>1. Len(q) \in Int /\ Len(q) + 1 \in Int /\ Len(q) < Len(q) + 1
  BY LenProperties
<1> QED
  BY <1>1, SubSeqEmpty DEF After

\* The next of the sequences, and those after it.
LEMMA FlattenNext ==
    ASSUME NEW S, NEW q \in Seq(Seq(S)), NEW k \in 0 .. Len(q) - 1
    PROVE  FlattenSeq(After(q, k)) = q[k + 1] \o FlattenSeq(After(q, k + 1))
<1> DEFINE B == Seq(S)
           x == q[k + 1]
           r == After(q, k + 1)
<1>1. Len(q) \in Nat
  BY LenProperties
<1>2. k + 1 \in 1 .. Len(q) /\ Len(q) \in k + 1 .. Len(q) /\ k + 1 \in 0 .. Len(q)
  BY <1>1
<1>3. q \in Seq(B) /\ x \in B
  BY <1>2, ElementOfSeq
<1>4. r \in Seq(B)
  BY <1>2, <1>3, AfterTyped
<1>5. After(q, k) = <<x>> \o r
  <2> HIDE DEF B
  <2>1. SubSeq(q, k + 1, Len(q)) = <<x>> \o SubSeq(q, (k + 1) + 1, Len(q))
    BY <1>2, <1>3, SubSeqRecursiveFirst
  <2> QED
    BY <2>1 DEF After
<1> HIDE DEF x, r
<1>6. <<x>> \in Seq(B)
  BY <1>3, OneTyped
<1>7. FlattenSeq(<<x>> \o r) = FlattenSeq(<<x>>) \o FlattenSeq(r)
  BY <1>4, <1>6, FlattenConcat
<1>8. FlattenSeq(<<x>>) = x
  BY <1>3, FlattenOne
<1> QED
  BY <1>5, <1>7, <1>8 DEF x, r

\* One of the sequences, those before it and those after it.
Around(B) ==
    \A p \in Seq(B), x \in B, q \in Seq(B) :
        FlattenSeq(p \o (<<x>> \o q)) = (FlattenSeq(p) \o x) \o FlattenSeq(q)

\* A row flattened is what is before an element, the element, and what is after
\* it.
LEMMA FlattenAround ==
    ASSUME NEW S
    PROVE  Around(Seq(S))
<1> DEFINE B == Seq(S)
<1> SUFFICES ASSUME NEW p \in Seq(B), NEW x \in B, NEW q \in Seq(B)
             PROVE  FlattenSeq(p \o (<<x>> \o q)) = (FlattenSeq(p) \o x) \o FlattenSeq(q)
  BY DEF Around
<1>1. <<x>> \in Seq(B)
  BY OneTyped
<1>2. <<x>> \o q \in Seq(B)
  BY <1>1, Chained
<1>3. FlattenSeq(p \o (<<x>> \o q)) = FlattenSeq(p) \o FlattenSeq(<<x>> \o q)
  BY <1>2, FlattenConcat
<1>4. FlattenSeq(<<x>> \o q) = FlattenSeq(<<x>>) \o FlattenSeq(q)
  BY <1>1, FlattenConcat
<1>5. FlattenSeq(<<x>>) = x
  BY FlattenOne
<1>6. FlattenSeq(p) \in B /\ FlattenSeq(q) \in B
  BY FlattenTyped
<1>7. (FlattenSeq(p) \o x) \o FlattenSeq(q) = FlattenSeq(p) \o (x \o FlattenSeq(q))
  <2>1. AnyOrder(B)
    BY SequencesAnyOrder
  <2>2. x \in B
    OBVIOUS
  <2> HIDE DEF B
  <2> QED
    BY <1>6, <2>1, <2>2, Zenon DEF AnyOrder
<1> QED
  BY <1>3, <1>4, <1>5, <1>7

\* The k-th of the sequences, those before it and those after it.
LEMMA FlattenSplit ==
    ASSUME NEW S, NEW v \in Seq(Seq(S)), NEW k \in 1 .. Len(v)
    PROVE  /\ SubSeq(v, 1, k - 1) \in Seq(Seq(S)) /\ SubSeq(v, k + 1, Len(v)) \in Seq(Seq(S))
           /\ v[k] \in Seq(S)
           /\ FlattenSeq(v) = (FlattenSeq(SubSeq(v, 1, k - 1)) \o v[k])
                                \o FlattenSeq(SubSeq(v, k + 1, Len(v)))
<1> DEFINE B == Seq(S)
           front == SubSeq(v, 1, k - 1)
           back == SubSeq(v, k + 1, Len(v))
<1>1. Len(v) \in Nat
  BY LenProperties
<1>2. k \in 1 .. Len(v) /\ Len(v) \in k .. Len(v) /\ k - 1 \in 0 .. Len(v)
      /\ k \in 0 .. Len(v) /\ 1 \in 1 .. Len(v) + 1 /\ k - 1 \in 1 - 1 .. Len(v)
      /\ Len(v) \in k - 1 .. Len(v) /\ (k - 1) + 1 = k
  BY <1>1
<1>3. v[k] \in B
  BY <1>2, ElementOfSeq
<1>4. front \in Seq(B)
  <2>1. \A i \in 1 .. k - 1 : v[i] \in B
    BY <1>1, ElementOfSeq
  <2>2. 1 \in Int /\ k - 1 \in Int
    OBVIOUS
  <2> HIDE DEF B
  <2> QED
    BY <2>1, <2>2, SubSeqProperties
<1>5. back \in Seq(B)
  BY <1>2, AfterTyped DEF After
<1> DEFINE y == v[k]
<1>6. v = front \o (<<y>> \o back)
  <2> HIDE DEF B
  <2>1. SubSeq(v, k, Len(v)) = <<y>> \o back
    BY <1>2, SubSeqRecursiveFirst
  <2>2. SubSeq(v, 1, k - 1) \o SubSeq(v, (k - 1) + 1, Len(v)) = SubSeq(v, 1, Len(v))
    BY <1>2, ConcatAdjacentSubSeq
  <2>3. SubSeq(v, 1, Len(v)) = v
    BY SubSeqFull
  <2> QED
    BY <1>2, <2>1, <2>2, <2>3
<1> HIDE DEF front, y, back
<1>7. front \in Seq(B) /\ y \in B /\ back \in Seq(B)
  BY <1>3, <1>4, <1>5 DEF y
<1>8. FlattenSeq(v) = (FlattenSeq(front) \o y) \o FlattenSeq(back)
  <2>1. FlattenSeq(front \o (<<y>> \o back)) = (FlattenSeq(front) \o y) \o FlattenSeq(back)
    <3>1. Around(B)
      BY FlattenAround
    <3> HIDE DEF B
    <3> QED
      BY <1>7, <3>1, Zenon DEF Around
  <2> QED
    BY <1>6, <2>1, Zenon
<1> QED
  BY <1>3, <1>4, <1>5, <1>8 DEF front, y, back

\* Two sequences that differ in a part: what stands before and after it.
Beside(B, old, new, x, y) == \E a, b \in B : old = (a \o x) \o b /\ new = (a \o y) \o b

\* One of the sequences, replaced by another.
LEMMA FlattenReplaced ==
    ASSUME NEW S, NEW q \in Seq(Seq(S)), NEW k \in 1 .. Len(q), NEW x \in Seq(S),
           NEW p, p = [q EXCEPT ![k] = x]
    PROVE  Beside(Seq(S), FlattenSeq(q), FlattenSeq(p), q[k], x)
<1> DEFINE B == Seq(S)
           r == [q EXCEPT ![k] = x]
           front(s) == SubSeq(s, 1, k - 1)
           back(s) == SubSeq(s, k + 1, Len(s))
<1>1. Len(q) \in Nat /\ q \in Seq(B)
  BY LenProperties
<1>2. r \in Seq(B) /\ Len(r) = Len(q) /\ r[k] = x /\ \A j \in 1 .. Len(q) : j # k => r[j] = q[j]
  <2> HIDE DEF B
  <2> QED
    BY <1>1, ExceptSeq DEF B
<1>3. ASSUME NEW v \in Seq(B), Len(v) = Len(q)
      PROVE  /\ front(v) \in Seq(B) /\ back(v) \in Seq(B) /\ v[k] \in B
             /\ FlattenSeq(v) = (FlattenSeq(front(v)) \o v[k]) \o FlattenSeq(back(v))
  <2>1. k \in 1 .. Len(v)
    BY <1>3
  <2> QED
    BY <2>1, FlattenSplit
<1>4. front(r) = front(q)
  <2>1. /\ front(r) \in Seq(B) /\ front(q) \in Seq(B)
        /\ Len(front(r)) = Len(front(q))
        /\ \A i \in 1 .. Len(front(r)) : front(r)[i] = front(q)[i]
    <3>1. \A i \in 1 .. k - 1 : q[i] \in B /\ r[i] \in B /\ q[i] = r[i]
      <4>1. \A i \in 1 .. k - 1 : i \in 1 .. Len(q) /\ i # k
        BY <1>1
      <4> HIDE DEF r
      <4> QED
        BY <1>1, <1>2, <4>1, ElementOfSeq
    <3> HIDE DEF r, B
    <3>2. /\ front(r) \in Seq(B) /\ Len(front(r)) = IF 1 <= k - 1 THEN (k - 1) - 1 + 1 ELSE 0
          /\ \A i \in 1 .. (k - 1) - 1 + 1 : front(r)[i] = r[1 + i - 1]
      BY <3>1, SubSeqProperties
    <3>3. /\ front(q) \in Seq(B) /\ Len(front(q)) = IF 1 <= k - 1 THEN (k - 1) - 1 + 1 ELSE 0
          /\ \A i \in 1 .. (k - 1) - 1 + 1 : front(q)[i] = q[1 + i - 1]
      BY <3>1, SubSeqProperties
    <3> HIDE DEF front
    <3> QED
      BY <3>1, <3>2, <3>3
  <2> HIDE DEF front, B, r
  <2> QED
    BY <2>1, SeqEqual
<1>5. back(r) = back(q)
  <2>1. /\ back(r) \in Seq(B) /\ back(q) \in Seq(B)
        /\ Len(back(r)) = Len(back(q))
        /\ \A i \in 1 .. Len(back(r)) : back(r)[i] = back(q)[i]
    <3>1. \A i \in k + 1 .. Len(q) : q[i] \in B /\ r[i] \in B /\ q[i] = r[i]
      <4>1. \A i \in k + 1 .. Len(q) : i \in 1 .. Len(q) /\ i # k
        BY <1>1
      <4> HIDE DEF r
      <4> QED
        BY <1>1, <1>2, <4>1, ElementOfSeq
    <3> HIDE DEF r, B
    <3> DEFINE n == Len(q)
    <3>2. n \in Nat /\ Len(r) = n
      BY <1>1, <1>2
    <3> HIDE DEF n
    <3>3. /\ SubSeq(r, k + 1, n) \in Seq(B)
          /\ Len(SubSeq(r, k + 1, n)) = IF k + 1 <= n THEN n - (k + 1) + 1 ELSE 0
          /\ \A i \in 1 .. n - (k + 1) + 1 : SubSeq(r, k + 1, n)[i] = r[(k + 1) + i - 1]
      BY <3>1, <3>2, SubSeqProperties DEF n
    <3>4. /\ SubSeq(q, k + 1, n) \in Seq(B)
          /\ Len(SubSeq(q, k + 1, n)) = IF k + 1 <= n THEN n - (k + 1) + 1 ELSE 0
          /\ \A i \in 1 .. n - (k + 1) + 1 : SubSeq(q, k + 1, n)[i] = q[(k + 1) + i - 1]
      BY <3>1, <3>2, SubSeqProperties DEF n
    <3>5. back(r) = SubSeq(r, k + 1, n) /\ back(q) = SubSeq(q, k + 1, n)
      BY <3>2 DEF n
    <3> HIDE DEF back
    <3>6. /\ Len(SubSeq(r, k + 1, n)) = Len(SubSeq(q, k + 1, n))
          /\ \A i \in 1 .. Len(SubSeq(r, k + 1, n)) :
                SubSeq(r, k + 1, n)[i] = SubSeq(q, k + 1, n)[i]
      <4>1. \A i \in 1 .. n - (k + 1) + 1 : r[(k + 1) + i - 1] = q[(k + 1) + i - 1]
        BY <3>1, <3>2 DEF n
      <4>2. Len(SubSeq(r, k + 1, n)) = Len(SubSeq(q, k + 1, n))
        BY <3>3, <3>4
      <4>3. Len(SubSeq(r, k + 1, n)) = n - (k + 1) + 1 \/ Len(SubSeq(r, k + 1, n)) = 0
        BY <3>3
      <4>4. ASSUME NEW i \in 1 .. Len(SubSeq(r, k + 1, n))
            PROVE  SubSeq(r, k + 1, n)[i] = SubSeq(q, k + 1, n)[i]
        <5>1. i \in 1 .. n - (k + 1) + 1
          <6> DEFINE l == Len(SubSeq(r, k + 1, n))
          <6>1. i \in 1 .. l /\ (l = n - (k + 1) + 1 \/ l = 0)
            BY <4>3, <4>4
          <6> HIDE DEF l
          <6> QED
            BY <6>1
        <5>2. SubSeq(r, k + 1, n)[i] = r[(k + 1) + i - 1] /\ SubSeq(q, k + 1, n)[i] = q[(k + 1) + i - 1]
          BY <3>3, <3>4, <5>1, Zenon
        <5> QED
          BY <4>1, <5>1, <5>2
      <4> QED
        BY <4>2, <4>4
    <3> QED
      BY <3>3, <3>4, <3>5, <3>6
  <2> HIDE DEF back, B, r
  <2> QED
    BY <2>1, SeqEqual
<1> DEFINE a == FlattenSeq(front(q))
           b == FlattenSeq(back(q))
<1>6. a \in Seq(S) /\ b \in Seq(S)
  BY <1>1, <1>3, FlattenTyped
<1>7. FlattenSeq(q) = (a \o q[k]) \o b
  BY <1>1, <1>3
<1>8. FlattenSeq(r) = (a \o x) \o b
  <2>1. FlattenSeq(r) = (FlattenSeq(front(r)) \o r[k]) \o FlattenSeq(back(r))
    BY <1>2, <1>3
  <2> HIDE DEF r, front, back
  <2> QED
    BY <1>2, <1>4, <1>5, <2>1
<1>9. p = r
  OBVIOUS
<1> HIDE DEF a, b, r
<1> QED
  BY <1>6, <1>7, <1>8, <1>9 DEF Beside

\* What is in the sequences is in one of them.
LEMMA FlattenElements ==
    ASSUME NEW S, NEW q \in Seq(Seq(S))
    PROVE  Elements(FlattenSeq(q)) = UNION {Elements(q[k]) : k \in 1 .. Len(q)}
<1> DEFINE B == Seq(S)
           Union(s) == UNION {Elements(s[k]) : k \in 1 .. Len(s)}
           T == {s \in Seq(B) : Elements(FlattenSeq(s)) = Union(s)}
<1>1. <<>> \in T
  <2>1. <<>> \in Seq(B) /\ Len(<<>>) = 0 /\ 1 .. 0 = {}
    OBVIOUS
  <2>2. Elements(<<>>) = {} /\ Union(<<>>) = {}
    BY <2>1 DEF Elements
  <2> QED
    BY <2>1, <2>2, FlattenEmpty
<1>2. ASSUME NEW s \in Seq(B), NEW x \in B, s \in T
      PROVE  Append(s, x) \in T
  <2> DEFINE u == Append(s, x)
  <2>1. FlattenSeq(u) = FlattenSeq(s) \o x
    BY FlattenAppend
  <2>2. FlattenSeq(s) \in Seq(S)
    BY FlattenTyped
  <2>3. Elements(FlattenSeq(s) \o x) = Elements(FlattenSeq(s)) \union Elements(x)
    BY <2>2, ElementsConcat
  <2>4. /\ u \in Seq(B) /\ Len(u) = Len(s) + 1 /\ u[Len(s) + 1] = x
        /\ \A k \in 1 .. Len(s) : u[k] = s[k]
    <3> HIDE DEF B
    <3> QED
      BY AppendProperties
  <2>5. Len(s) \in Nat
    BY LenProperties
  <2> HIDE DEF u
  <2>6. Union(u) = Union(s) \union Elements(x)
    <3>1. 1 .. Len(u) = (1 .. Len(s)) \union {Len(s) + 1}
      BY <2>4, <2>5
    <3>2. {Elements(u[k]) : k \in 1 .. Len(u)}
            = {Elements(s[k]) : k \in 1 .. Len(s)} \union {Elements(x)}
      BY <2>4, <3>1
    <3> QED
      BY <3>2
  <2>7. Elements(FlattenSeq(s)) = Union(s)
    BY <1>2
  <2> HIDE DEF Union
  <2>8. Elements(FlattenSeq(u)) = Union(u)
    BY <2>1, <2>3, <2>6, <2>7
  <2> QED
    BY <2>4, <2>8 DEF u
<1> HIDE DEF T
<1>3. Seq(B) \subseteq T
  BY <1>1, <1>2, GrowingInduction
<1>4. q \in T
  BY <1>3
<1> QED
  BY <1>4 DEF T

-----------------------------------------------------------------------------
(* What stands where in an encoding                                        *)

\* The n elements of t stand in u after the first m.
Placed(u, m, t, n) == \A j \in 1 .. n : u[m + j] = t[j]

\* What is where in two sequences, one behind the other.
LEMMA JoinedAt ==
    ASSUME NEW S, NEW m \in Nat, NEW n \in Nat, NEW s, NEW t, Long(s, S, m), Long(t, S, n)
    PROVE  Alike(s \o t, s, m) /\ Placed(s \o t, m, t, n)
<1>1. s \in Seq(S) /\ t \in Seq(S) /\ Len(s) = m /\ Len(t) = n
  BY DEF Long
<1>2. \A i \in 1 .. m + n : (s \o t)[i] = IF i <= m THEN s[i] ELSE t[i - m]
  BY <1>1, ConcatProperties
<1>3. ASSUME NEW j \in 1 .. n
      PROVE  (s \o t)[m + j] = t[j]
  <2>1. m + j \in 1 .. m + n /\ ~(m + j <= m) /\ (m + j) - m = j
    OBVIOUS
  <2> QED
    BY <1>2, <2>1
<1>4. ASSUME NEW i \in 1 .. m
      PROVE  (s \o t)[i] = s[i]
  <2>1. i \in 1 .. m + n /\ i <= m
    OBVIOUS
  <2> QED
    BY <1>2, <2>1
<1> QED
  BY <1>3, <1>4 DEF Alike, Placed

\* A part of a sequence, known element by element.
LEMMA PartIs ==
    ASSUME NEW S, NEW b \in Seq(S), NEW o \in Nat, NEW n \in Nat, o + n <= Len(b),
           NEW t \in Seq(S), Len(t) = n, \A j \in 1 .. n : b[o + j] = t[j]
    PROVE  SubSeq(b, o + 1, o + n) = t
<1> DEFINE p == SubSeq(b, o + 1, o + n)
<1>1. Len(b) \in Nat
  BY LenProperties
<1>2. \A i \in o + 1 .. o + n : b[i] \in S
  <2>1. \A i \in o + 1 .. o + n : i \in 1 .. Len(b)
    BY <1>1
  <2> QED
    BY <2>1, ElementOfSeq
<1>3. /\ p \in Seq(S) /\ Len(p) = n
      /\ \A i \in 1 .. n : p[i] = b[(o + 1) + i - 1]
  <2>1. o + 1 \in Int /\ o + n \in Int
        /\ (IF o + 1 <= o + n THEN (o + n) - (o + 1) + 1 ELSE 0) = n
        /\ (o + n) - (o + 1) + 1 = n
    OBVIOUS
  <2>2. /\ p \in Seq(S) /\ Len(p) = IF o + 1 <= o + n THEN (o + n) - (o + 1) + 1 ELSE 0
        /\ \A i \in 1 .. (o + n) - (o + 1) + 1 : p[i] = b[(o + 1) + i - 1]
    BY <1>2, <2>1, SubSeqProperties
  <2> HIDE DEF p
  <2> QED
    BY <2>1, <2>2
<1> HIDE DEF p
<1>4. \A i \in 1 .. n : p[i] = t[i]
  <2>1. \A i \in 1 .. n : (o + 1) + i - 1 = o + i
    OBVIOUS
  <2> QED
    BY <1>3, <2>1
<1>5. p = t
  BY <1>3, <1>4, SeqEqual
<1> QED
  BY <1>5 DEF p

\* From o on b goes on as e, as far as it goes.
Continues(b, o, e) == \A i \in 1 .. Len(e) : o + i <= Len(b) => b[o + i] = e[i]

\* Bytes that go on with a sequence go on with each of its parts.
LEMMA ContinuesBoth ==
    ASSUME NEW b, NEW o \in Nat, NEW s \in Seq(Byte), NEW t \in Seq(Byte), Continues(b, o, s \o t)
    PROVE  Continues(b, o, s) /\ Continues(b, o + Len(s), t)
<1> DEFINE m == Len(s)
           n == Len(t)
           u == s \o t
<1>1. m \in Nat /\ n \in Nat /\ Long(s, Byte, m) /\ Long(t, Byte, n)
  BY LenProperties DEF Long
<1>2. Len(u) = m + n
  BY ConcatProperties
<1>3. (\A i \in 1 .. m : u[i] = s[i]) /\ \A j \in 1 .. n : u[m + j] = t[j]
  BY <1>1, JoinedAt DEF Alike, Placed
<1>4. \A i \in 1 .. m + n : o + i <= Len(b) => b[o + i] = u[i]
  BY <1>2 DEF Continues
<1> HIDE DEF m, n, u
<1>5. \A i \in 1 .. m : o + i <= Len(b) => b[o + i] = s[i]
  <2>1. \A i \in 1 .. m : i \in 1 .. m + n
    BY <1>1
  <2> QED
    BY <1>3, <1>4, <2>1
<1>6. ASSUME NEW j \in 1 .. n, (o + m) + j <= Len(b)
      PROVE  b[(o + m) + j] = t[j]
  <2> DEFINE i == m + j
  <2>1. i \in 1 .. m + n /\ o + i = (o + m) + j
    BY <1>1
  <2>2. u[i] = t[j]
    BY <1>3
  <2> HIDE DEF i
  <2>3. o + i <= Len(b)
    BY <1>6, <2>1
  <2>4. b[o + i] = u[i]
    BY <1>4, <2>1, <2>3
  <2> QED
    BY <2>1, <2>2, <2>4
<1> QED
  BY <1>5, <1>6 DEF Continues, m, n

\* What stands in b at o is x, all of it.
Stands(b, o, x) == o + Len(x) <= Len(b) /\ \A i \in 1 .. Len(x) : b[o + i] = x[i]

\* Bytes that go on with a sequence, and reach its end, hold all of it.
LEMMA ContinuesStands ==
    ASSUME NEW b \in Seq(Byte), NEW o \in Nat, NEW x \in Seq(Byte), Continues(b, o, x),
           o + Len(x) <= Len(b)
    PROVE  Stands(b, o, x)
<1>1. Len(b) \in Nat /\ Len(x) \in Nat
  BY LenProperties
<1>2. \A i \in 1 .. Len(x) : o + i <= Len(b)
  BY <1>1
<1> QED
  BY <1>2 DEF Continues, Stands

\* n bytes of b, after the first o + m, are t.
PartAt(b, o, m, n, t) == SubSeq(b, o + (m + 1), o + (m + n)) = t

\* A part of what stands in b.
LEMMA StandsPart ==
    ASSUME NEW b \in Seq(Byte), NEW o \in Nat, NEW x \in Seq(Byte), Stands(b, o, x),
           NEW m \in Nat, NEW n \in Nat, m + n <= Len(x),
           NEW t \in Seq(Byte), Len(t) = n, Placed(x, m, t, n)
    PROVE  PartAt(b, o, m, n, t)
<1>1. Len(b) \in Nat /\ Len(x) \in Nat
  BY LenProperties
<1>2. (o + m) + n <= Len(b) /\ o + m \in Nat
  BY <1>1 DEF Stands
<1>3. ASSUME NEW j \in 1 .. n
      PROVE  b[(o + m) + j] = t[j]
  <2> DEFINE i == m + j
  <2>1. i \in 1 .. Len(x) /\ o + i = (o + m) + j
    BY <1>1
  <2>2. x[i] = t[j]
    BY DEF Placed
  <2> HIDE DEF i
  <2>3. b[o + i] = x[i]
    BY <2>1 DEF Stands
  <2> QED
    BY <2>1, <2>2, <2>3
<1>4. SubSeq(b, (o + m) + 1, (o + m) + n) = t
  <2> DEFINE a == o + m
  <2>1. a \in Nat /\ a + n <= Len(b) /\ \A j \in 1 .. n : b[a + j] = t[j]
    BY <1>2, <1>3
  <2> HIDE DEF a
  <2>2. SubSeq(b, a + 1, a + n) = t
    BY <2>1, PartIs
  <2> QED
    BY <2>2 DEF a
<1>5. (o + m) + 1 = o + (m + 1) /\ (o + m) + n = o + (m + n)
  OBVIOUS
<1> QED
  BY <1>4, <1>5 DEF PartAt

\* Le16: two bytes are read as they were written.
LEMMA Le16Read ==
    ASSUME NEW n \in Nat, n < Word
    PROVE  Long(Le16(n), Byte, 2) /\ Le16(n)[1] + 256 * Le16(n)[2] = n
<1>1. Long(Le16(n), Byte, 2)
  BY Le16Typed
<1>2. Le16(n)[1] = n % 256 /\ Le16(n)[2] = n \div 256
  BY DEF Le16
<1>3. (n % 256) + 256 * (n \div 256) = n
  <2> DEFINE q == n \div 256
             r == n % 256
  <2>1. 256 \in Nat \ {0}
    OBVIOUS
  <2>2. q \in Nat /\ n = 256 * q + r /\ r \in 0 .. (256 - 1)
    BY <2>1, DivMod
  <2> HIDE DEF q, r
  <2>3. r + 256 * q = n
    BY <2>2
  <2> QED
    BY <2>3 DEF q, r
<1> QED
  BY <1>1, <1>2, <1>3

\* Descriptor: its length, its type and its body.
LEMMA DescriptorRead ==
    ASSUME NEW type \in Byte, NEW n \in Nat, n <= 253, NEW body, Long(body, Byte, n)
    PROVE  LET d == Descriptor(type, body) IN
           /\ Long(d, Byte, n + 2) /\ d[1] = n + 2 /\ d[2] = type
           /\ \A j \in 1 .. n : d[2 + j] = body[j]
<1> DEFINE head == <<n + 2, type>>
<1>1. Long(Descriptor(type, body), Byte, n + 2)
  BY DescriptorTyped
<1>2. Long(head, Byte, 2) /\ head[1] = n + 2 /\ head[2] = type
  <2>1. n + 2 \in Byte
    BY Small
  <2> QED
    BY <2>1, TwoBytes
<1>3. Descriptor(type, body) = head \o body
  BY DEF Descriptor, Long
<1> HIDE DEF head
<1>4. 2 \in Nat /\ 1 \in 1 .. 2 /\ 2 \in 1 .. 2
  OBVIOUS
<1>5. Alike(head \o body, head, 2) /\ Placed(head \o body, 2, body, n)
  BY <1>2, <1>4, JoinedAt
<1> QED
  BY <1>1, <1>2, <1>3, <1>4, <1>5 DEF Alike, Placed

\* The nine bytes of a configuration.
ConfigurationHead(total, n, fields) ==
    Descriptor(ConfigurationType, Le16(total) \o <<n>> \o fields)

\* What stands where in the head of a configuration (lib.rs:862-938).
LEMMA ConfigurationRead ==
    ASSUME NEW total \in Nat, total < Word, NEW n \in Byte, NEW fields, Long(fields, Byte, 4)
    PROVE  LET h == ConfigurationHead(total, n, fields) IN
           /\ Long(h, Byte, 9) /\ h[1] = 9 /\ h[2] = ConfigurationType
           /\ h[3] + 256 * h[4] = total /\ h[5] = n
           /\ \A j \in 1 .. 4 : h[5 + j] = fields[j]
<1> DEFINE le == Le16(total)
           three == le \o <<n>>
           body == three \o fields
           d == Descriptor(ConfigurationType, body)
<1>0. 3 = 2 + 1 /\ 7 = 3 + 4 /\ {1, 2, 3, 4, 7} \subseteq Nat /\ 7 <= 253 /\ 9 = 7 + 2
  OBVIOUS
<1>1. Long(le, Byte, 2) /\ le[1] + 256 * le[2] = total
  BY Le16Read
<1>2. Long(<<n>>, Byte, 1) /\ <<n>>[1] = n
  BY OneByte
<1> HIDE DEF le
<1>3. Long(three, Byte, 3) /\ three[1] = le[1] /\ three[2] = le[2] /\ three[3] = n
  <2> DEFINE one == <<n>>
  <2>1. Long(one, Byte, 1) /\ one[1] = n
    BY <1>2
  <2> HIDE DEF one
  <2>2. Long(le \o one, Byte, 3)
    BY <1>0, <1>1, <2>1, Joined
  <2>3. Alike(le \o one, le, 2) /\ Placed(le \o one, 2, one, 1)
    BY <1>0, <1>1, <2>1, JoinedAt
  <2>4. 1 \in 1 .. 2 /\ 2 \in 1 .. 2 /\ 1 \in 1 .. 1 /\ 2 + 1 = 3
    OBVIOUS
  <2> QED
    BY <2>1, <2>2, <2>3, <2>4 DEF one, Alike, Placed
<1> HIDE DEF three
<1>4. /\ Long(body, Byte, 7) /\ \A i \in 1 .. 3 : body[i] = three[i]
      /\ \A j \in 1 .. 4 : body[3 + j] = fields[j]
  <2>1. Long(body, Byte, 7)
    BY <1>0, <1>3, Joined
  <2>2. Alike(body, three, 3) /\ Placed(body, 3, fields, 4)
    BY <1>0, <1>3, JoinedAt
  <2> QED
    BY <2>1, <2>2 DEF Alike, Placed
<1> HIDE DEF body
<1>5. ConfigurationType \in Byte
  BY Small DEF ConfigurationType
<1>6. Long(d, Byte, 9) /\ d[1] = 9 /\ d[2] = ConfigurationType /\ \A j \in 1 .. 7 : d[2 + j] = body[j]
  BY <1>0, <1>4, <1>5, DescriptorRead
<1> HIDE DEF d
<1>7. d[3] = body[1] /\ d[4] = body[2] /\ d[5] = body[3]
  <2>1. 2 + 1 = 3 /\ 2 + 2 = 4 /\ 2 + 3 = 5 /\ {1, 2, 3} \subseteq 1 .. 7
    OBVIOUS
  <2> QED
    BY <1>6, <2>1
<1>8. body[1] = le[1] /\ body[2] = le[2] /\ body[3] = n
  <2>1. {1, 2, 3} \subseteq 1 .. 3
    OBVIOUS
  <2> QED
    BY <1>3, <1>4, <2>1
<1>9. ASSUME NEW j \in 1 .. 4
      PROVE  d[5 + j] = fields[j]
  <2>1. 3 + j \in 1 .. 7 /\ 2 + (3 + j) = 5 + j
    OBVIOUS
  <2>2. d[2 + (3 + j)] = body[3 + j]
    BY <1>6, <2>1
  <2> QED
    BY <1>4, <2>1, <2>2
<1> QED
  BY <1>1, <1>6, <1>7, <1>8, <1>9 DEF d, body, three, le, ConfigurationHead

\* The nine bytes of an interface.
InterfaceHead(fields, n) ==
    Descriptor(InterfaceType, SubSeq(fields, 1, 2) \o <<n>> \o SubSeq(fields, 3, 6))

\* What stands where in the head of an interface.
LEMMA InterfaceRead ==
    ASSUME NEW fields \in Row(6), NEW n \in Byte
    PROVE  LET h == InterfaceHead(fields, n) IN
           /\ Long(h, Byte, 9) /\ h[1] = 9 /\ h[2] = InterfaceType /\ h[5] = n
           /\ h[3] = fields[1] /\ h[4] = fields[2]
           /\ \A j \in 1 .. 4 : h[5 + j] = fields[2 + j]
<1> DEFINE a == SubSeq(fields, 1, 2)
           c == SubSeq(fields, 3, 6)
           three == a \o <<n>>
           body == three \o c
           d == Descriptor(InterfaceType, body)
<1>0. 3 = 2 + 1 /\ 7 = 3 + 4 /\ {1, 2, 3, 4, 7} \subseteq Nat /\ 7 <= 253 /\ 9 = 7 + 2
  OBVIOUS
<1>1. /\ Long(a, Byte, 2) /\ a[1] = fields[1] /\ a[2] = fields[2]
      /\ Long(c, Byte, 4) /\ \A j \in 1 .. 4 : c[j] = fields[2 + j]
  <2>1. fields \in Seq(Byte) /\ Len(fields) = 6
    BY DEF Row
  <2>2. Long(a, Byte, 2) /\ Long(c, Byte, 4)
    <3>1. a \in Seq(Byte) /\ Len(a) = 2 - 1 + 1
      BY <2>1, PartOfRow
    <3>2. c \in Seq(Byte) /\ Len(c) = 6 - 3 + 1
      <4>1. 3 \in Nat \ {0} /\ 6 \in Nat /\ 3 <= 6 /\ 6 <= Len(fields)
        BY <2>1
      <4> QED
        BY <2>1, <4>1, PartOfRow, Zenon
    <3> HIDE DEF a, c
    <3> QED
      BY <3>1, <3>2 DEF Long
  <2>3. \A i \in 1 .. 6 : fields[i] \in Byte
    BY <2>1, ElementOfSeq
  <2>4. (\A i \in 1 .. 2 : fields[i] \in Byte) /\ \A i \in 3 .. 6 : fields[i] \in Byte
    BY <2>3
  <2>5. \A i \in 1 .. 2 - 1 + 1 : a[i] = fields[1 + i - 1]
    BY <2>4, SubSeqProperties
  <2>6. \A i \in 1 .. 6 - 3 + 1 : c[i] = fields[3 + i - 1]
    BY <2>4, SubSeqProperties
  <2> HIDE DEF a, c
  <2>7. \A j \in 1 .. 4 : j \in 1 .. 6 - 3 + 1 /\ 3 + j - 1 = 2 + j
    OBVIOUS
  <2>8. 1 \in 1 .. 2 - 1 + 1 /\ 2 \in 1 .. 2 - 1 + 1 /\ 1 + 1 - 1 = 1 /\ 1 + 2 - 1 = 2
    OBVIOUS
  <2> QED
    BY <2>2, <2>5, <2>6, <2>7, <2>8
<1> HIDE DEF a, c
<1>2. Long(<<n>>, Byte, 1) /\ <<n>>[1] = n
  BY OneByte
<1>3. Long(three, Byte, 3) /\ three[1] = a[1] /\ three[2] = a[2] /\ three[3] = n
  <2> DEFINE one == <<n>>
  <2>1. Long(one, Byte, 1) /\ one[1] = n
    BY <1>2
  <2> HIDE DEF one
  <2>2. Long(a \o one, Byte, 3)
    BY <1>0, <1>1, <2>1, Joined
  <2>3. Alike(a \o one, a, 2) /\ Placed(a \o one, 2, one, 1)
    BY <1>0, <1>1, <2>1, JoinedAt
  <2>4. 1 \in 1 .. 2 /\ 2 \in 1 .. 2 /\ 1 \in 1 .. 1 /\ 2 + 1 = 3
    OBVIOUS
  <2> QED
    BY <2>1, <2>2, <2>3, <2>4 DEF one, Alike, Placed
<1> HIDE DEF three
<1>4. /\ Long(body, Byte, 7) /\ \A i \in 1 .. 3 : body[i] = three[i]
      /\ \A j \in 1 .. 4 : body[3 + j] = c[j]
  <2>1. Long(body, Byte, 7)
    BY <1>0, <1>1, <1>3, Joined
  <2>2. Alike(body, three, 3) /\ Placed(body, 3, c, 4)
    BY <1>0, <1>1, <1>3, JoinedAt
  <2> QED
    BY <2>1, <2>2 DEF Alike, Placed
<1> HIDE DEF body
<1>5. InterfaceType \in Byte
  BY Small DEF InterfaceType
<1>6. Long(d, Byte, 9) /\ d[1] = 9 /\ d[2] = InterfaceType /\ \A j \in 1 .. 7 : d[2 + j] = body[j]
  BY <1>0, <1>4, <1>5, DescriptorRead
<1> HIDE DEF d
<1>7. d[3] = body[1] /\ d[4] = body[2] /\ d[5] = body[3]
  <2>1. 2 + 1 = 3 /\ 2 + 2 = 4 /\ 2 + 3 = 5 /\ {1, 2, 3} \subseteq 1 .. 7
    OBVIOUS
  <2> QED
    BY <1>6, <2>1
<1>8. body[1] = a[1] /\ body[2] = a[2] /\ body[3] = n
  <2>1. {1, 2, 3} \subseteq 1 .. 3
    OBVIOUS
  <2> QED
    BY <1>3, <1>4, <2>1
<1>9. ASSUME NEW j \in 1 .. 4
      PROVE  d[5 + j] = fields[2 + j]
  <2>1. 3 + j \in 1 .. 7 /\ 2 + (3 + j) = 5 + j
    OBVIOUS
  <2>2. d[2 + (3 + j)] = body[3 + j]
    BY <1>6, <2>1
  <2> QED
    BY <1>1, <1>4, <2>1, <2>2
<1> QED
  BY <1>1, <1>6, <1>7, <1>8, <1>9 DEF d, body, three, a, c, InterfaceHead

\* The seven bytes of an endpoint.
LEMMA EndpointRead ==
    ASSUME NEW endpoint \in Row(5)
    PROVE  LET d == Descriptor(EndpointType, endpoint) IN
           /\ Long(d, Byte, 7) /\ d[1] = 7 /\ d[2] = EndpointType
           /\ \A j \in 1 .. 5 : d[2 + j] = endpoint[j]
<1>1. Long(endpoint, Byte, 5) /\ 5 \in Nat /\ 5 <= 253 /\ 5 + 2 = 7
  BY DEF Row, Long
<1>2. EndpointType \in Byte
  BY Small DEF EndpointType
<1> QED
  BY <1>1, <1>2, DescriptorRead

\* A sidecar: what it names the interface by, and the report.
LEMMA SidecarRead ==
    ASSUME NEW c \in Nat \ {0}, c < 256, NEW interface \in Interfaces, interface.report # <<>>,
           \A r \in DOMAIN interface.report : Len(interface.report[r]) < Word
    PROVE  LET x == Sidecar(c, interface)[1]
               r == interface.report[1]
           IN  /\ interface.report = <<r>> /\ r \in Seq(Byte)
               /\ Sidecar(c, interface) = <<x>>
               /\ Long(x, Byte, 8 + Len(r))
               /\ x[1] = c - 1 /\ x[2] = interface.fields[1] /\ x[3] = interface.fields[2]
               /\ x[4] = ReportType /\ x[5] = 0
               /\ x[7] + 256 * x[8] = Len(r)
               /\ \A j \in 1 .. Len(r) : x[8 + j] = r[j]
<1> DEFINE r == interface.report[1]
           n == Len(r)
           front == <<c - 1, interface.fields[1], interface.fields[2], ReportType, 0, 0>>
           le == Le16(n)
           eight == front \o le
           x == eight \o r
           B == Seq(Byte)
<1>1. interface.report \in Seq(B) /\ Len(interface.report) <= 1 /\ interface.fields \in Row(6)
  BY DEF Interfaces
<1>2. Len(interface.report) = 1 /\ DOMAIN interface.report = 1 .. 1
  <2> HIDE DEF B
  <2>1. Len(interface.report) \in Nat \ {0}
    BY <1>1, EmptySeq
  <2>2. DOMAIN interface.report = 1 .. Len(interface.report)
    BY <1>1, LenProperties
  <2>3. Len(interface.report) = 1
    <3> DEFINE l == Len(interface.report)
    <3>1. l \in Nat \ {0} /\ l <= 1
      BY <1>1, <2>1
    <3> HIDE DEF l
    <3>2. l = 1
      BY <3>1
    <3> QED
      BY <3>2 DEF l
  <2> QED
    BY <2>2, <2>3, Zenon
<1>3. interface.report = <<r>> /\ r \in B
  <2> DEFINE u == interface.report
  <2> HIDE DEF B
  <2>1. u \in Seq(B) /\ Len(u) = 1
    BY <1>1, <1>2
  <2> HIDE DEF u
  <2>2. Head(u) \in B /\ u = <<Head(u)>> /\ Head(u) = u[1]
    BY <2>1, OneLong, NotEmpty
  <2> QED
    BY <2>2 DEF u
<1>4. n \in Nat /\ n < Word /\ Long(r, Byte, n)
  <2>1. 1 \in DOMAIN interface.report
    BY <1>2
  <2> QED
    BY <1>3, <2>1, LenProperties DEF Long
<1>5. Sidecar(c, interface) = <<x>>
  <2>1. Sidecar(c, interface) = [i \in DOMAIN interface.report |->
                                   front \o Le16(Len(interface.report[i])) \o interface.report[i]]
    BY DEF Sidecar
  <2>2. \A i \in 1 .. 1 : i = 1
    OBVIOUS
  <2>3. Sidecar(c, interface) = [i \in 1 .. 1 |-> x]
    <3> HIDE DEF front
    <3> QED
      BY <1>2, <2>1, <2>2
  <2> HIDE DEF x
  <2> QED
    BY <2>3
<1>6. /\ Long(front, Byte, 6) /\ front[1] = c - 1
      /\ front[2] = interface.fields[1] /\ front[3] = interface.fields[2]
      /\ front[4] = ReportType /\ front[5] = 0
  <2>1. interface.fields[1] \in Byte /\ interface.fields[2] \in Byte
    <3>1. interface.fields \in B /\ Len(interface.fields) = 6
      BY <1>1 DEF Row
    <3>2. 1 \in 1 .. 6 /\ 2 \in 1 .. 6
      OBVIOUS
    <3> QED
      BY <3>1, <3>2, ElementOfSeq
  <2>2. c - 1 \in Byte /\ ReportType \in Byte /\ 0 \in Byte
    BY DEF Byte, ReportType
  <2>3. ASSUME NEW a1 \in Byte, NEW a2 \in Byte, NEW a3 \in Byte, NEW a4 \in Byte, NEW a5 \in Byte,
               NEW f, f = <<a1, a2, a3, a4, a5, a5>>
        PROVE  Long(f, Byte, 6) /\ f[1] = a1 /\ f[2] = a2 /\ f[3] = a3 /\ f[4] = a4 /\ f[5] = a5
    BY <2>3 DEF Long
  <2> QED
    BY <2>1, <2>2, <2>3
<1> HIDE DEF front
<1>7. Long(le, Byte, 2) /\ le[1] + 256 * le[2] = n
  BY <1>4, Le16Read
<1>8. 8 = 6 + 2 /\ {2, 6, 8} \subseteq Nat /\ 6 + 1 = 7 /\ 6 + 2 = 8
      /\ 1 \in 1 .. 2 /\ 2 \in 1 .. 2 /\ {1, 2, 3, 4, 5} \subseteq 1 .. 6
  OBVIOUS
<1> HIDE DEF le
<1>9. Long(eight, Byte, 8) /\ Alike(eight, front, 6) /\ Placed(eight, 6, le, 2)
  BY <1>6, <1>7, <1>8, Joined, JoinedAt
<1> HIDE DEF eight, n
<1>10. Long(x, Byte, 8 + n) /\ Alike(x, eight, 8) /\ Placed(x, 8, r, n)
  <2>1. 8 + n = 8 + n /\ 8 + n \in Nat
    BY <1>4
  <2> HIDE DEF r
  <2>2. Alike(x, eight, 8) /\ Placed(x, 8, r, n)
    BY <1>4, <1>8, <1>9, JoinedAt
  <2>3. Long(x, Byte, 8 + n)
    BY <1>4, <1>8, <1>9, Joined
  <2> QED
    BY <2>2, <2>3
<1> HIDE DEF x
<1>11. \A i \in 1 .. 6 : x[i] = front[i]
  BY <1>9, <1>10 DEF Alike
<1>12. x[7] = le[1] /\ x[8] = le[2]
  <2>1. 7 \in 1 .. 8 /\ 8 \in 1 .. 8
    OBVIOUS
  <2>2. eight[6 + 1] = le[1] /\ eight[6 + 2] = le[2]
    BY <1>8, <1>9 DEF Placed
  <2> QED
    BY <1>8, <1>10, <2>1, <2>2 DEF Alike
<1>13. \A j \in 1 .. n : x[8 + j] = r[j]
  BY <1>10 DEF Placed
<1>14. Sidecar(c, interface)[1] = x
  BY <1>5
<1>15. x[7] + 256 * x[8] = n
  BY <1>7, <1>12
<1> HIDE DEF r
<1> QED
  BY <1>3, <1>5, <1>6, <1>8, <1>10, <1>11, <1>13, <1>14, <1>15 DEF r, n

\* The 26 bytes in front of the configurations.
SetHead(s) ==
    Magic \o <<Version, Len(s.configurations)>> \o Le16(Len(Sidecars(s))) \o DeviceBytes(s)

\* What stands where in the head of a set: its magic, version, counts and
\* device.
LEMMA HeadRead ==
    ASSUME NEW s \in DescriptorSets, Encodable(s), Len(s.device) = 15
    PROVE  LET h == SetHead(s)
               n == Len(s.configurations)
           IN  /\ Long(h, Byte, 26)
               /\ \A j \in 1 .. 4 : h[j] = Magic[j]
               /\ h[5] = Version /\ h[6] = n /\ h[7] + 256 * h[8] = Len(Sidecars(s))
               /\ h[9] = 18 /\ h[10] = DeviceType /\ h[26] = n
               /\ \A j \in 1 .. 15 : h[10 + j] = s.device[j]
<1> DEFINE n == Len(s.configurations)
           k == Len(Sidecars(s))
           le == Le16(k)
           counts == <<Version, n>>
           six == Magic \o counts
           eight == six \o le
           body == Append(s.device, n)
           d == Descriptor(DeviceType, body)
           h == eight \o d
<1>1. n \in Byte
  <2>1. s.configurations \in Seq(Configurations) /\ n < 256
    BY DEF DescriptorSets, Encodable
  <2>2. n \in Nat
    BY <2>1, LenProperties
  <2> QED
    BY <2>1, <2>2, Small
<1>2. k \in Nat /\ k < Word
  BY SidecarsTyped
<1> HIDE DEF k
<1>3. Long(le, Byte, 2) /\ le[1] + 256 * le[2] = k
  BY <1>2, Le16Read
<1>4. Long(Magic, Byte, 4)
  <2>1. {87, 68, 69, 83} \subseteq Byte
    BY DEF Byte
  <2>2. ASSUME NEW a1 \in Byte, NEW a2 \in Byte, NEW a3 \in Byte, NEW a4 \in Byte
        PROVE  Long(<<a1, a2, a3, a4>>, Byte, 4)
    BY DEF Long
  <2> QED
    BY <2>1, <2>2 DEF Magic
<1> HIDE DEF n, le
<1>5. Long(counts, Byte, 2) /\ counts[1] = Version /\ counts[2] = n
  <2>1. Version \in Byte
    BY DEF Version, Byte
  <2> QED
    BY <1>1, <2>1, TwoBytes
<1> HIDE DEF counts
<1>6. 6 = 4 + 2 /\ 8 = 6 + 2 /\ 26 = 8 + 18 /\ 18 = 16 + 2 /\ 16 = 15 + 1
      /\ {2, 4, 6, 8, 15, 16, 18, 26} \subseteq Nat /\ 16 <= 253
  OBVIOUS
<1>7. Long(six, Byte, 6) /\ Alike(six, Magic, 4) /\ Placed(six, 4, counts, 2)
  BY <1>4, <1>5, <1>6, Joined, JoinedAt
<1> HIDE DEF six
<1>8. Long(eight, Byte, 8) /\ Alike(eight, six, 6) /\ Placed(eight, 6, le, 2)
  BY <1>3, <1>6, <1>7, Joined, JoinedAt
<1> HIDE DEF eight
<1>9. Long(body, Byte, 16) /\ body[16] = n /\ \A j \in 1 .. 15 : body[j] = s.device[j]
  <2>1. s.device \in Seq(Byte) /\ Len(s.device) = 15
    BY DEF DescriptorSets
  <2>2. /\ body \in Seq(Byte) /\ Len(body) = Len(s.device) + 1 /\ body[Len(s.device) + 1] = n
        /\ \A j \in 1 .. Len(s.device) : body[j] = s.device[j]
    <3> DEFINE device == s.device
    <3>1. device \in Seq(Byte)
      BY <2>1
    <3> HIDE DEF device
    <3>2. /\ Append(device, n) \in Seq(Byte) /\ Len(Append(device, n)) = Len(device) + 1
          /\ Append(device, n)[Len(device) + 1] = n
          /\ \A j \in 1 .. Len(device) : Append(device, n)[j] = device[j]
      BY <1>1, <3>1, AppendProperties
    <3> QED
      BY <3>2 DEF device
  <2> HIDE DEF body
  <2> QED
    BY <1>6, <2>1, <2>2 DEF Long
<1> HIDE DEF body
<1>10. Long(d, Byte, 18) /\ d[1] = 18 /\ d[2] = DeviceType /\ \A j \in 1 .. 16 : d[2 + j] = body[j]
  <2>1. DeviceType \in Byte
    BY DEF DeviceType, Byte
  <2> QED
    BY <1>6, <1>9, <2>1, DescriptorRead
<1> HIDE DEF d
<1>11. Long(h, Byte, 26) /\ Alike(h, eight, 8) /\ Placed(h, 8, d, 18)
  BY <1>6, <1>8, <1>10, Joined, JoinedAt
<1> HIDE DEF h
<1>12. \A j \in 1 .. 4 : h[j] = Magic[j]
  <2>1. ASSUME NEW j \in 1 .. 4
        PROVE  h[j] = Magic[j]
    <3>1. j \in 1 .. 6 /\ j \in 1 .. 8
      OBVIOUS
    <3> QED
      BY <1>7, <1>8, <1>11, <3>1 DEF Alike
  <2> QED
    BY <2>1
<1>13. h[5] = Version /\ h[6] = n
  <2>1. 5 = 4 + 1 /\ 6 = 4 + 2 /\ 1 \in 1 .. 2 /\ 2 \in 1 .. 2 /\ {5, 6} \subseteq 1 .. 6 /\ {5, 6} \subseteq 1 .. 8
    OBVIOUS
  <2>2. six[5] = counts[1] /\ six[6] = counts[2]
    BY <1>7, <2>1 DEF Placed
  <2> QED
    BY <1>5, <1>8, <1>11, <2>1, <2>2 DEF Alike
<1>14. h[7] = le[1] /\ h[8] = le[2]
  <2>1. 7 = 6 + 1 /\ 8 = 6 + 2 /\ 1 \in 1 .. 2 /\ 2 \in 1 .. 2 /\ {7, 8} \subseteq 1 .. 8
    OBVIOUS
  <2>2. eight[7] = le[1] /\ eight[8] = le[2]
    BY <1>8, <2>1 DEF Placed
  <2> QED
    BY <1>11, <2>1, <2>2 DEF Alike
<1>15. h[9] = d[1] /\ h[10] = d[2] /\ h[26] = d[18]
  <2>1. 9 = 8 + 1 /\ 10 = 8 + 2 /\ 26 = 8 + 18 /\ {1, 2, 18} \subseteq 1 .. 18
    OBVIOUS
  <2> QED
    BY <1>11, <2>1 DEF Placed
<1>16. d[18] = n
  <2>1. 18 = 2 + 16 /\ 16 \in 1 .. 16
    OBVIOUS
  <2> QED
    BY <1>9, <1>10, <2>1
<1>17. ASSUME NEW j \in 1 .. 15
       PROVE  h[10 + j] = s.device[j]
  <2>1. j \in 1 .. 16 /\ 2 + j \in 1 .. 18 /\ 8 + (2 + j) = 10 + j
    OBVIOUS
  <2>2. h[8 + (2 + j)] = d[2 + j]
    BY <1>11, <2>1 DEF Placed
  <2>3. d[2 + j] = s.device[j]
    BY <1>9, <1>10, <2>1
  <2> QED
    BY <2>1, <2>2, <2>3
<1>18. SetHead(s) = h
  BY DEF SetHead, DeviceBytes, h, eight, six, counts, le, k, n, d, body
<1>19. h[7] + 256 * h[8] = k
  BY <1>3, <1>14
<1> QED
  BY <1>10, <1>11, <1>12, <1>13, <1>15, <1>16, <1>17, <1>18, <1>19 DEF n, k

\* An encoding: its 26 bytes, the configurations, the sidecars.
EachConfiguration(configurations) ==
    [c \in DOMAIN configurations |-> ConfigurationBytes(configurations[c])]

\* An encoding is the head, the configurations and the sidecars.
LEMMA EncodeIs ==
    ASSUME NEW s
    PROVE  Encode(s) = SetHead(s) \o FlattenSeq(EachConfiguration(s.configurations))
                         \o FlattenSeq(Sidecars(s))
BY DEF Encode, SetHead, EachConfiguration

-----------------------------------------------------------------------------
(* Sets that are well formed                                               *)

EachInterface(interfaces) == [i \in DOMAIN interfaces |-> InterfaceBytes(interfaces[i])]

EachEndpoint(endpoints) == [e \in DOMAIN endpoints |-> Descriptor(EndpointType, endpoints[e])]

\* What follows the nine bytes of a configuration, and those of an interface.
Body(k) == FlattenSeq(k.extras) \o FlattenSeq(EachInterface(k.interfaces))

Inside(i) == FlattenSeq(i.extras) \o FlattenSeq(EachEndpoint(i.endpoints))

GoodInterface(i) ==
    /\ i \in Interfaces /\ i.extras \in Seq(ExtraDescriptors) /\ Len(i.endpoints) < 256
    /\ \A r \in DOMAIN i.report : Len(i.report[r]) < Word

\* A report is with the first interface of its number and alternate setting.
ReportFound(interfaces) ==
    \A i \in DOMAIN interfaces : interfaces[i].report # <<>> =>
        \A j \in 1 .. i - 1 : Setting(interfaces[j]) # Setting(interfaces[i])

GoodConfiguration(k) ==
    /\ k \in Configurations /\ k.extras \in Seq(ExtraDescriptors)
    /\ Len(k.interfaces) < 256 /\ Len(ConfigurationBytes(k)) < Word
    /\ \A i \in DOMAIN k.interfaces : GoodInterface(k.interfaces[i])
    /\ ReportFound(k.interfaces)

GoodSet(s) ==
    /\ s \in DescriptorSets /\ Len(s.device) = 15 /\ Len(s.configurations) < 256
    /\ \A c \in 1 .. Len(s.configurations) : GoodConfiguration(s.configurations[c])

\* WellFormed, configuration by configuration.
LEMMA WellFormedGood ==
    ASSUME NEW s, WellFormed(s)
    PROVE  GoodSet(s) /\ Encodable(s)
<1>1. s \in DescriptorSets /\ Len(s.device) = 15 /\ Encodable(s)
  BY DEF WellFormed
<1>2. s.configurations \in Seq(Configurations)
  BY <1>1 DEF DescriptorSets
<1> DEFINE L == Len(s.configurations)
<1>3. L \in Nat /\ DOMAIN s.configurations = 1 .. L /\ L < 256
  BY <1>1, <1>2, LenProperties DEF Encodable
<1>4. ASSUME NEW c \in 1 .. L
      PROVE  GoodConfiguration(s.configurations[c])
  <2> DEFINE k == s.configurations[c]
  <2>1. k \in Configurations
    BY <1>2, ElementOfSeq
  <2>2. /\ Len(k.interfaces) < 256 /\ Len(ConfigurationBytes(k)) < Word
        /\ \A i \in DOMAIN k.interfaces :
            /\ Len(k.interfaces[i].endpoints) < 256
            /\ \A r \in DOMAIN k.interfaces[i].report : Len(k.interfaces[i].report[r]) < Word
    BY <1>1, <1>3 DEF Encodable, Word
  <2>3. /\ k.extras \in Seq(ExtraDescriptors)
        /\ \A i \in DOMAIN k.interfaces :
            /\ k.interfaces[i].extras \in Seq(ExtraDescriptors)
            /\ k.interfaces[i].report # <<>> =>
                \A j \in 1 .. i - 1 : Setting(k.interfaces[j]) # Setting(k.interfaces[i])
    BY <1>3 DEF WellFormed
  <2> HIDE DEF k
  <2>4. k.interfaces \in Seq(Interfaces)
    BY <2>1 DEF Configurations
  <2>5. \A i \in DOMAIN k.interfaces : k.interfaces[i] \in Interfaces
    BY <2>4, ElementOfSeq, LenProperties
  <2>6. \A i \in DOMAIN k.interfaces : GoodInterface(k.interfaces[i])
    BY <2>2, <2>3, <2>5 DEF GoodInterface
  <2>7. ReportFound(k.interfaces)
    BY <2>3 DEF ReportFound
  <2>8. GoodConfiguration(k)
    BY <2>1, <2>2, <2>3, <2>6, <2>7 DEF GoodConfiguration
  <2> QED
    BY <2>8 DEF k
<1> QED
  BY <1>1, <1>3, <1>4 DEF GoodSet

\* A good set is well formed, so that all of it can be counted.
LEMMA GoodWellFormed ==
    ASSUME NEW s, GoodSet(s)
    PROVE  WellFormed(s)
<1>1. s \in DescriptorSets /\ Len(s.device) = 15 /\ Len(s.configurations) < 256
  BY DEF GoodSet
<1>2. s.configurations \in Seq(Configurations)
  BY <1>1 DEF DescriptorSets
<1>3. DOMAIN s.configurations = 1 .. Len(s.configurations)
  BY <1>2, LenProperties
<1>4. \A c \in DOMAIN s.configurations : GoodConfiguration(s.configurations[c])
  BY <1>3 DEF GoodSet
<1>5. Encodable(s)
  BY <1>1, <1>4 DEF Encodable, GoodConfiguration, GoodInterface, Word
<1>6. \A c \in DOMAIN s.configurations :
        LET interfaces == s.configurations[c].interfaces IN
        /\ s.configurations[c].extras \in Seq(ExtraDescriptors)
        /\ \A i \in DOMAIN interfaces :
            /\ interfaces[i].extras \in Seq(ExtraDescriptors)
            /\ interfaces[i].report # <<>> =>
                \A j \in 1 .. i - 1 : Setting(interfaces[j]) # Setting(interfaces[i])
  BY <1>4 DEF GoodConfiguration, GoodInterface, ReportFound
<1> QED
  BY <1>1, <1>5, <1>6 DEF WellFormed

\* Extra descriptors are bytes.
LEMMA ExtrasTyped ==
    ASSUME NEW extras \in Seq(ExtraDescriptors)
    PROVE  extras \in Seq(Seq(Byte))
<1>1. ExtraDescriptors \subseteq Seq(Byte)
  BY DEF ExtraDescriptors
<1> DEFINE B == Seq(Byte)
<1> HIDE DEF B
<1>2. ExtraDescriptors \subseteq B
  BY <1>1 DEF B
<1> QED
  BY <1>2, SeqWider DEF B

\* Endpoints as bytes, one by one.
LEMMA EachEndpointTyped ==
    ASSUME NEW endpoints \in Seq(Row(5))
    PROVE  EachEndpoint(endpoints) \in Seq(Seq(Byte)) /\ Len(EachEndpoint(endpoints)) = Len(endpoints)
<1> DEFINE B == Seq(Byte)
           n == Len(endpoints)
<1>1. DOMAIN endpoints = 1 .. n /\ n \in Nat
  BY LenProperties
<1>2. ASSUME NEW i \in 1 .. n
      PROVE  Descriptor(EndpointType, endpoints[i]) \in B
  <2>1. endpoints[i] \in Row(5)
    BY ElementOfSeq
  <2> QED
    BY <2>1, EndpointRead DEF Long
<1> HIDE DEF B, n
<1>3. EachEndpoint(endpoints) \in [1 .. n -> B]
  BY <1>1, <1>2 DEF EachEndpoint
<1>4. EachEndpoint(endpoints) \in Seq(B) /\ Len(EachEndpoint(endpoints)) = n
  BY <1>1, <1>3, EachTyped
<1> QED
  BY <1>4 DEF B, n

\* InterfaceBytes: nine bytes and what follows them.
LEMMA InterfaceIs ==
    ASSUME NEW i, GoodInterface(i)
    PROVE  /\ Long(InterfaceHead(i.fields, Len(i.endpoints)), Byte, 9)
           /\ Inside(i) \in Seq(Byte)
           /\ InterfaceBytes(i) = InterfaceHead(i.fields, Len(i.endpoints)) \o Inside(i)
<1>1. i.fields \in Row(6) /\ i.endpoints \in Seq(Row(5)) /\ i.extras \in Seq(Seq(Byte))
  BY DEF GoodInterface, Interfaces
<1>2. Len(i.endpoints) \in Byte
  <2>1. Len(i.endpoints) \in Nat /\ Len(i.endpoints) < 256
    BY <1>1, LenProperties DEF GoodInterface
  <2> QED
    BY <2>1, Small
<1> DEFINE h == InterfaceHead(i.fields, Len(i.endpoints))
           x == FlattenSeq(i.extras)
           y == FlattenSeq(EachEndpoint(i.endpoints))
<1>3. Long(h, Byte, 9)
  BY <1>1, <1>2, InterfaceRead
<1>4. x \in Seq(Byte) /\ y \in Seq(Byte)
  BY <1>1, EachEndpointTyped, FlattenTyped
<1>5. InterfaceBytes(i) = (h \o x) \o y
  BY DEF InterfaceBytes, InterfaceHead, EndpointBytes, EachEndpoint
<1> HIDE DEF h, x, y
<1>6. h \in Seq(Byte)
  BY <1>3 DEF Long
<1>7. (h \o x) \o y = h \o (x \o y) /\ x \o y \in Seq(Byte)
  <2>1. (h \o x) \o y = h \o (x \o y)
    BY <1>4, <1>6, ConcatAssociative
  <2>2. x \o y \in Seq(Byte)
    BY <1>4, Chained
  <2> QED
    BY <2>1, <2>2
<1> QED
  BY <1>3, <1>5, <1>7 DEF h, x, y, Inside

\* Interfaces as bytes, one by one.
LEMMA EachInterfaceTyped ==
    ASSUME NEW k, GoodConfiguration(k)
    PROVE  /\ EachInterface(k.interfaces) \in Seq(Seq(Byte))
           /\ Len(EachInterface(k.interfaces)) = Len(k.interfaces)
<1> DEFINE B == Seq(Byte)
           n == Len(k.interfaces)
<1>1. DOMAIN k.interfaces = 1 .. n /\ n \in Nat
  <2>1. k.interfaces \in Seq(Interfaces)
    BY DEF GoodConfiguration, Configurations
  <2> QED
    BY <2>1, LenProperties
<1>2. ASSUME NEW i \in 1 .. n
      PROVE  InterfaceBytes(k.interfaces[i]) \in B
  <2>1. GoodInterface(k.interfaces[i])
    BY <1>1 DEF GoodConfiguration
  <2> QED
    BY <2>1, InterfaceIs, Chained DEF Long
<1> HIDE DEF B, n
<1>3. EachInterface(k.interfaces) \in [1 .. n -> B]
  BY <1>1, <1>2 DEF EachInterface
<1>4. EachInterface(k.interfaces) \in Seq(B) /\ Len(EachInterface(k.interfaces)) = n
  BY <1>1, <1>3, EachTyped
<1> QED
  BY <1>4 DEF B, n

\* ConfigurationBytes: nine bytes and what follows them.
LEMMA ConfigurationIs ==
    ASSUME NEW k, GoodConfiguration(k)
    PROVE  LET total == 9 + Len(Body(k))
               n == Len(k.interfaces)
               h == ConfigurationHead(total, n, k.fields)
           IN  /\ Body(k) \in Seq(Byte) /\ total \in Nat /\ total < Word /\ n \in Byte
               /\ Long(k.fields, Byte, 4) /\ Long(h, Byte, 9)
               /\ ConfigurationBytes(k) = h \o Body(k)
<1> DEFINE total == 9 + Len(Body(k))
           n == Len(k.interfaces)
           h == ConfigurationHead(total, n, k.fields)
           m == Len(Body(k))
<1>1. k.fields \in Row(4) /\ k.interfaces \in Seq(Interfaces) /\ k.extras \in Seq(Seq(Byte))
  BY DEF GoodConfiguration, Configurations
<1>2. Long(k.fields, Byte, 4)
  BY <1>1 DEF Row, Long
<1>3. n \in Byte
  <2>1. n \in Nat /\ n < 256
    BY <1>1, LenProperties DEF GoodConfiguration
  <2> QED
    BY <2>1, Small
<1>4. Body(k) \in Seq(Byte) /\ m \in Nat
  <2>1. FlattenSeq(k.extras) \in Seq(Byte) /\ FlattenSeq(EachInterface(k.interfaces)) \in Seq(Byte)
    BY <1>1, EachInterfaceTyped, FlattenTyped
  <2> QED
    BY <2>1, Chained DEF Body
<1>5. ConfigurationBytes(k) = h \o Body(k)
  BY DEF ConfigurationBytes, ConfigurationHead, Body, EachInterface
<1>6. Len(h \o Body(k)) = 9 + m
  <2> DEFINE t == Le16(total)
             b == Body(k)
  <2>1. Long(t, Int, 2)
    <3>1. total % 256 \in Int /\ total \div 256 \in Int
      <4>1. \A a \in Nat : a % 256 \in Int /\ a \div 256 \in Int
        OBVIOUS
      <4>2. total \in Nat
        BY <1>4
      <4> HIDE DEF total
      <4> QED
        BY <4>1, <4>2, Zenon
    <3> HIDE DEF total
    <3> QED
      BY <3>1, TwoBytes DEF Le16
  <2>2. Byte \subseteq Int
    BY DEF Byte
  <2>3. Long(k.fields, Int, 4)
    BY <1>2, <2>2, SeqWider DEF Long
  <2>4. Long(b, Int, m)
    BY <1>4, <2>2, SeqWider DEF Long
  <2>5. n \in Int
    BY <1>3, <2>2
  <2> HIDE DEF t, b, m, n
  <2>6. Len(Descriptor(ConfigurationType, t \o <<n>> \o k.fields) \o b) = 9 + m
    BY <1>4, <2>1, <2>3, <2>4, <2>5, ConfigurationLength
  <2> QED
    BY <2>6 DEF t, b, n, ConfigurationHead
<1>7. total \in Nat /\ total < Word
  BY <1>4, <1>5, <1>6 DEF GoodConfiguration
<1> HIDE DEF total
<1>8. Long(h, Byte, 9)
  BY <1>2, <1>3, <1>7, ConfigurationRead
<1> QED
  BY <1>2, <1>3, <1>4, <1>5, <1>7, <1>8 DEF total

\* Configurations as bytes, one by one.
LEMMA EachConfigurationTyped ==
    ASSUME NEW s, GoodSet(s)
    PROVE  /\ EachConfiguration(s.configurations) \in Seq(Seq(Byte))
           /\ Len(EachConfiguration(s.configurations)) = Len(s.configurations)
<1> DEFINE B == Seq(Byte)
           n == Len(s.configurations)
<1>1. DOMAIN s.configurations = 1 .. n /\ n \in Nat
  <2>1. s.configurations \in Seq(Configurations)
    BY DEF GoodSet, DescriptorSets
  <2> QED
    BY <2>1, LenProperties
<1>2. ASSUME NEW c \in 1 .. n
      PROVE  ConfigurationBytes(s.configurations[c]) \in B
  <2>1. GoodConfiguration(s.configurations[c])
    BY DEF GoodSet
  <2> QED
    BY <2>1, ConfigurationIs, Chained DEF Long
<1> HIDE DEF B, n
<1>3. EachConfiguration(s.configurations) \in [1 .. n -> B]
  BY <1>1, <1>2 DEF EachConfiguration
<1>4. EachConfiguration(s.configurations) \in Seq(B) /\ Len(EachConfiguration(s.configurations)) = n
  BY <1>1, <1>3, EachTyped
<1> QED
  BY <1>4 DEF B, n

-----------------------------------------------------------------------------
(* Decoding the encoding of a set                                          *)

\* In b the rest goes on from o, as far as b goes, and ends at total.
Goes(b, o, rest, total) == rest \in Seq(Byte) /\ Continues(b, o, rest) /\ o + Len(rest) = total

\* Past a part that was taken, the bytes go on with the rest.
LEMMA GoesOn ==
    ASSUME NEW b \in Seq(Byte), NEW o \in Nat, NEW x \in Seq(Byte), NEW rest \in Seq(Byte),
           NEW total, Goes(b, o, x \o rest, total)
    PROVE  /\ Goes(b, o + Len(x), rest, total)
           /\ o + Len(x) <= Len(b) => Stands(b, o, x)
           /\ Continues(b, o, x)
           /\ o + Len(x) \in Nat /\ Len(rest) \in Nat /\ total = (o + Len(x)) + Len(rest)
<1>1. Len(x) \in Nat /\ Len(rest) \in Nat /\ Len(x \o rest) = Len(x) + Len(rest)
  BY LenProperties, ConcatProperties
<1>2. Continues(b, o, x) /\ Continues(b, o + Len(x), rest)
  BY ContinuesBoth DEF Goes
<1>3. o + Len(x) <= Len(b) => Stands(b, o, x)
  BY <1>2, ContinuesStands
<1>4. total = (o + Len(x)) + Len(rest) /\ o + Len(x) \in Nat
  BY <1>1 DEF Goes
<1> QED
  BY <1>1, <1>2, <1>3, <1>4 DEF Goes

\* What follows the first n configurations of an encoding.
Later(s, n) ==
    FlattenSeq(After(EachConfiguration(s.configurations), n)) \o FlattenSeq(Sidecars(s))

\* The sidecars of a set that can be sent, and their count.
LEMMA GoodSidecars ==
    ASSUME NEW s, GoodSet(s)
    PROVE  /\ Encodable(s) /\ s \in DescriptorSets
           /\ Sidecars(s) \in Seq(Seq(Byte)) /\ Len(Sidecars(s)) \in Nat /\ Len(Sidecars(s)) < Word
           /\ FlattenSeq(Sidecars(s)) \in Seq(Byte)
<1>1. Encodable(s) /\ s \in DescriptorSets
  BY GoodWellFormed DEF GoodSet, WellFormed
<1>2. Sidecars(s) \in Seq(Seq(Byte)) /\ Len(Sidecars(s)) \in Nat /\ Len(Sidecars(s)) < Word
  BY <1>1, SidecarsTyped
<1>3. FlattenSeq(Sidecars(s)) \in Seq(Byte)
  BY <1>2, FlattenTyped
<1> QED
  BY <1>1, <1>2, <1>3

\* What follows the first configurations is bytes.
LEMMA LaterTyped ==
    ASSUME NEW s, GoodSet(s), NEW n \in 0 .. Len(s.configurations)
    PROVE  Later(s, n) \in Seq(Byte)
<1> DEFINE B == Seq(Byte)
           each == EachConfiguration(s.configurations)
<1>1. each \in Seq(B) /\ Len(each) = Len(s.configurations)
  BY EachConfigurationTyped
<1> HIDE DEF B, each
<1>2. After(each, n) \in Seq(B)
  BY <1>1, AfterTyped
<1>3. FlattenSeq(After(each, n)) \in B
  BY <1>2, FlattenTyped DEF B
<1>4. FlattenSeq(Sidecars(s)) \in B
  BY GoodSidecars DEF B
<1> QED
  BY <1>3, <1>4, Chained DEF Later, each, B

\* It begins with the next configuration,
LEMMA LaterNext ==
    ASSUME NEW s, GoodSet(s), NEW n \in 0 .. Len(s.configurations) - 1
    PROVE  /\ GoodConfiguration(s.configurations[n + 1])
           /\ ConfigurationBytes(s.configurations[n + 1]) \in Seq(Byte)
           /\ Later(s, n) = ConfigurationBytes(s.configurations[n + 1]) \o Later(s, n + 1)
<1> DEFINE B == Seq(Byte)
           each == EachConfiguration(s.configurations)
           k == s.configurations[n + 1]
           L == Len(s.configurations)
<1>1. s.configurations \in Seq(Configurations)
  BY DEF GoodSet, DescriptorSets
<1>2. L \in Nat /\ DOMAIN s.configurations = 1 .. L
  BY <1>1, LenProperties
<1>3. each \in Seq(B) /\ Len(each) = L
  BY EachConfigurationTyped
<1> HIDE DEF L
<1>4. n + 1 \in 1 .. L /\ n \in 0 .. L - 1 /\ n \in 0 .. L /\ n + 1 \in 0 .. L
  BY <1>2 DEF L
<1>5. GoodConfiguration(k)
  BY <1>4 DEF GoodSet, L
<1>6. each[n + 1] = ConfigurationBytes(k)
  BY <1>2, <1>4 DEF EachConfiguration
<1>7. ConfigurationBytes(k) \in B
  <2>1. 1 \in 1 .. 1
    OBVIOUS
  <2> QED
    BY <1>5, ConfigurationIs, Chained DEF Long
<1> HIDE DEF B, each, k
<1>8. FlattenSeq(After(each, n)) = each[n + 1] \o FlattenSeq(After(each, n + 1))
  BY <1>3, <1>4, FlattenNext DEF B
<1> DEFINE rest == FlattenSeq(After(each, n + 1))
           sidecars == FlattenSeq(Sidecars(s))
<1>9. rest \in B
  <2>1. After(each, n + 1) \in Seq(B)
    BY <1>3, <1>4, AfterTyped
  <2> QED
    BY <2>1, FlattenTyped DEF B
<1>10. sidecars \in B
  BY GoodSidecars DEF B
<1>11. Later(s, n) = (ConfigurationBytes(k) \o rest) \o sidecars
  BY <1>6, <1>8 DEF Later, each
<1>12. Later(s, n + 1) = rest \o sidecars
  BY DEF Later, each
<1> HIDE DEF rest, sidecars
<1>13. (ConfigurationBytes(k) \o rest) \o sidecars = ConfigurationBytes(k) \o (rest \o sidecars)
  BY <1>7, <1>9, <1>10, ConcatAssociative DEF B
<1> QED
  BY <1>5, <1>7, <1>11, <1>12, <1>13 DEF k, B

\* and ends with the sidecars; at first it is all that follows the head.
LEMMA LaterAll ==
    ASSUME NEW s, GoodSet(s)
    PROVE  /\ Later(s, Len(s.configurations)) = FlattenSeq(Sidecars(s))
           /\ Encode(s) = SetHead(s) \o Later(s, 0)
           /\ Long(SetHead(s), Byte, 26)
<1> DEFINE B == Seq(Byte)
           each == EachConfiguration(s.configurations)
           sidecars == FlattenSeq(Sidecars(s))
<1>1. each \in Seq(B) /\ Len(each) = Len(s.configurations)
  BY EachConfigurationTyped
<1>2. sidecars \in B
  BY GoodSidecars
<1>3. FlattenSeq(each) \in B
  BY <1>1, FlattenTyped
<1> HIDE DEF B, each
<1>4. After(each, 0) = each /\ After(each, Len(each)) = <<>>
  BY <1>1, AfterNone, AfterAll
<1>5. Later(s, Len(s.configurations)) = <<>> \o sidecars
  BY <1>1, <1>4, FlattenEmpty DEF Later, each
<1>6. <<>> \o sidecars = sidecars
  <2> HIDE DEF sidecars
  <2> QED
    BY <1>2, ConcatEmptySeq DEF B
<1>7. Long(SetHead(s), Byte, 26)
  <2>1. Len(s.device) = 15
    BY DEF GoodSet
  <2> QED
    BY <2>1, GoodSidecars, HeadRead
<1>8. Encode(s) = (SetHead(s) \o FlattenSeq(each)) \o sidecars
  BY EncodeIs DEF each
<1>9. Later(s, 0) = FlattenSeq(each) \o sidecars
  BY <1>4 DEF Later, each
<1> HIDE DEF sidecars
<1>10. SetHead(s) \in B
  BY <1>7 DEF Long, B
<1>11. (SetHead(s) \o FlattenSeq(each)) \o sidecars = SetHead(s) \o (FlattenSeq(each) \o sidecars)
  <2> DEFINE h == SetHead(s)
             f == FlattenSeq(each)
  <2>1. h \in Seq(Byte) /\ f \in Seq(Byte) /\ sidecars \in Seq(Byte)
    BY <1>2, <1>3, <1>10 DEF B
  <2> HIDE DEF h, f
  <2>2. (h \o f) \o sidecars = h \o (f \o sidecars)
    BY <2>1, ConcatAssociative
  <2> QED
    BY <2>2 DEF h, f
<1> QED
  BY <1>5, <1>6, <1>7, <1>8, <1>9, <1>11 DEF sidecars

-----------------------------------------------------------------------------
(* The set as far as it has been decoded                                   *)

\* An interface whose report has come, if its sidecar is among those of T.
Given(c, i, T) ==
    [i EXCEPT !.report = IF i.report # <<>> /\ Sidecar(c, i)[1] \in T THEN i.report ELSE <<>>]

Partly(c, k, T) == [k EXCEPT !.interfaces = [i \in DOMAIN k.interfaces |-> Given(c, k.interfaces[i], T)]]

Partial(s, T) == [c \in 1 .. Len(s.configurations) |-> Partly(c, s.configurations[c], T)]

\* Its first n configurations, before the sidecars.
Upto(s, n) == [device |-> s.device, configurations |-> SubSeq(Partial(s, {}), 1, n)]

With(s, T) == [device |-> s.device, configurations |-> Partial(s, T)]

\* An interface of which some reports are there is one, and keeps its setting.
LEMMA GivenTyped ==
    ASSUME NEW c, NEW i \in Interfaces, NEW T
    PROVE  /\ Given(c, i, T) \in Interfaces
           /\ Given(c, i, T).fields = i.fields /\ Given(c, i, T).extras = i.extras
           /\ Given(c, i, T).endpoints = i.endpoints
           /\ Given(c, i, T).report = IF i.report # <<>> /\ Sidecar(c, i)[1] \in T THEN i.report ELSE <<>>
           /\ Setting(Given(c, i, T)) = Setting(i)
<1> DEFINE r == IF i.report # <<>> /\ Sidecar(c, i)[1] \in T THEN i.report ELSE <<>>
<1>1. Given(c, i, T) = [i EXCEPT !.report = r]
  BY DEF Given
<1>2. r \in {t \in Seq(Seq(Byte)) : Len(t) <= 1}
  <2>1. i.report \in {t \in Seq(Seq(Byte)) : Len(t) <= 1}
    BY DEF Interfaces
  <2>2. <<>> \in {t \in Seq(Seq(Byte)) : Len(t) <= 1}
    OBVIOUS
  <2> QED
    BY <2>1, <2>2, Zenon
<1> HIDE DEF r
<1>3. Given(c, i, T).report = r
  BY <1>1 DEF Interfaces
<1>4. Given(c, i, T) \in Interfaces
  BY <1>1, <1>2 DEF Interfaces
<1>5. /\ Given(c, i, T).fields = i.fields /\ Given(c, i, T).extras = i.extras
      /\ Given(c, i, T).endpoints = i.endpoints
  BY <1>1 DEF Interfaces
<1> QED
  BY <1>3, <1>4, <1>5 DEF Setting, r

\* Parts of an encoding, one behind the other.
LEMMA Regrouped ==
    ASSUME NEW x \in Seq(Byte), NEW y \in Seq(Byte), NEW z \in Seq(Byte)
    PROVE  /\ (x \o y) \o z = x \o (y \o z)
           /\ x \o y \in Seq(Byte) /\ y \o z \in Seq(Byte)
           /\ (x \o y) \o z \in Seq(Byte)
<1>1. (x \o y) \o z = x \o (y \o z)
  BY ConcatAssociative
<1>2. x \o y \in Seq(Byte) /\ y \o z \in Seq(Byte)
  BY Chained
<1> DEFINE xy == x \o y
<1> HIDE DEF xy
<1>3. xy \o z \in Seq(Byte)
  BY <1>2, Chained DEF xy
<1> QED
  BY <1>1, <1>2, <1>3 DEF xy

\* The length of two rows of bytes, one behind the other.
LEMMA TwoLengths ==
    ASSUME NEW x \in Seq(Byte), NEW y \in Seq(Byte)
    PROVE  /\ x \o y \in Seq(Byte) /\ Len(x) \in Nat /\ Len(y) \in Nat
           /\ Len(x \o y) = Len(x) + Len(y)
BY ConcatProperties, LenProperties

\* What the header says of the set that was encoded.
HeaderSays(s, b) ==
    /\ SubSeq(b, 1, 4) = Magic /\ b[5] = Version
    /\ b[6] = Len(s.configurations) /\ b[26] = Len(s.configurations)
    /\ b[7] + 256 * b[8] = Len(Sidecars(s))
    /\ b[9] = 18 /\ b[10] = DeviceType
    /\ SubSeq(b, 11, 25) = s.device

\* What decode reads in the first 26 bytes, when a set arrives
\* (lib.rs:947-977).
LEMMA HeaderKnown ==
    ASSUME NEW s, GoodSet(s), NEW b \in Seq(Byte), NEW total, Goes(b, 0, Encode(s), total)
    PROVE  /\ Len(b) >= 26 => HeaderSays(s, b) /\ Goes(b, 26, Later(s, 0), total)
           /\ Len(b) = total => Len(b) >= 26
<1> DEFINE h == SetHead(s)
           n == Len(s.configurations)
<1>1. Encode(s) = h \o Later(s, 0) /\ Long(h, Byte, 26)
  BY LaterAll
<1>2. Later(s, 0) \in Seq(Byte)
  <2>1. 0 \in 0 .. Len(s.configurations)
    <3>1. s.configurations \in Seq(Configurations)
      BY DEF GoodSet, DescriptorSets
    <3>2. Len(s.configurations) \in Nat
      BY <3>1, LenProperties
    <3> QED
      BY <3>2
  <2> QED
    BY <2>1, LaterTyped
<1>3. /\ \A j \in 1 .. 4 : h[j] = Magic[j]
      /\ h[5] = Version /\ h[6] = n /\ h[7] + 256 * h[8] = Len(Sidecars(s))
      /\ h[9] = 18 /\ h[10] = DeviceType /\ h[26] = n
      /\ \A j \in 1 .. 15 : h[10 + j] = s.device[j]
  BY GoodSidecars, HeadRead DEF GoodSet
<1> HIDE DEF h, n
<1>4. h \in Seq(Byte) /\ Len(h) = 26
  BY <1>1 DEF Long
<1>5. 0 \in Nat /\ 0 + 26 = 26
  OBVIOUS
<1> DEFINE later == Later(s, 0)
<1>6. /\ Goes(b, 0 + Len(h), later, total)
      /\ 0 + Len(h) <= Len(b) => Stands(b, 0, h)
      /\ Len(later) \in Nat /\ total = (0 + Len(h)) + Len(later)
  <2>1. Goes(b, 0, h \o later, total)
    BY <1>1
  <2>2. later \in Seq(Byte)
    BY <1>2
  <2>3. h \in Seq(Byte)
    BY <1>4
  <2> HIDE DEF later
  <2> QED
    BY <1>5, <2>1, <2>2, <2>3, GoesOn
<1>7. ASSUME Len(b) >= 26
      PROVE  HeaderSays(s, b)
  <2>1. Stands(b, 0, h)
    BY <1>4, <1>6, <1>7
  <2>2. \A i \in 1 .. 26 : b[i] = h[i]
    <3>1. \A i \in 1 .. 26 : b[0 + i] = h[i]
      BY <1>4, <2>1 DEF Stands
    <3>2. \A i \in 1 .. 26 : 0 + i = i
      OBVIOUS
    <3> QED
      BY <3>1, <3>2
  <2>3. {5, 6, 7, 8, 9, 10, 26} \subseteq 1 .. 26
    OBVIOUS
  <2>4. /\ b[5] = Version /\ b[6] = n /\ b[7] + 256 * b[8] = Len(Sidecars(s))
        /\ b[9] = 18 /\ b[10] = DeviceType /\ b[26] = n
    BY <1>3, <2>2, <2>3
  <2>5. SubSeq(b, 11, 25) = s.device
    <3> DEFINE t == s.device
    <3>1. t \in Seq(Byte) /\ Len(t) = 15
      BY DEF GoodSet, DescriptorSets
    <3>2. Placed(h, 10, t, 15)
      BY <1>3 DEF Placed
    <3> HIDE DEF t
    <3>3. 10 + 15 <= Len(h) /\ 10 \in Nat /\ 15 \in Nat
      BY <1>4
    <3>4. 11 = 0 + (10 + 1) /\ 25 = 0 + (10 + 15)
      OBVIOUS
    <3>5. PartAt(b, 0, 10, 15, t)
      <4>1. h \in Seq(Byte)
        BY <1>4
      <4> QED
        BY <1>5, <2>1, <3>1, <3>2, <3>3, <4>1, StandsPart
    <3> QED
      BY <3>4, <3>5 DEF t, PartAt
  <2>6. SubSeq(b, 1, 4) = Magic
    <3>1. Magic \in Seq(Byte) /\ Len(Magic) = 4
      BY DEF Magic, Byte
    <3>2. Placed(h, 0, Magic, 4)
      <4>1. \A j \in 1 .. 4 : 0 + j = j
        OBVIOUS
      <4> QED
        BY <1>3, <4>1 DEF Placed
    <3>3. 0 + 4 <= Len(h) /\ 0 \in Nat /\ 4 \in Nat
      BY <1>4
    <3>4. 1 = 0 + (0 + 1) /\ 4 = 0 + (0 + 4)
      OBVIOUS
    <3>5. PartAt(b, 0, 0, 4, Magic)
      <4>1. h \in Seq(Byte)
        BY <1>4
      <4> QED
        BY <1>5, <2>1, <3>1, <3>2, <3>3, <4>1, StandsPart
    <3> QED
      BY <3>4, <3>5 DEF PartAt
  <2> QED
    BY <2>4, <2>5, <2>6 DEF HeaderSays, n
<1>8. Goes(b, 26, Later(s, 0), total)
  BY <1>4, <1>5, <1>6
<1>9. ASSUME Len(b) = total
      PROVE  Len(b) >= 26
  <2> DEFINE l == Len(Later(s, 0))
  <2>1. l \in Nat /\ total = (0 + Len(h)) + l
    BY <1>6
  <2> HIDE DEF l
  <2>2. total >= 26
    BY <1>4, <2>1
  <2> QED
    BY <1>9, <2>2
<1> QED
  BY <1>7, <1>8, <1>9

\* What the nine bytes of a configuration say of it.
ConfigurationSays(k, b, o) ==
    /\ b[o + 1] = 9 /\ b[o + 2] = ConfigurationType
    /\ b[o + 3] + 256 * b[(o + 3) + 1] = 9 + Len(Body(k))
    /\ b[o + 5] = Len(k.interfaces)
    /\ SubSeq(b, o + 6, o + 9) = k.fields

\* What decode reads in the head of the next configuration (lib.rs:1149-1160).
LEMMA ConfigurationKnown ==
    ASSUME NEW s, GoodSet(s), NEW n \in 0 .. Len(s.configurations) - 1,
           NEW b \in Seq(Byte), NEW o \in Nat, NEW total, Goes(b, o, Later(s, n), total)
    PROVE  LET k == s.configurations[n + 1] IN
           /\ GoodConfiguration(k) /\ Body(k) \in Seq(Byte)
           /\ o + 9 <= Len(b) => /\ ConfigurationSays(k, b, o)
                                 /\ Goes(b, o + 9, Body(k) \o Later(s, n + 1), total)
           /\ Len(b) = total => o + (9 + Len(Body(k))) <= Len(b)
<1> DEFINE k == s.configurations[n + 1]
           t == 9 + Len(Body(k))
           m == Len(k.interfaces)
           h == ConfigurationHead(t, m, k.fields)
           later == Later(s, n + 1)
           body == Body(k)
<1>1. GoodConfiguration(k) /\ Later(s, n) = ConfigurationBytes(k) \o later
  BY LaterNext
<1> HIDE DEF k
<1>2. later \in Seq(Byte)
  <2> DEFINE L == Len(s.configurations)
  <2>1. s.configurations \in Seq(Configurations)
    BY DEF GoodSet, DescriptorSets
  <2>2. L \in Nat
    BY <2>1, LenProperties
  <2>3. n + 1 \in 0 .. L
    <3>1. n \in 0 .. L - 1
      OBVIOUS
    <3> HIDE DEF L
    <3> QED
      BY <2>2, <3>1
  <2> QED
    BY <2>3, LaterTyped
<1>3. /\ body \in Seq(Byte) /\ t \in Nat /\ t < Word /\ m \in Byte
      /\ Long(k.fields, Byte, 4) /\ Long(h, Byte, 9)
      /\ ConfigurationBytes(k) = h \o body
  BY <1>1, ConfigurationIs
<1>4. /\ h[1] = 9 /\ h[2] = ConfigurationType
      /\ h[3] + 256 * h[4] = t /\ h[5] = m
      /\ \A j \in 1 .. 4 : h[5 + j] = k.fields[j]
  BY <1>3, ConfigurationRead
<1>5. h \in Seq(Byte) /\ Len(h) = 9 /\ Len(body) \in Nat
  BY <1>3, LenProperties DEF Long
<1>6. Goes(b, o, (h \o body) \o later, total)
  BY <1>1, <1>3
<1> HIDE DEF h, later, body, m
<1>7. (h \o body) \o later = h \o (body \o later) /\ body \o later \in Seq(Byte) /\ h \o body \in Seq(Byte)
  <2>1. h \in Seq(Byte)
    BY <1>5
  <2>2. body \in Seq(Byte)
    BY <1>3
  <2>3. Regroups(h, body, later)
    BY <1>2, <2>1, <2>2, Regrouping
  <2>4. body \o later \in Seq(Byte) /\ h \o body \in Seq(Byte)
    BY <1>2, <2>1, <2>2, Chained
  <2> QED
    BY <2>3, <2>4 DEF Regroups
<1>8. Goes(b, o, h \o (body \o later), total)
  BY <1>6, <1>7
<1>9. /\ Goes(b, o + 9, body \o later, total)
      /\ o + 9 <= Len(b) => Stands(b, o, h)
  BY <1>5, <1>7, <1>8, GoesOn
<1>10. ASSUME Len(b) = total
       PROVE  o + t <= Len(b)
  <2>1. total = (o + Len(h \o body)) + Len(later) /\ Len(later) \in Nat
    <3> DEFINE hb == h \o body
    <3>1. hb \in Seq(Byte)
      BY <1>7
    <3>2. Goes(b, o, hb \o later, total)
      BY <1>6
    <3> HIDE DEF hb
    <3>3. total = (o + Len(hb)) + Len(later) /\ Len(later) \in Nat
      BY <1>2, <3>1, <3>2, GoesOn
    <3> QED
      BY <3>3 DEF hb
  <2>2. Len(h \o body) = 9 + Len(body)
    <3>1. h \in Seq(Byte) /\ Len(h) = 9
      BY <1>5
    <3>2. body \in Seq(Byte)
      BY <1>3
    <3>3. Len(h \o body) = Len(h) + Len(body)
      BY <3>1, <3>2, TwoLengths
    <3> QED
      BY <3>1, <3>3
  <2>3. t = 9 + Len(body)
    BY DEF body
  <2> HIDE DEF t
  <2>4. total >= o + t
    BY <1>5, <2>1, <2>2, <2>3
  <2> QED
    BY <1>10, <2>4
<1>11. ASSUME o + 9 <= Len(b)
       PROVE  ConfigurationSays(k, b, o)
  <2>1. Stands(b, o, h)
    BY <1>9, <1>11
  <2>2. \A i \in 1 .. 9 : b[o + i] = h[i]
    <3>1. Len(h) = 9
      BY <1>5
    <3>2. \A i \in 1 .. Len(h) : b[o + i] = h[i]
      BY <2>1 DEF Stands
    <3> QED
      BY <3>1, <3>2
  <2>3. {1, 2, 3, 4, 5} \subseteq 1 .. 9 /\ (o + 3) + 1 = o + 4
    OBVIOUS
  <2>4. /\ b[o + 1] = 9 /\ b[o + 2] = ConfigurationType
        /\ b[o + 3] + 256 * b[(o + 3) + 1] = t /\ b[o + 5] = m
    BY <1>4, <2>2, <2>3
  <2>5. SubSeq(b, o + 6, o + 9) = k.fields
    <3> DEFINE f == k.fields
    <3>1. f \in Seq(Byte) /\ Len(f) = 4 /\ Placed(h, 5, f, 4)
      BY <1>3, <1>4 DEF Long, Placed
    <3> HIDE DEF f
    <3>2. 5 + 4 <= Len(h) /\ 5 \in Nat /\ 4 \in Nat
      BY <1>5
    <3>3. o + 6 = o + (5 + 1) /\ o + 9 = o + (5 + 4)
      OBVIOUS
    <3>4. h \in Seq(Byte)
      BY <1>5
    <3>5. PartAt(b, o, 5, 4, f)
      BY <2>1, <3>1, <3>2, <3>4, StandsPart
    <3> QED
      BY <3>3, <3>5 DEF f, PartAt
  <2> QED
    BY <2>4, <2>5 DEF ConfigurationSays, m
<1> QED
  BY <1>1, <1>3, <1>9, <1>10, <1>11 DEF k, body, later

-----------------------------------------------------------------------------
(* What has been taken of a sequence, and what is left of it               *)

\* The first elements of a row.
LEMMA PrefixTyped ==
    ASSUME NEW S, NEW q \in Seq(S), NEW n \in 0 .. Len(q)
    PROVE  SubSeq(q, 1, n) \in Seq(S) /\ Len(SubSeq(q, 1, n)) = n
<1>1. Len(q) \in Nat /\ n \in Nat
  BY LenProperties
<1>2. CASE n = 0
  <2>1. SubSeq(q, 1, 0) = <<>> /\ <<>> \in Seq(S) /\ Len(<<>>) = 0
    BY <1>1
  <2> QED
    BY <1>2, <2>1
<1>3. CASE n # 0
  <2>1. 1 <= n /\ n <= Len(q) /\ 1 \in Nat \ {0}
    BY <1>1, <1>3
  <2>2. SubSeq(q, 1, n) \in Seq(S) /\ Len(SubSeq(q, 1, n)) = n - 1 + 1
    BY <1>1, <2>1, PartOfRow
  <2>3. n - 1 + 1 = n
    BY <1>1
  <2> QED
    BY <2>2, <2>3
<1> QED
  BY <1>2, <1>3

\* None of them, and all of them.
LEMMA PrefixNone ==
    ASSUME NEW S, NEW q \in Seq(S)
    PROVE  SubSeq(q, 1, 0) = <<>>
OBVIOUS

\* All of them are the row.
LEMMA PrefixAll ==
    ASSUME NEW S, NEW q \in Seq(S)
    PROVE  SubSeq(q, 1, Len(q)) = q
BY AfterNone DEF After

\* The element after the first n joins them.
LEMMA PrefixGrows ==
    ASSUME NEW S, NEW q \in Seq(S), NEW n \in 0 .. Len(q) - 1
    PROVE  Append(SubSeq(q, 1, n), q[n + 1]) = SubSeq(q, 1, n + 1)
<1> DEFINE a == SubSeq(q, 1, n)
           c == SubSeq(q, 1, n + 1)
<1>1. Len(q) \in Nat /\ n \in Nat /\ n \in 0 .. Len(q) /\ n + 1 \in 0 .. Len(q) /\ n + 1 \in 1 .. Len(q)
  <2>1. Len(q) \in Nat
    BY LenProperties
  <2> QED
    BY <2>1
<1>2. a \in Seq(S) /\ Len(a) = n /\ c \in Seq(S) /\ Len(c) = n + 1
  BY <1>1, PrefixTyped
<1>3. q[n + 1] \in S
  BY <1>1, ElementOfSeq
<1>4. \A i \in 1 .. n : a[i] = q[i]
  <2>1. \A i \in 1 .. n - 1 + 1 : a[i] = q[1 + i - 1]
    <3>1. \A i \in 1 .. n : q[i] \in S
      <4>1. \A i \in 1 .. n : i \in 1 .. Len(q)
        BY <1>1
      <4> QED
        BY <4>1, ElementOfSeq
    <3> QED
      BY <1>1, <3>1, SubSeqProperties
  <2>2. \A i \in 1 .. n : i \in 1 .. n - 1 + 1 /\ 1 + i - 1 = i
    BY <1>1
  <2> QED
    BY <2>1, <2>2
<1>5. \A i \in 1 .. n + 1 : c[i] = q[i]
  <2> DEFINE m == n + 1
  <2>1. m \in Nat /\ m \in 1 .. Len(q)
    BY <1>1
  <2> HIDE DEF m
  <2>2. \A i \in 1 .. m - 1 + 1 : SubSeq(q, 1, m)[i] = q[1 + i - 1]
    <3>1. \A i \in 1 .. m : q[i] \in S
      <4>1. \A i \in 1 .. m : i \in 1 .. Len(q)
        BY <1>1, <2>1
      <4> QED
        BY <4>1, ElementOfSeq
    <3> QED
      BY <2>1, <3>1, SubSeqProperties
  <2>3. \A i \in 1 .. m : i \in 1 .. m - 1 + 1 /\ 1 + i - 1 = i
    BY <2>1
  <2>4. \A i \in 1 .. m : SubSeq(q, 1, m)[i] = q[i]
    BY <2>2, <2>3
  <2> QED
    BY <2>4 DEF m
<1> HIDE DEF a, c
<1> DEFINE e == q[n + 1]
           d == Append(a, e)
<1>6. e \in S /\ c[n + 1] = e
  BY <1>1, <1>3, <1>5
<1> HIDE DEF e
<1>7. /\ d \in Seq(S) /\ Len(d) = n + 1 /\ d[n + 1] = e
      /\ \A i \in 1 .. n : d[i] = a[i]
  BY <1>2, <1>6, AppendProperties
<1> HIDE DEF d
<1>8. \A i \in 1 .. n + 1 : d[i] = c[i]
  <2>1. \A i \in 1 .. n + 1 : i \in 1 .. n \/ i = n + 1
    BY <1>1
  <2>2. ASSUME NEW i \in 1 .. n + 1
        PROVE  d[i] = c[i]
    <3>1. CASE i \in 1 .. n
      BY <1>4, <1>5, <1>7, <3>1
    <3>2. CASE i = n + 1
      BY <1>6, <1>7, <3>2
    <3> QED
      BY <2>1, <3>1, <3>2
  <2> QED
    BY <2>2
<1>9. d = c
  <2>1. Len(d) = Len(c) /\ \A i \in 1 .. Len(d) : d[i] = c[i]
    BY <1>2, <1>7, <1>8
  <2> QED
    BY <1>2, <1>7, <2>1, SeqEqual
<1> QED
  BY <1>9 DEF d, e, a, c

\* Nothing follows all of a row,
LEMMA FlattenNone ==
    ASSUME NEW S, NEW q \in Seq(Seq(S))
    PROVE  FlattenSeq(After(q, Len(q))) = <<>>
<1> DEFINE B == Seq(S)
<1>1. q \in Seq(B)
  OBVIOUS
<1> HIDE DEF B
<1>2. After(q, Len(q)) = <<>>
  BY <1>1, AfterAll
<1> QED
  BY <1>2, FlattenEmpty

\* Typed parts.
LEMMA FlattenRest ==
    ASSUME NEW q \in Seq(Seq(Byte)), NEW n \in 0 .. Len(q)
    PROVE  FlattenSeq(After(q, n)) \in Seq(Byte)
<1> DEFINE B == Seq(Byte)
<1>1. q \in Seq(B)
  OBVIOUS
<1> HIDE DEF B
<1>2. After(q, n) \in Seq(B)
  BY <1>1, AfterTyped
<1> QED
  BY <1>2, FlattenTyped DEF B

\* and before that the next of them does.
LEMMA FlattenMore ==
    ASSUME NEW q \in Seq(Seq(Byte)), NEW n \in 0 .. Len(q) - 1
    PROVE  /\ FlattenSeq(After(q, n)) = q[n + 1] \o FlattenSeq(After(q, n + 1))
           /\ q[n + 1] \in Seq(Byte) /\ FlattenSeq(After(q, n + 1)) \in Seq(Byte)
<1> DEFINE B == Seq(Byte)
<1>1. q \in Seq(B)
  OBVIOUS
<1>2. FlattenSeq(After(q, n)) = q[n + 1] \o FlattenSeq(After(q, n + 1))
  BY FlattenNext
<1> HIDE DEF B
<1>3. Len(q) \in Nat
  BY <1>1, LenProperties
<1>4. n + 1 \in 1 .. Len(q) /\ n + 1 \in 0 .. Len(q)
  BY <1>3
<1>5. q[n + 1] \in B
  BY <1>1, <1>4, ElementOfSeq
<1>6. FlattenSeq(After(q, n + 1)) \in Seq(Byte)
  BY <1>1, <1>4, FlattenRest DEF B
<1> QED
  BY <1>2, <1>5, <1>6 DEF B

-----------------------------------------------------------------------------
(* Inside a configuration                                                  *)

\* The interfaces of a configuration, before the sidecars.
Bare(i) == [i EXCEPT !.report = <<>>]

Bared(k) == [i \in DOMAIN k.interfaces |-> Bare(k.interfaces[i])]

\* A configuration and an interface of which part has been taken.
Opened(k, extras, interfaces) ==
    [fields |-> k.fields, extras |-> extras, interfaces |-> interfaces,
     expected |-> Len(k.interfaces)]

Half(i, extras, endpoints) ==
    [fields |-> i.fields, extras |-> extras, endpoints |-> endpoints,
     expected |-> Len(i.endpoints)]

\* What is left of the i-th interface after j further descriptors and e
\* endpoints, and of the configuration.
InterfacePart(k, i, j, e) ==
    (FlattenSeq(After(k.interfaces[i].extras, j))
       \o FlattenSeq(After(EachEndpoint(k.interfaces[i].endpoints), e)))
         \o FlattenSeq(After(EachInterface(k.interfaces), i))

\* Where the decoder is: before the interfaces, or within one.  open and cur
\* are what it holds open, part is what is left of the configuration.
Before(k, open, cur, part, j) ==
    /\ cur = <<>> /\ open = <<Opened(k, SubSeq(k.extras, 1, j), <<>>)>>
    /\ part = FlattenSeq(After(k.extras, j)) \o FlattenSeq(EachInterface(k.interfaces))

Within(k, open, cur, part, i, j, e) ==
    LET I == k.interfaces[i] IN
    /\ open = <<Opened(k, k.extras, SubSeq(Bared(k), 1, i - 1))>>
    /\ cur = <<Half(I, SubSeq(I.extras, 1, j), SubSeq(I.endpoints, 1, e))>>
    /\ e # 0 => j = Len(I.extras)
    /\ part = InterfacePart(k, i, j, e)

Place(k, open, cur, part) ==
    \/ \E j \in 0 .. Len(k.extras) : Before(k, open, cur, part, j)
    \/ \E i \in 1 .. Len(k.interfaces) :
        \E j \in 0 .. Len(k.interfaces[i].extras), e \in 0 .. Len(k.interfaces[i].endpoints) :
            Within(k, open, cur, part, i, j, e)

\* Its parts are sequences of bytes.
LEMMA InterfaceParts ==
    ASSUME NEW k, GoodConfiguration(k), NEW i \in 1 .. Len(k.interfaces)
    PROVE  LET I == k.interfaces[i] IN
           /\ GoodInterface(I) /\ I \in Interfaces
           /\ I.extras \in Seq(ExtraDescriptors) /\ I.extras \in Seq(Seq(Byte))
           /\ I.endpoints \in Seq(Row(5))
           /\ EachEndpoint(I.endpoints) \in Seq(Seq(Byte))
           /\ Len(EachEndpoint(I.endpoints)) = Len(I.endpoints)
           /\ Len(I.extras) \in Nat /\ Len(I.endpoints) \in Nat /\ Len(I.endpoints) < 256
           /\ FlattenSeq(After(EachInterface(k.interfaces), i)) \in Seq(Byte)
<1> DEFINE I == k.interfaces[i]
           each == EachInterface(k.interfaces)
<1>1. each \in Seq(Seq(Byte)) /\ Len(each) = Len(k.interfaces)
  BY EachInterfaceTyped
<1>2. k.interfaces \in Seq(Interfaces)
  BY DEF GoodConfiguration, Configurations
<1>3. GoodInterface(I)
  BY <1>2, LenProperties DEF GoodConfiguration
<1>4. Len(k.interfaces) \in Nat /\ i \in 0 .. Len(k.interfaces)
  BY <1>2, LenProperties
<1> HIDE DEF I, each
<1>5. FlattenSeq(After(each, i)) \in Seq(Byte)
  BY <1>1, <1>4, FlattenRest
<1>6. I \in Interfaces /\ I.extras \in Seq(ExtraDescriptors) /\ Len(I.endpoints) < 256
  BY <1>3 DEF GoodInterface
<1>7. I.endpoints \in Seq(Row(5))
  BY <1>6 DEF Interfaces
<1>8. /\ EachEndpoint(I.endpoints) \in Seq(Seq(Byte))
      /\ Len(EachEndpoint(I.endpoints)) = Len(I.endpoints)
  BY <1>7, EachEndpointTyped
<1>9. I.extras \in Seq(Seq(Byte))
  BY <1>6, ExtrasTyped
<1>10. Len(I.extras) \in Nat /\ Len(I.endpoints) \in Nat
  BY <1>6, <1>7, LenProperties
<1> QED
  BY <1>3, <1>5, <1>6, <1>7, <1>8, <1>9, <1>10 DEF I, each

\* The next further descriptor of an interface.
LEMMA InterfaceExtra ==
    ASSUME NEW k, GoodConfiguration(k), NEW i \in 1 .. Len(k.interfaces),
           NEW j \in 0 .. Len(k.interfaces[i].extras) - 1
    PROVE  LET x == k.interfaces[i].extras[j + 1] IN
           /\ x \in ExtraDescriptors /\ InterfacePart(k, i, j + 1, 0) \in Seq(Byte)
           /\ InterfacePart(k, i, j, 0) = x \o InterfacePart(k, i, j + 1, 0)
<1> DEFINE I == k.interfaces[i]
           x == I.extras[j + 1]
           q == I.extras
           rest == FlattenSeq(After(q, j + 1))
           ends == FlattenSeq(After(EachEndpoint(I.endpoints), 0))
           others == FlattenSeq(After(EachInterface(k.interfaces), i))
<1>1. /\ q \in Seq(ExtraDescriptors) /\ q \in Seq(Seq(Byte))
      /\ EachEndpoint(I.endpoints) \in Seq(Seq(Byte))
      /\ Len(EachEndpoint(I.endpoints)) = Len(I.endpoints)
      /\ Len(q) \in Nat /\ Len(I.endpoints) \in Nat
      /\ others \in Seq(Byte)
  BY InterfaceParts
<1>2. /\ InterfacePart(k, i, j, 0) = (FlattenSeq(After(q, j)) \o ends) \o others
      /\ InterfacePart(k, i, j + 1, 0) = (rest \o ends) \o others
  BY DEF InterfacePart
<1>3. j \in 0 .. Len(q) - 1
  OBVIOUS
<1>4. ends \in Seq(Byte)
  <2> DEFINE u == EachEndpoint(I.endpoints)
  <2>1. u \in Seq(Seq(Byte)) /\ Len(u) \in Nat
    BY <1>1
  <2> HIDE DEF u
  <2>2. 0 \in 0 .. Len(u)
    BY <2>1
  <2>3. FlattenSeq(After(u, 0)) \in Seq(Byte)
    BY <2>1, <2>2, FlattenRest
  <2> QED
    BY <2>3 DEF u
<1> HIDE DEF I, q, others, ends
<1>5. FlattenSeq(After(q, j)) = q[j + 1] \o rest /\ q[j + 1] \in Seq(Byte) /\ rest \in Seq(Byte)
  BY <1>1, <1>3, FlattenMore
<1>6. q[j + 1] \in ExtraDescriptors
  <2>1. j + 1 \in 1 .. Len(q)
    BY <1>1, <1>3
  <2> QED
    BY <1>1, <2>1, ElementOfSeq
<1> DEFINE y == q[j + 1]
<1>7. y \in Seq(Byte)
  BY <1>5
<1> HIDE DEF y, rest
<1>8. (y \o rest) \o ends = y \o (rest \o ends) /\ rest \o ends \in Seq(Byte)
  BY <1>4, <1>5, <1>7, Regrouped
<1> DEFINE re == rest \o ends
<1>9. re \in Seq(Byte)
  BY <1>8
<1> HIDE DEF re
<1>10. (y \o re) \o others = y \o (re \o others) /\ re \o others \in Seq(Byte)
  BY <1>1, <1>7, <1>9, Regrouped
<1>11. InterfacePart(k, i, j, 0) = y \o InterfacePart(k, i, j + 1, 0)
  BY <1>2, <1>5, <1>8, <1>10 DEF re, y
<1>12. InterfacePart(k, i, j + 1, 0) \in Seq(Byte)
  BY <1>2, <1>10 DEF re
<1> QED
  BY <1>6, <1>11, <1>12 DEF y, q, I

\* The next endpoint of an interface.
LEMMA InterfaceEndpoint ==
    ASSUME NEW k, GoodConfiguration(k), NEW i \in 1 .. Len(k.interfaces),
           NEW e \in 0 .. Len(k.interfaces[i].endpoints) - 1
    PROVE  LET x == k.interfaces[i].endpoints[e + 1]
               n == Len(k.interfaces[i].extras)
           IN  /\ x \in Row(5) /\ InterfacePart(k, i, n, e + 1) \in Seq(Byte)
               /\ InterfacePart(k, i, n, e) =
                    Descriptor(EndpointType, x) \o InterfacePart(k, i, n, e + 1)
<1> DEFINE I == k.interfaces[i]
           n == Len(I.extras)
           none == FlattenSeq(After(I.extras, n))
           u == EachEndpoint(I.endpoints)
           rest == FlattenSeq(After(u, e + 1))
           others == FlattenSeq(After(EachInterface(k.interfaces), i))
           x == I.endpoints[e + 1]
           d == Descriptor(EndpointType, x)
<1>1. /\ I.extras \in Seq(Seq(Byte)) /\ I.endpoints \in Seq(Row(5))
      /\ u \in Seq(Seq(Byte)) /\ Len(u) = Len(I.endpoints) /\ Len(I.endpoints) \in Nat
      /\ others \in Seq(Byte)
  BY InterfaceParts
<1>2. /\ InterfacePart(k, i, n, e) = (none \o FlattenSeq(After(u, e))) \o others
      /\ InterfacePart(k, i, n, e + 1) = (none \o rest) \o others
  BY DEF InterfacePart
<1>3. e \in 0 .. Len(I.endpoints) - 1
  OBVIOUS
<1>4. none = <<>>
  <2> DEFINE q == I.extras
  <2>1. q \in Seq(Seq(Byte))
    BY <1>1
  <2> HIDE DEF q
  <2>2. FlattenSeq(After(q, Len(q))) = <<>>
    BY <2>1, FlattenNone
  <2> QED
    BY <2>2 DEF q
<1>5. e + 1 \in 1 .. Len(I.endpoints) /\ e + 1 \in DOMAIN I.endpoints
  <2> DEFINE q == I.endpoints
  <2>1. q \in Seq(Row(5)) /\ Len(q) \in Nat /\ e \in 0 .. Len(q) - 1
    BY <1>1, <1>3
  <2> HIDE DEF q
  <2>2. e + 1 \in 1 .. Len(q) /\ DOMAIN q = 1 .. Len(q)
    BY <2>1, LenProperties
  <2> QED
    BY <2>2 DEF q
<1>6. x \in Row(5)
  BY <1>1, <1>5, ElementOfSeq
<1>7. u[e + 1] = d
  BY <1>5 DEF EachEndpoint
<1> HIDE DEF I, u, others, none, x, d
<1>8. FlattenSeq(After(u, e)) = d \o rest /\ d \in Seq(Byte) /\ rest \in Seq(Byte)
  BY <1>1, <1>3, <1>7, FlattenMore
<1> HIDE DEF rest
<1>9. none \o rest = rest /\ none \o (d \o rest) = d \o rest
  <2>1. d \o rest \in Seq(Byte)
    BY <1>8, Regrouped
  <2> QED
    BY <1>4, <1>8, <2>1, ConcatEmptySeq
<1>10. (d \o rest) \o others = d \o (rest \o others) /\ rest \o others \in Seq(Byte)
  <2>1. Regroups(d, rest, others)
    BY <1>1, <1>8, Regrouping
  <2>2. rest \o others \in Seq(Byte)
    BY <1>1, <1>8, Chained
  <2> QED
    BY <2>1, <2>2 DEF Regroups
<1>11. InterfacePart(k, i, n, e + 1) = rest \o others
  BY <1>2, <1>9
<1>12. InterfacePart(k, i, n, e) = (d \o rest) \o others
  BY <1>2, <1>8, <1>9
<1>13. InterfacePart(k, i, n, e) = d \o InterfacePart(k, i, n, e + 1)
  BY <1>10, <1>11, <1>12
<1> HIDE DEF n
<1> QED
  BY <1>6, <1>10, <1>11, <1>13 DEF d, x, I, n

\* An interface of which everything has been taken.
LEMMA InterfaceDone ==
    ASSUME NEW k, GoodConfiguration(k), NEW i \in 1 .. Len(k.interfaces)
    PROVE  InterfacePart(k, i, Len(k.interfaces[i].extras), Len(k.interfaces[i].endpoints)) =
             FlattenSeq(After(EachInterface(k.interfaces), i))
<1> DEFINE I == k.interfaces[i]
           q == I.extras
           u == EachEndpoint(I.endpoints)
           others == FlattenSeq(After(EachInterface(k.interfaces), i))
<1>1. /\ q \in Seq(Seq(Byte)) /\ u \in Seq(Seq(Byte)) /\ Len(u) = Len(I.endpoints)
      /\ others \in Seq(Byte)
  BY InterfaceParts
<1>2. InterfacePart(k, i, Len(q), Len(I.endpoints)) =
        (FlattenSeq(After(q, Len(q))) \o FlattenSeq(After(u, Len(I.endpoints)))) \o others
  BY DEF InterfacePart
<1> HIDE DEF q, u, others
<1>3. FlattenSeq(After(q, Len(q))) = <<>> /\ FlattenSeq(After(u, Len(u))) = <<>>
  BY <1>1, FlattenNone
<1>4. (<<>> \o <<>>) \o others = others
  <2>1. <<>> \o <<>> = <<>>
    OBVIOUS
  <2> QED
    BY <1>1, <2>1, ConcatEmptySeq
<1> QED
  BY <1>1, <1>2, <1>3, <1>4 DEF q, I, others

\* The next interface of a configuration.
LEMMA InterfaceNext ==
    ASSUME NEW k, GoodConfiguration(k), NEW i \in 0 .. Len(k.interfaces) - 1
    PROVE  LET I == k.interfaces[i + 1] IN
           /\ i + 1 \in 1 .. Len(k.interfaces) /\ GoodInterface(I)
           /\ Long(InterfaceHead(I.fields, Len(I.endpoints)), Byte, 9)
           /\ InterfacePart(k, i + 1, 0, 0) \in Seq(Byte)
           /\ FlattenSeq(After(EachInterface(k.interfaces), i)) =
                InterfaceHead(I.fields, Len(I.endpoints)) \o InterfacePart(k, i + 1, 0, 0)
<1> DEFINE n == i + 1
           I == k.interfaces[n]
           h == InterfaceHead(I.fields, Len(I.endpoints))
           q == I.extras
           u == EachEndpoint(I.endpoints)
           each == EachInterface(k.interfaces)
           others == FlattenSeq(After(each, n))
<1>1. each \in Seq(Seq(Byte)) /\ Len(each) = Len(k.interfaces) /\ Len(k.interfaces) \in Nat
      /\ DOMAIN k.interfaces = 1 .. Len(k.interfaces)
  <2>1. k.interfaces \in Seq(Interfaces)
    BY DEF GoodConfiguration, Configurations
  <2> QED
    BY <2>1, EachInterfaceTyped, LenProperties
<1>2. n \in 1 .. Len(k.interfaces) /\ i \in 0 .. Len(k.interfaces) - 1
  <2> DEFINE l == Len(k.interfaces)
  <2>1. l \in Nat /\ i \in 0 .. l - 1
    BY <1>1
  <2> HIDE DEF l
  <2>2. n \in 1 .. l
    BY <2>1
  <2> QED
    BY <2>2 DEF l
<1> HIDE DEF n
<1>3. /\ GoodInterface(I) /\ q \in Seq(Seq(Byte)) /\ u \in Seq(Seq(Byte)) /\ others \in Seq(Byte)
  BY <1>2, InterfaceParts
<1>4. each[n] = InterfaceBytes(I)
  BY <1>1, <1>2 DEF EachInterface
<1>5. InterfacePart(k, n, 0, 0) = (FlattenSeq(After(q, 0)) \o FlattenSeq(After(u, 0))) \o others
  BY DEF InterfacePart
<1> HIDE DEF others
<1>6. /\ Long(h, Byte, 9) /\ Inside(I) \in Seq(Byte) /\ InterfaceBytes(I) = h \o Inside(I)
  BY <1>3, InterfaceIs
<1>7. Inside(I) = FlattenSeq(q) \o FlattenSeq(u)
  BY DEF Inside
<1> HIDE DEF I, q, u, each, h
<1>8. After(q, 0) = q /\ After(u, 0) = u
  BY <1>3, AfterNone
<1>9. InterfacePart(k, n, 0, 0) = Inside(I) \o others
  BY <1>5, <1>7, <1>8
<1>10. FlattenSeq(After(each, i)) = each[n] \o others
  BY <1>1, <1>2, FlattenMore DEF n, others
<1>11. (h \o Inside(I)) \o others = h \o (Inside(I) \o others) /\ Inside(I) \o others \in Seq(Byte)
  <2> DEFINE inside == Inside(I)
  <2>1. h \in Seq(Byte) /\ inside \in Seq(Byte)
    BY <1>6 DEF Long
  <2> HIDE DEF inside
  <2>3. Regroups(h, inside, others)
    BY <1>3, <2>1, Regrouping
  <2>4. inside \o others \in Seq(Byte)
    BY <1>3, <2>1, Chained
  <2>2. (h \o inside) \o others = h \o (inside \o others) /\ inside \o others \in Seq(Byte)
    BY <2>3, <2>4 DEF Regroups
  <2> QED
    BY <2>2 DEF inside
<1>12. FlattenSeq(After(each, i)) = h \o InterfacePart(k, n, 0, 0)
  BY <1>4, <1>6, <1>9, <1>10, <1>11
<1>13. InterfacePart(k, n, 0, 0) \in Seq(Byte)
  BY <1>9, <1>11
<1> QED
  BY <1>2, <1>3, <1>6, <1>12, <1>13 DEF h, each, I, n

\* The interfaces that are complete, the open one among them (Closed).
ClosedOf(open, cur) ==
    open[1].interfaces
        \o [i \in DOMAIN cur |->
              [fields |-> cur[i].fields, extras |-> cur[i].extras,
               endpoints |-> cur[i].endpoints, report |-> <<>>]]

FinishedOf(cur) == \A i \in DOMAIN cur : Len(cur[i].endpoints) = cur[i].expected

\* What can come next: a further descriptor, an interface, an endpoint, or nothing.
ExtraAhead(k, open, cur, part, x, rest) ==
    /\ x \in ExtraDescriptors /\ rest \in Seq(Byte) /\ part = x \o rest
    /\ cur = <<>> => Place(k, <<[open[1] EXCEPT !.extras = Append(@, x)]>>, cur, rest)
    /\ cur # <<>> => Place(k, open, <<[cur[1] EXCEPT !.extras = Append(@, x)]>>, rest)

InterfaceAhead(k, open, cur, part, i, rest) ==
    /\ GoodInterface(i) /\ rest \in Seq(Byte)
    /\ part = InterfaceHead(i.fields, Len(i.endpoints)) \o rest
    /\ FinishedOf(cur)
    /\ Place(k, <<[open[1] EXCEPT !.interfaces = ClosedOf(open, cur)]>>, <<Half(i, <<>>, <<>>)>>, rest)

EndpointAhead(k, open, cur, part, x, rest) ==
    /\ x \in Row(5) /\ rest \in Seq(Byte) /\ part = Descriptor(EndpointType, x) \o rest
    /\ cur # <<>>
    /\ Place(k, open, <<[cur[1] EXCEPT !.endpoints = Append(@, x)]>>, rest)

NothingAhead(k, open, cur, part) ==
    /\ part = <<>> /\ FinishedOf(cur) /\ ClosedOf(open, cur) = Bared(k)
    /\ open[1].fields = k.fields /\ open[1].extras = k.extras
    /\ open[1].expected = Len(k.interfaces)

\* An interface with another report.
LEMMA WithReport ==
    ASSUME NEW A, NEW B, NEW C, NEW D, NEW r \in D,
           NEW i \in [fields : A, extras : B, endpoints : C, report : D]
    PROVE  /\ [i EXCEPT !.report = r] \in [fields : A, extras : B, endpoints : C, report : D]
           /\ [i EXCEPT !.report = r].report = r
           /\ [i EXCEPT !.report = r] =
                [fields |-> i.fields, extras |-> i.extras, endpoints |-> i.endpoints, report |-> r]
OBVIOUS

\* Interfaces without their reports.
LEMMA BareTyped ==
    ASSUME NEW i \in Interfaces
    PROVE  /\ Bare(i) \in Interfaces /\ Bare(i).report = <<>>
           /\ Bare(i) = [fields |-> i.fields, extras |-> i.extras, endpoints |-> i.endpoints,
                         report |-> <<>>]
<1>1. <<>> \in {t \in Seq(Seq(Byte)) : Len(t) <= 1}
  OBVIOUS
<1> DEFINE D == {t \in Seq(Seq(Byte)) : Len(t) <= 1}
<1>2. <<>> \in D
  BY <1>1
<1>3. Interfaces = [fields : Row(6), extras : Seq(Seq(Byte)), endpoints : Seq(Row(5)), report : D]
  BY DEF Interfaces
<1> DEFINE B == Seq(Seq(Byte))
           C == Seq(Row(5))
           A == Row(6)
<1>4. i \in [fields : A, extras : B, endpoints : C, report : D]
  BY <1>3
<1> HIDE DEF A, B, C, D
<1> DEFINE none == <<>>
           b == [i EXCEPT !.report = none]
<1>5. Bare(i) = b
  BY DEF Bare
<1>6. none \in D
  BY <1>2
<1> HIDE DEF none
<1>7. /\ b \in [fields : A, extras : B, endpoints : C, report : D] /\ b.report = none
      /\ b = [fields |-> i.fields, extras |-> i.extras, endpoints |-> i.endpoints, report |-> none]
  BY <1>4, <1>6, WithReport
<1>8. b \in Interfaces
  BY <1>3, <1>7 DEF A, B, C
<1> HIDE DEF b
<1> QED
  BY <1>5, <1>7, <1>8 DEF none

\* The interfaces of a configuration before any report has arrived.
LEMMA BaredTyped ==
    ASSUME NEW k, GoodConfiguration(k)
    PROVE  /\ Bared(k) \in Seq(Interfaces) /\ Len(Bared(k)) = Len(k.interfaces)
           /\ Len(k.interfaces) \in Nat
           /\ \A i \in 1 .. Len(k.interfaces) : Bared(k)[i] = Bare(k.interfaces[i])
<1> DEFINE n == Len(k.interfaces)
<1>1. k.interfaces \in Seq(Interfaces)
  BY DEF GoodConfiguration, Configurations
<1>2. n \in Nat /\ DOMAIN k.interfaces = 1 .. n
  BY <1>1, LenProperties
<1>3. \A i \in 1 .. n : Bare(k.interfaces[i]) \in Interfaces
  BY <1>1, ElementOfSeq, BareTyped
<1> HIDE DEF n
<1>4. Bared(k) \in [1 .. n -> Interfaces] /\ \A i \in 1 .. n : Bared(k)[i] = Bare(k.interfaces[i])
  BY <1>2, <1>3 DEF Bared
<1>5. Bared(k) \in Seq(Interfaces) /\ Len(Bared(k)) = n
  BY <1>2, <1>4, EachTyped
<1> QED
  BY <1>2, <1>4, <1>5 DEF n

\* Closing an interface of which everything has been taken.
LEMMA ClosedGrows ==
    ASSUME NEW k, GoodConfiguration(k), NEW i \in 1 .. Len(k.interfaces),
           NEW open, open = <<Opened(k, k.extras, SubSeq(Bared(k), 1, i - 1))>>,
           NEW cur, cur = <<Half(k.interfaces[i], k.interfaces[i].extras, k.interfaces[i].endpoints)>>
    PROVE  ClosedOf(open, cur) = SubSeq(Bared(k), 1, i) /\ FinishedOf(cur)
<1> DEFINE I == k.interfaces[i]
           q == SubSeq(Bared(k), 1, i - 1)
           n == Len(k.interfaces)
<1>1. /\ Bared(k) \in Seq(Interfaces) /\ Len(Bared(k)) = n /\ n \in Nat
      /\ Bared(k)[i] = Bare(I)
  BY BaredTyped
<1>2. I \in Interfaces
  BY InterfaceParts
<1>3. open[1].interfaces = q
  BY DEF Opened
<1>4. /\ cur[1].fields = I.fields /\ cur[1].extras = I.extras /\ cur[1].endpoints = I.endpoints
      /\ cur[1].expected = Len(I.endpoints) /\ DOMAIN cur = 1 .. 1
  BY DEF Half
<1>5. \A x \in 1 .. 1 : x = 1
  OBVIOUS
<1>6. FinishedOf(cur)
  BY <1>4, <1>5 DEF FinishedOf
<1> DEFINE tail == [x \in DOMAIN cur |->
                      [fields |-> cur[x].fields, extras |-> cur[x].extras,
                       endpoints |-> cur[x].endpoints, report |-> <<>>]]
           one == [fields |-> I.fields, extras |-> I.extras, endpoints |-> I.endpoints,
                   report |-> <<>>]
<1>7. tail = [x \in 1 .. 1 |-> one]
  BY <1>4, <1>5
<1>8. one = Bare(I)
  BY <1>2, BareTyped
<1>9. ClosedOf(open, cur) = q \o tail
  BY <1>3 DEF ClosedOf
<1> HIDE DEF tail, one, I
<1>10. [x \in 1 .. 1 |-> one] = <<one>>
  OBVIOUS
<1>11. i - 1 \in 0 .. n - 1 /\ i - 1 \in 0 .. n /\ (i - 1) + 1 = i
  <2>1. i \in 1 .. n
    OBVIOUS
  <2> HIDE DEF n
  <2> QED
    BY <1>1, <2>1
<1>12. q \in Seq(Interfaces)
  BY <1>1, <1>11, PrefixTyped
<1>13. q \o <<Bare(I)>> = Append(q, Bare(I))
  <2> HIDE DEF q
  <2>1. Bare(I) \in Interfaces
    BY <1>2, BareTyped
  <2> QED
    BY <1>12, <2>1, AppendIsConcat
<1>14. Append(q, Bared(k)[(i - 1) + 1]) = SubSeq(Bared(k), 1, (i - 1) + 1)
  BY <1>1, <1>11, PrefixGrows
<1> QED
  BY <1>1, <1>6, <1>7, <1>8, <1>9, <1>10, <1>11, <1>13, <1>14

Upcoming(k, open, cur, part) ==
    \/ \E x, rest : ExtraAhead(k, open, cur, part, x, rest)
    \/ \E i, rest : InterfaceAhead(k, open, cur, part, i, rest)
    \/ \E x, rest : EndpointAhead(k, open, cur, part, x, rest)
    \/ NothingAhead(k, open, cur, part)

\* What is added to a configuration or an interface of which part has been taken.
LEMMA OpenedMore ==
    ASSUME NEW k, NEW extras, NEW interfaces, NEW o, o = Opened(k, extras, interfaces)
    PROVE  /\ \A x : [o EXCEPT !.extras = Append(@, x)] = Opened(k, Append(extras, x), interfaces)
           /\ \A other : [o EXCEPT !.interfaces = other] = Opened(k, extras, other)
           /\ o.fields = k.fields /\ o.extras = extras /\ o.interfaces = interfaces
           /\ o.expected = Len(k.interfaces)
<1>1. o.fields = k.fields /\ o.extras = extras /\ o.interfaces = interfaces
      /\ o.expected = Len(k.interfaces)
  BY DEF Opened
<1>2. ASSUME NEW x
      PROVE  [o EXCEPT !.extras = Append(@, x)] = Opened(k, Append(extras, x), interfaces)
  <2> DEFINE y == Append(o.extras, x)
  <2>1. y = Append(extras, x)
    BY <1>1
  <2> HIDE DEF y
  <2>2. [o EXCEPT !.extras = y] = Opened(k, y, interfaces)
    BY DEF Opened
  <2>3. [o EXCEPT !.extras = Append(@, x)] = [o EXCEPT !.extras = y]
    BY DEF y
  <2> QED
    BY <2>1, <2>2, <2>3
<1>3. ASSUME NEW other
      PROVE  [o EXCEPT !.interfaces = other] = Opened(k, extras, other)
  BY DEF Opened
<1> QED
  BY <1>1, <1>2, <1>3

WithExtra(o, x) == [o EXCEPT !.extras = Append(@, x)]

WithEndpoint(o, x) == [o EXCEPT !.endpoints = Append(@, x)]

\* An interface that is half taken, with one descriptor more.
LEMMA HalfMore ==
    ASSUME NEW i, NEW extras, NEW endpoints, NEW o, o = Half(i, extras, endpoints)
    PROVE  /\ \A x : [o EXCEPT !.extras = Append(@, x)] = Half(i, Append(extras, x), endpoints)
           /\ \A x : [o EXCEPT !.endpoints = Append(@, x)] = Half(i, extras, Append(endpoints, x))
           /\ o.fields = i.fields /\ o.extras = extras /\ o.endpoints = endpoints
           /\ o.expected = Len(i.endpoints)
<1>1. o.fields = i.fields /\ o.extras = extras /\ o.endpoints = endpoints
      /\ o.expected = Len(i.endpoints)
  BY DEF Half
<1>2. ASSUME NEW x
      PROVE  [o EXCEPT !.extras = Append(@, x)] = Half(i, Append(extras, x), endpoints)
  <2> DEFINE y == Append(o.extras, x)
  <2>1. y = Append(extras, x)
    BY <1>1
  <2> HIDE DEF y
  <2>2. [o EXCEPT !.extras = y] = Half(i, y, endpoints)
    BY DEF Half
  <2>3. [o EXCEPT !.extras = Append(@, x)] = [o EXCEPT !.extras = y]
    BY DEF y
  <2> QED
    BY <2>1, <2>2, <2>3
<1>3. ASSUME NEW x
      PROVE  [o EXCEPT !.endpoints = Append(@, x)] = Half(i, extras, Append(endpoints, x))
  <2> DEFINE y == Append(o.endpoints, x)
  <2>1. y = Append(endpoints, x)
    BY <1>1
  <2> HIDE DEF y
  <2>2. [o EXCEPT !.endpoints = y] = Half(i, extras, y)
    BY DEF Half
  <2>3. [o EXCEPT !.endpoints = Append(@, x)] = [o EXCEPT !.endpoints = y]
    BY DEF y
  <2> QED
    BY <2>1, <2>2, <2>3
<1> QED
  BY <1>1, <1>2, <1>3

\* The first i interfaces have been taken, and the next comes.
LEMMA HalfGrows ==
    ASSUME NEW i, NEW extras, NEW endpoints, NEW o, o = Half(i, extras, endpoints), NEW x
    PROVE  /\ WithExtra(o, x) = Half(i, Append(extras, x), endpoints)
           /\ WithEndpoint(o, x) = Half(i, extras, Append(endpoints, x))
BY HalfMore DEF WithExtra, WithEndpoint

\* Behind what is taken of the interfaces comes the next one, or nothing.
LEMMA InterfaceComes ==
    ASSUME NEW k, GoodConfiguration(k), NEW i \in 0 .. Len(k.interfaces) - 1,
           NEW open, NEW cur, NEW part, NEW old, open = <<Opened(k, k.extras, old)>>,
           ClosedOf(open, cur) = SubSeq(Bared(k), 1, i), FinishedOf(cur),
           part = FlattenSeq(After(EachInterface(k.interfaces), i))
    PROVE  Upcoming(k, open, cur, part)
<1> DEFINE n == i + 1
           I == k.interfaces[n]
           h == InterfaceHead(I.fields, Len(I.endpoints))
           rest == InterfacePart(k, n, 0, 0)
           open1 == <<[open[1] EXCEPT !.interfaces = ClosedOf(open, cur)]>>
           cur1 == <<Half(I, <<>>, <<>>)>>
<1>1. /\ n \in 1 .. Len(k.interfaces) /\ GoodInterface(I)
      /\ rest \in Seq(Byte) /\ part = h \o rest
  BY InterfaceNext
<1>2. /\ I.extras \in Seq(ExtraDescriptors) /\ I.endpoints \in Seq(Row(5))
      /\ Len(I.extras) \in Nat /\ Len(I.endpoints) \in Nat
  BY <1>1, InterfaceParts
<1>3. open1 = <<Opened(k, k.extras, SubSeq(Bared(k), 1, i))>>
  <2>1. open[1] = Opened(k, k.extras, old)
    OBVIOUS
  <2>2. [open[1] EXCEPT !.interfaces = ClosedOf(open, cur)] = Opened(k, k.extras, ClosedOf(open, cur))
    BY <2>1, OpenedMore
  <2> QED
    BY <2>2
<1>4. n - 1 = i
  <2>1. i \in Int
    OBVIOUS
  <2> QED
    BY <2>1
<1>5. cur1 = <<Half(I, SubSeq(I.extras, 1, 0), SubSeq(I.endpoints, 1, 0))>>
  <2>1. SubSeq(I.extras, 1, 0) = <<>> /\ SubSeq(I.endpoints, 1, 0) = <<>>
    BY <1>2, PrefixNone
  <2> QED
    BY <2>1
<1> HIDE DEF open1, cur1, h, rest, n
<1>6. Within(k, open1, cur1, rest, n, 0, 0)
  BY <1>3, <1>4, <1>5 DEF Within, rest
<1> HIDE DEF I
<1>7. 0 \in 0 .. Len(I.extras) /\ 0 \in 0 .. Len(I.endpoints)
  BY <1>2
<1>8. Place(k, open1, cur1, rest)
  BY <1>1, <1>6, <1>7 DEF Place, I
<1>9. InterfaceAhead(k, open, cur, part, I, rest)
  BY <1>1, <1>8 DEF InterfaceAhead, open1, cur1, h
<1> QED
  BY <1>9 DEF Upcoming

\* All interfaces have been taken.
LEMMA NothingComes ==
    ASSUME NEW k, GoodConfiguration(k),
           NEW open, NEW cur, NEW part, NEW old, open = <<Opened(k, k.extras, old)>>,
           ClosedOf(open, cur) = SubSeq(Bared(k), 1, Len(k.interfaces)), FinishedOf(cur),
           part = FlattenSeq(After(EachInterface(k.interfaces), Len(k.interfaces)))
    PROVE  Upcoming(k, open, cur, part)
<1>1. Bared(k) \in Seq(Interfaces) /\ Len(Bared(k)) = Len(k.interfaces)
  BY BaredTyped
<1>2. ClosedOf(open, cur) = Bared(k)
  BY <1>1, PrefixAll
<1>3. part = <<>>
  <2> DEFINE each == EachInterface(k.interfaces)
  <2>1. each \in Seq(Seq(Byte)) /\ Len(each) = Len(k.interfaces)
    BY EachInterfaceTyped
  <2> HIDE DEF each
  <2>2. FlattenSeq(After(each, Len(each))) = <<>>
    BY <2>1, FlattenNone
  <2> QED
    BY <2>1, <2>2 DEF each
<1>4. /\ open[1].fields = k.fields /\ open[1].extras = k.extras
      /\ open[1].expected = Len(k.interfaces)
  <2>1. open[1] = Opened(k, k.extras, old)
    OBVIOUS
  <2> QED
    BY <2>1, OpenedMore
<1> QED
  BY <1>2, <1>3, <1>4 DEF NothingAhead, Upcoming

\* Behind some of a configuration's extra descriptors comes the next of them,
\* an interface or nothing.
LEMMA AheadBefore ==
    ASSUME NEW k, GoodConfiguration(k), NEW open, NEW cur, NEW part,
           NEW j \in 0 .. Len(k.extras), Before(k, open, cur, part, j)
    PROVE  Upcoming(k, open, cur, part)
<1> DEFINE q == k.extras
           each == EachInterface(k.interfaces)
           all == FlattenSeq(each)
<1>1. /\ q \in Seq(ExtraDescriptors) /\ q \in Seq(Seq(Byte)) /\ Len(q) \in Nat
      /\ each \in Seq(Seq(Byte)) /\ Len(each) = Len(k.interfaces) /\ Len(k.interfaces) \in Nat
  <2>1. q \in Seq(ExtraDescriptors) /\ k.interfaces \in Seq(Interfaces)
    BY DEF GoodConfiguration, Configurations
  <2> QED
    BY <2>1, EachInterfaceTyped, ExtrasTyped, LenProperties
<1>2. all \in Seq(Byte)
  BY <1>1, FlattenTyped
<1>3. /\ cur = <<>> /\ open = <<Opened(k, SubSeq(q, 1, j), <<>>)>>
      /\ part = FlattenSeq(After(q, j)) \o all
  BY DEF Before
<1>4. FinishedOf(cur) /\ ClosedOf(open, cur) = SubSeq(Bared(k), 1, 0)
  <2>1. FinishedOf(<<>>)
    BY DEF FinishedOf
  <2>2. open[1].interfaces = <<>>
    <3>1. open[1] = Opened(k, SubSeq(q, 1, j), <<>>)
      BY <1>3
    <3> QED
      BY <3>1, OpenedMore
  <2>3. ClosedOf(open, cur) = <<>>
    BY <1>3, <2>2 DEF ClosedOf
  <2>4. SubSeq(Bared(k), 1, 0) = <<>>
    BY BaredTyped, PrefixNone
  <2> QED
    BY <1>3, <2>1, <2>3, <2>4
<1>5. CASE j = Len(q)
  <2>1. SubSeq(q, 1, j) = q
    BY <1>1, <1>5, PrefixAll
  <2>2. FlattenSeq(After(q, j)) = <<>>
    <3> HIDE DEF q
    <3> QED
      BY <1>1, <1>5, FlattenNone
  <2>3. After(each, 0) = each
    <3> HIDE DEF each
    <3> QED
      BY <1>1, AfterNone
  <2>4. part = FlattenSeq(After(each, 0))
    <3>1. part = <<>> \o all
      BY <1>3, <2>2
    <3> HIDE DEF all
    <3>2. <<>> \o all = all
      BY <1>2, ConcatEmptySeq
    <3> QED
      BY <2>3, <3>1, <3>2 DEF all
  <2>5. open = <<Opened(k, k.extras, <<>>)>>
    BY <1>3, <2>1
  <2>6. CASE Len(k.interfaces) = 0
    BY <1>4, <2>4, <2>5, <2>6, NothingComes
  <2>7. CASE Len(k.interfaces) # 0
    <3> DEFINE l == Len(k.interfaces)
    <3>1. l \in Nat /\ l # 0
      BY <1>1, <2>7
    <3> HIDE DEF l
    <3>2. 0 \in 0 .. l - 1
      BY <3>1
    <3>3. 0 \in 0 .. Len(k.interfaces) - 1
      BY <3>2 DEF l
    <3> QED
      BY <1>4, <2>4, <2>5, <3>3, InterfaceComes
  <2> QED
    BY <2>6, <2>7
<1>6. CASE j # Len(q)
  <2> DEFINE x == q[j + 1]
             f == FlattenSeq(After(q, j + 1))
             rest == f \o all
             open1 == <<[open[1] EXCEPT !.extras = Append(@, x)]>>
  <2>1. j \in 0 .. Len(q) - 1 /\ j + 1 \in 1 .. Len(q) /\ j + 1 \in 0 .. Len(q)
    <3> DEFINE l == Len(q)
    <3>1. l \in Nat /\ j \in 0 .. l /\ j # l
      BY <1>1, <1>6
    <3> HIDE DEF l
    <3>2. j \in 0 .. l - 1 /\ j + 1 \in 1 .. l /\ j + 1 \in 0 .. l
      BY <3>1
    <3> QED
      BY <3>2 DEF l
  <2>2. x \in ExtraDescriptors
    BY <1>1, <2>1, ElementOfSeq
  <2>3. FlattenSeq(After(q, j)) = x \o f /\ x \in Seq(Byte) /\ f \in Seq(Byte)
    <3> HIDE DEF q
    <3> QED
      BY <1>1, <2>1, FlattenMore
  <2>4. part = (x \o f) \o all
    BY <1>3, <2>3
  <2> HIDE DEF all, f
  <2>5. part = x \o rest /\ rest \in Seq(Byte)
    <3> HIDE DEF x
    <3>1. (x \o f) \o all = x \o (f \o all) /\ f \o all \in Seq(Byte)
      BY <1>2, <2>3, Regrouped
    <3> QED
      BY <2>4, <3>1
  <2>6. open1 = <<Opened(k, SubSeq(q, 1, j + 1), <<>>)>>
    <3>1. open1 = <<Opened(k, Append(SubSeq(q, 1, j), x), <<>>)>>
      <4> HIDE DEF x
      <4>1. open[1] = Opened(k, SubSeq(q, 1, j), <<>>)
        BY <1>3
      <4>2. [open[1] EXCEPT !.extras = Append(@, x)] = Opened(k, Append(SubSeq(q, 1, j), x), <<>>)
        BY <4>1, OpenedMore
      <4> QED
        BY <4>2
    <3>2. Append(SubSeq(q, 1, j), x) = SubSeq(q, 1, j + 1)
      BY <1>1, <2>1, PrefixGrows
    <3> QED
      BY <3>1, <3>2
  <2> HIDE DEF open1
  <2>7. Before(k, open1, cur, rest, j + 1)
    BY <1>3, <2>6 DEF Before, f, all
  <2>8. Place(k, open1, cur, rest)
    BY <2>1, <2>7 DEF Place
  <2> HIDE DEF x, rest
  <2>9. ExtraAhead(k, open, cur, part, x, rest)
    BY <1>3, <2>2, <2>5, <2>8 DEF ExtraAhead, open1
  <2> QED
    BY <2>9 DEF Upcoming
<1> QED
  BY <1>5, <1>6

\* Counting on, within a bound.
LEMMA OneMore ==
    ASSUME NEW l \in Nat, NEW j \in 0 .. l, j # l
    PROVE  j \in 0 .. l - 1 /\ j + 1 \in 1 .. l /\ j + 1 \in 0 .. l /\ j + 1 # 0
OBVIOUS

\* Behind a part of an interface comes its next descriptor, the next interface
\* or nothing.
LEMMA AheadWithin ==
    ASSUME NEW k, GoodConfiguration(k), NEW open, NEW cur, NEW part,
           NEW i \in 1 .. Len(k.interfaces), NEW j \in 0 .. Len(k.interfaces[i].extras),
           NEW e \in 0 .. Len(k.interfaces[i].endpoints), Within(k, open, cur, part, i, j, e)
    PROVE  Upcoming(k, open, cur, part)
<1> DEFINE I == k.interfaces[i]
           q == I.extras
           u == I.endpoints
           old == SubSeq(Bared(k), 1, i - 1)
<1>1. /\ q \in Seq(ExtraDescriptors) /\ u \in Seq(Row(5))
      /\ Len(q) \in Nat /\ Len(u) \in Nat
  BY InterfaceParts
<1>2. /\ open = <<Opened(k, k.extras, old)>>
      /\ cur = <<Half(I, SubSeq(q, 1, j), SubSeq(u, 1, e))>>
      /\ e # 0 => j = Len(q)
      /\ part = InterfacePart(k, i, j, e)
  BY DEF Within
<1>3. cur # <<>> /\ cur[1] = Half(I, SubSeq(q, 1, j), SubSeq(u, 1, e))
  BY <1>2
<1>4. j \in 0 .. Len(q) /\ e \in 0 .. Len(u)
  OBVIOUS
<1>5. CASE j # Len(q)
  <2> DEFINE x == q[j + 1]
             rest == InterfacePart(k, i, j + 1, 0)
             cur1 == <<[cur[1] EXCEPT !.extras = Append(@, x)]>>
  <2>1. j \in 0 .. Len(q) - 1 /\ j + 1 \in 0 .. Len(q)
    <3> HIDE DEF q
    <3> QED
      BY <1>1, <1>4, <1>5, OneMore
  <2>2. e = 0
    BY <1>2, <1>5
  <2>3. x \in ExtraDescriptors /\ rest \in Seq(Byte) /\ InterfacePart(k, i, j, 0) = x \o rest
    BY <2>1, InterfaceExtra
  <2>4. cur1 = <<Half(I, SubSeq(q, 1, j + 1), SubSeq(u, 1, 0))>>
    <3>1. Append(SubSeq(q, 1, j), x) = SubSeq(q, 1, j + 1)
      BY <1>1, <2>1, PrefixGrows
    <3> DEFINE o == cur[1]
               f == SubSeq(q, 1, j)
               g == SubSeq(u, 1, e)
    <3>3. o = Half(I, f, g)
      BY <1>3
    <3> HIDE DEF x, o, f, g
    <3>4. WithExtra(o, x) = Half(I, Append(f, x), g)
      BY <3>3, HalfGrows
    <3>2. [cur[1] EXCEPT !.extras = Append(@, x)] = Half(I, Append(SubSeq(q, 1, j), x), SubSeq(u, 1, e))
      BY <3>4 DEF o, f, g, WithExtra
    <3> QED
      BY <2>2, <3>1, <3>2
  <2> HIDE DEF cur1, rest, x
  <2>5. Within(k, open, cur1, rest, i, j + 1, 0)
    BY <1>2, <2>4 DEF Within, rest
  <2>6. 0 \in 0 .. Len(u)
    <3> HIDE DEF u
    <3> QED
      BY <1>1
  <2>7. Place(k, open, cur1, rest)
    BY <2>1, <2>5, <2>6 DEF Place
  <2>8. ExtraAhead(k, open, cur, part, x, rest)
    BY <1>2, <1>3, <2>2, <2>3, <2>7 DEF ExtraAhead, cur1
  <2> QED
    BY <2>8 DEF Upcoming
<1>6. CASE j = Len(q) /\ e # Len(u)
  <2> DEFINE x == u[e + 1]
             rest == InterfacePart(k, i, Len(q), e + 1)
             cur1 == <<[cur[1] EXCEPT !.endpoints = Append(@, x)]>>
  <2>1. e \in 0 .. Len(u) - 1 /\ e + 1 \in 0 .. Len(u)
    <3> HIDE DEF u
    <3> QED
      BY <1>1, <1>4, <1>6, OneMore
  <2>2. /\ x \in Row(5) /\ rest \in Seq(Byte)
        /\ InterfacePart(k, i, Len(q), e) = Descriptor(EndpointType, x) \o rest
    BY <2>1, InterfaceEndpoint
  <2>3. cur1 = <<Half(I, SubSeq(q, 1, j), SubSeq(u, 1, e + 1))>>
    <3>1. Append(SubSeq(u, 1, e), x) = SubSeq(u, 1, e + 1)
      BY <1>1, <2>1, PrefixGrows
    <3> DEFINE o == cur[1]
               f == SubSeq(q, 1, j)
               g == SubSeq(u, 1, e)
    <3>3. o = Half(I, f, g)
      BY <1>3
    <3> HIDE DEF x, o, f, g
    <3>4. WithEndpoint(o, x) = Half(I, f, Append(g, x))
      BY <3>3, HalfGrows
    <3>2. [cur[1] EXCEPT !.endpoints = Append(@, x)] = Half(I, SubSeq(q, 1, j), Append(SubSeq(u, 1, e), x))
      BY <3>4 DEF o, f, g, WithEndpoint
    <3> QED
      BY <3>1, <3>2
  <2>4. part = Descriptor(EndpointType, x) \o rest
    BY <1>2, <1>6, <2>2
  <2>5. Within(k, open, cur1, rest, i, j, e + 1)
    <3> HIDE DEF cur1, x
    <3> QED
      BY <1>2, <1>6, <2>3 DEF Within, rest
  <2> HIDE DEF cur1, rest, x
  <2>6. Place(k, open, cur1, rest)
    BY <1>4, <2>1, <2>5 DEF Place
  <2>7. EndpointAhead(k, open, cur, part, x, rest)
    BY <1>3, <2>2, <2>4, <2>6 DEF EndpointAhead, cur1
  <2> QED
    BY <2>7 DEF Upcoming
<1>7. CASE j = Len(q) /\ e = Len(u)
  <2>1. SubSeq(q, 1, j) = q /\ SubSeq(u, 1, e) = u
    BY <1>1, <1>7, PrefixAll
  <2>2. cur = <<Half(I, I.extras, I.endpoints)>>
    BY <1>2, <2>1
  <2>3. ClosedOf(open, cur) = SubSeq(Bared(k), 1, i) /\ FinishedOf(cur)
    BY <1>2, <2>2, ClosedGrows
  <2>4. part = FlattenSeq(After(EachInterface(k.interfaces), i))
    BY <1>2, <1>7, InterfaceDone
  <2>5. Len(k.interfaces) \in Nat /\ i \in 0 .. Len(k.interfaces)
    <3> DEFINE l == Len(k.interfaces)
    <3>1. l \in Nat /\ i \in 1 .. l
      BY BaredTyped
    <3> HIDE DEF l
    <3>2. i \in 0 .. l
      BY <3>1
    <3> QED
      BY <3>1, <3>2 DEF l
  <2>6. CASE i = Len(k.interfaces)
    BY <1>2, <2>3, <2>4, <2>6, NothingComes
  <2>7. CASE i # Len(k.interfaces)
    <3>1. i \in 0 .. Len(k.interfaces) - 1
      BY <2>5, <2>7, OneMore
    <3> QED
      BY <1>2, <2>3, <2>4, <3>1, InterfaceComes
  <2> QED
    BY <2>6, <2>7
<1> QED
  BY <1>5, <1>6, <1>7

\* Wherever the decoder is, what comes next has its place there.
LEMMA WhatIsAhead ==
    ASSUME NEW k, GoodConfiguration(k), NEW open, NEW cur, NEW part, Place(k, open, cur, part)
    PROVE  Upcoming(k, open, cur, part)
<1>1. CASE \E j \in 0 .. Len(k.extras) : Before(k, open, cur, part, j)
  BY <1>1, AheadBefore
<1>2. CASE \E i \in 1 .. Len(k.interfaces) :
            \E j \in 0 .. Len(k.interfaces[i].extras), e \in 0 .. Len(k.interfaces[i].endpoints) :
                Within(k, open, cur, part, i, j, e)
  <2>1. PICK i \in 1 .. Len(k.interfaces) :
            \E j \in 0 .. Len(k.interfaces[i].extras), e \in 0 .. Len(k.interfaces[i].endpoints) :
                Within(k, open, cur, part, i, j, e)
    BY <1>2
  <2>2. PICK j \in 0 .. Len(k.interfaces[i].extras), e \in 0 .. Len(k.interfaces[i].endpoints) :
                Within(k, open, cur, part, i, j, e)
    BY <2>1
  <2> QED
    BY <2>2, AheadWithin
<1> QED
  BY <1>1, <1>2 DEF Place

\* What the bytes of a descriptor say.
LEMMA ExtraKnown ==
    ASSUME NEW b \in Seq(Byte), NEW o \in Nat, NEW x \in ExtraDescriptors, Stands(b, o, x)
    PROVE  /\ x \in Seq(Byte) /\ Len(x) \in Nat /\ Len(x) >= 2
           /\ b[o + 1] = Len(x) /\ b[o + 2] = x[2] /\ x[2] \in Byte
           /\ x[2] \notin {InterfaceType, EndpointType}
           /\ SubSeq(b, o + 1, o + Len(x)) = x
<1>1. /\ x \in Seq(Byte) /\ Len(x) >= 2 /\ x[1] = Len(x)
      /\ x[2] \notin {InterfaceType, EndpointType}
  BY DEF ExtraDescriptors
<1> DEFINE n == Len(x)
<1>2. n \in Nat
  BY <1>1, LenProperties
<1>3. \A i \in 1 .. n : b[o + i] = x[i]
  BY DEF Stands
<1>4. 1 \in 1 .. n /\ 2 \in 1 .. n
  <2>1. n \in Nat /\ n >= 2
    BY <1>1, <1>2
  <2> HIDE DEF n
  <2> QED
    BY <2>1
<1>5. x[2] \in Byte
  BY <1>1, <1>4, ElementOfSeq
<1>6. o + n <= Len(b)
  BY DEF Stands
<1> HIDE DEF n
<1>7. Len(x) = n
  BY DEF n
<1>8. SubSeq(b, o + 1, o + n) = x
  BY <1>1, <1>2, <1>3, <1>6, <1>7, PartIs
<1> QED
  BY <1>1, <1>2, <1>3, <1>4, <1>5, <1>8 DEF n

InterfaceSays(b, o, i) ==
    /\ b[o + 1] = 9 /\ b[o + 2] = InterfaceType /\ b[o + 5] = Len(i.endpoints)
    /\ <<b[o + 3], b[o + 4]>> \o SubSeq(b, o + 6, o + 9) = i.fields

\* What decode reads in the head of an interface.
LEMMA InterfaceKnown ==
    ASSUME NEW b \in Seq(Byte), NEW o \in Nat, NEW i, GoodInterface(i),
           Stands(b, o, InterfaceHead(i.fields, Len(i.endpoints)))
    PROVE  InterfaceSays(b, o, i)
<1> DEFINE n == Len(i.endpoints)
           f == i.fields
           h == InterfaceHead(f, n)
<1>1. f \in Row(6) /\ i.endpoints \in Seq(Row(5)) /\ n < 256
  BY DEF GoodInterface, Interfaces
<1>2. n \in Byte
  <2>1. n \in Nat
    BY <1>1, LenProperties
  <2> QED
    BY <1>1, <2>1, Small
<1> HIDE DEF n, f
<1>3. /\ Long(h, Byte, 9) /\ h[1] = 9 /\ h[2] = InterfaceType /\ h[5] = n
      /\ h[3] = f[1] /\ h[4] = f[2]
      /\ \A j \in 1 .. 4 : h[5 + j] = f[2 + j]
  BY <1>1, <1>2, InterfaceRead
<1>4. Stands(b, o, h)
  BY DEF f, n
<1> HIDE DEF h
<1>5. h \in Seq(Byte) /\ Len(h) = 9
  BY <1>3 DEF Long
<1>6. \A j \in 1 .. 9 : b[o + j] = h[j]
  BY <1>4, <1>5 DEF Stands
<1>7. {1, 2, 3, 4, 5} \subseteq 1 .. 9
  OBVIOUS
<1>8. /\ b[o + 1] = 9 /\ b[o + 2] = InterfaceType /\ b[o + 5] = n
      /\ b[o + 3] = f[1] /\ b[o + 4] = f[2]
  BY <1>3, <1>6, <1>7
<1> DEFINE c == SubSeq(f, 3, 6)
<1>9. f \in Seq(Byte) /\ Len(f) = 6
  BY <1>1 DEF Row
<1>10. Long(c, Byte, 4) /\ Placed(h, 5, c, 4) /\ \A j \in 1 .. 4 : c[j] = f[2 + j]
  <2>1. \A x \in 1 .. 6 : f[x] \in Byte
    BY <1>9, ElementOfSeq
  <2>2. \A x \in 3 .. 6 : f[x] \in Byte
    BY <2>1
  <2>3. /\ c \in Seq(Byte) /\ Len(c) = (IF 3 <= 6 THEN 6 - 3 + 1 ELSE 0)
        /\ \A x \in 1 .. 6 - 3 + 1 : c[x] = f[3 + x - 1]
    BY <2>2, SubSeqProperties
  <2> HIDE DEF c
  <2>4. \A j \in 1 .. 4 : j \in 1 .. 6 - 3 + 1 /\ 3 + j - 1 = 2 + j
    OBVIOUS
  <2>5. \A j \in 1 .. 4 : c[j] = f[2 + j]
    BY <2>3, <2>4
  <2>6. Len(c) = 4
    BY <2>3
  <2> QED
    BY <1>3, <2>3, <2>5, <2>6 DEF Long, Placed
<1> HIDE DEF c
<1>11. c \in Seq(Byte) /\ Len(c) = 4
  BY <1>10 DEF Long
<1>12. PartAt(b, o, 5, 4, c)
  <2>1. 5 + 4 <= Len(h) /\ 5 \in Nat /\ 4 \in Nat
    BY <1>5
  <2>2. Placed(h, 5, c, 4)
    BY <1>10
  <2>3. h \in Seq(Byte)
    BY <1>5
  <2> QED
    BY <1>4, <1>11, <2>1, <2>2, <2>3, StandsPart
<1>13. SubSeq(b, o + 6, o + 9) = c
  <2>1. o + 6 = o + (5 + 1) /\ o + 9 = o + (5 + 4)
    OBVIOUS
  <2> QED
    BY <1>12, <2>1 DEF PartAt
<1>14. <<f[1], f[2]>> \o c = f
  <2> DEFINE a == <<f[1], f[2]>>
  <2>1. Long(a, Byte, 2) /\ a[1] = f[1] /\ a[2] = f[2]
    <3>1. f[1] \in Byte /\ f[2] \in Byte
      <4>1. 1 \in 1 .. 6 /\ 2 \in 1 .. 6
        OBVIOUS
      <4> QED
        BY <1>9, <4>1, ElementOfSeq
    <3> QED
      BY <3>1, TwoBytes
  <2> HIDE DEF a
  <2> DEFINE g == a \o c
  <2>2. 2 \in Nat /\ 4 \in Nat /\ 6 = 2 + 4
    OBVIOUS
  <2>3. Long(g, Byte, 6) /\ Alike(g, a, 2) /\ Placed(g, 2, c, 4)
    BY <1>10, <2>1, <2>2, Joined, JoinedAt
  <2> HIDE DEF g
  <2>4. g[1] = f[1] /\ g[2] = f[2]
    <3>1. 1 \in 1 .. 2 /\ 2 \in 1 .. 2
      OBVIOUS
    <3> QED
      BY <2>1, <2>3, <3>1 DEF Alike
  <2>5. \A j \in 1 .. 4 : g[2 + j] = f[2 + j]
    BY <1>10, <2>3 DEF Placed
  <2>6. ASSUME NEW x \in 1 .. 6
        PROVE  g[x] = f[x]
    <3>1. x = 1 \/ x = 2 \/ (x - 2 \in 1 .. 4 /\ 2 + (x - 2) = x)
      OBVIOUS
    <3>2. CASE x = 1 \/ x = 2
      BY <2>4, <3>2
    <3>3. CASE x - 2 \in 1 .. 4 /\ 2 + (x - 2) = x
      BY <2>5, <3>3
    <3> QED
      BY <3>1, <3>2, <3>3
  <2>7. g = f
    <3>1. g \in Seq(Byte) /\ Len(g) = 6
      BY <2>3 DEF Long
    <3>2. Len(g) = Len(f) /\ \A x \in 1 .. Len(g) : g[x] = f[x]
      BY <1>9, <2>6, <3>1
    <3> QED
      BY <1>9, <3>1, <3>2, SeqEqual
  <2> QED
    BY <2>7 DEF g, a
<1> QED
  BY <1>8, <1>13, <1>14 DEF h, f, n, InterfaceSays

\* What decode reads in an endpoint's descriptor.
LEMMA EndpointKnown ==
    ASSUME NEW b \in Seq(Byte), NEW o \in Nat, NEW x \in Row(5),
           Stands(b, o, Descriptor(EndpointType, x))
    PROVE  /\ Long(Descriptor(EndpointType, x), Byte, 7)
           /\ b[o + 1] = 7 /\ b[o + 2] = EndpointType
           /\ SubSeq(b, o + 3, o + 7) = x
<1> DEFINE d == Descriptor(EndpointType, x)
<1>1. /\ Long(d, Byte, 7) /\ d[1] = 7 /\ d[2] = EndpointType
      /\ \A j \in 1 .. 5 : d[2 + j] = x[j]
  BY EndpointRead
<1>2. x \in Seq(Byte) /\ Len(x) = 5
  BY DEF Row
<1>3. Stands(b, o, d)
  OBVIOUS
<1> HIDE DEF d
<1>4. d \in Seq(Byte) /\ Len(d) = 7
  BY <1>1 DEF Long
<1>5. \A j \in 1 .. 7 : b[o + j] = d[j]
  BY <1>3, <1>4 DEF Stands
<1>6. b[o + 1] = 7 /\ b[o + 2] = EndpointType
  <2>1. {1, 2} \subseteq 1 .. 7
    OBVIOUS
  <2> QED
    BY <1>1, <1>5, <2>1
<1>7. Placed(d, 2, x, 5)
  BY <1>1 DEF Placed
<1>8. PartAt(b, o, 2, 5, x)
  <2>1. 2 + 5 <= Len(d) /\ 2 \in Nat /\ 5 \in Nat
    BY <1>4
  <2>2. d \in Seq(Byte)
    BY <1>4
  <2> QED
    BY <1>2, <1>3, <1>7, <2>1, <2>2, StandsPart
<1>9. SubSeq(b, o + 3, o + 7) = x
  <2>1. o + 3 = o + (2 + 1) /\ o + 7 = o + (2 + 5)
    OBVIOUS
  <2> QED
    BY <1>8, <2>1 DEF PartAt
<1> QED
  BY <1>1, <1>6, <1>9 DEF d

-----------------------------------------------------------------------------
(* Decoding follows the encoding of a set                                  *)

Total(s) == Len(Encode(s))

\* The number of sidecars that the header states.
Counted(s) == U16At(7) = Len(Sidecars(s))

AtHeader(s) == offset = 0 /\ Goes(bytes, 0, Encode(s), Total(s))

AtConfiguration(s, n) ==
    /\ left = Len(s.configurations) - n /\ set = Upto(s, n)
    /\ Goes(bytes, offset, Later(s, n), Total(s))

\* n configurations are complete, and part is left of the next.
InConfiguration(s, n, part) ==
    /\ left = Len(s.configurations) - (n + 1) /\ set = Upto(s, n)
    /\ Goes(bytes, offset, part \o Later(s, n + 1), Total(s))
    /\ bodyEnd = offset + Len(part)
    /\ Place(s.configurations[n + 1], config, current, part)

\* m sidecars have been taken.
AtSidecar(s, m) ==
    /\ left = Len(Sidecars(s)) - m
    /\ set = With(s, Elements(SubSeq(Sidecars(s), 1, m)))
    /\ Goes(bytes, offset, FlattenSeq(After(Sidecars(s), m)), Total(s))

AtEnd(s) ==
    /\ accepted => set = s /\ Len(bytes) = Total(s)
    /\ Len(bytes) = Total(s) => accepted

\* How far decode has come with bytes that are the encoding of s, or its
\* beginning, or go on after it.
Tracks(s) ==
    /\ pc = "header" => AtHeader(s)
    /\ pc = "configurations" =>
        Counted(s) /\ \E n \in 0 .. Len(s.configurations) : AtConfiguration(s, n)
    /\ pc = "body" =>
        /\ Counted(s)
        /\ \E n \in 0 .. Len(s.configurations) - 1, part \in Seq(Byte) : InConfiguration(s, n, part)
    /\ pc = "sidecars" => \E m \in 0 .. Len(Sidecars(s)) : AtSidecar(s, m)
    /\ pc = "done" => AtEnd(s)

\* Nothing is open between configurations, nor after them.
NothingOpen == pc # "body" /\ (pc = "done" => accepted) => config = <<>> /\ current = <<>>

\* A set of which some reports are there has the configurations of the set.
LEMMA PartialTyped ==
    ASSUME NEW s, GoodSet(s), NEW T
    PROVE  /\ Partial(s, T) \in Seq(Configurations)
           /\ Len(Partial(s, T)) = Len(s.configurations) /\ Len(s.configurations) \in Nat
           /\ \A c \in 1 .. Len(s.configurations) :
                /\ s.configurations[c] \in Configurations
                /\ Partial(s, T)[c] = Partly(c, s.configurations[c], T)
<1> DEFINE L == Len(s.configurations)
<1>1. s.configurations \in Seq(Configurations)
  BY DEF GoodSet, DescriptorSets
<1>2. L \in Nat
  BY <1>1, LenProperties
<1>3. ASSUME NEW c \in 1 .. L
      PROVE  s.configurations[c] \in Configurations /\ Partly(c, s.configurations[c], T) \in Configurations
  <2> DEFINE k == s.configurations[c]
             I == k.interfaces
             n == Len(I)
             J == [i \in DOMAIN I |-> Given(c, I[i], T)]
  <2>1. k \in Configurations
    BY <1>1, ElementOfSeq
  <2> HIDE DEF k
  <2>2. I \in Seq(Interfaces)
    BY <2>1 DEF Configurations
  <2> HIDE DEF I
  <2>3. n \in Nat /\ DOMAIN I = 1 .. n
    BY <2>2, LenProperties
  <2>4. \A i \in 1 .. n : Given(c, I[i], T) \in Interfaces
    BY <2>2, ElementOfSeq, GivenTyped
  <2> HIDE DEF n
  <2>5. J \in [1 .. n -> Interfaces]
    BY <2>3, <2>4
  <2> HIDE DEF J
  <2>6. J \in Seq(Interfaces)
    BY <2>3, <2>5, EachTyped
  <2>7. Partly(c, k, T) = [k EXCEPT !.interfaces = J]
    BY DEF Partly, J, I
  <2>8. [k EXCEPT !.interfaces = J] \in Configurations
    BY <2>1, <2>6 DEF Configurations
  <2> QED
    BY <2>1, <2>7, <2>8 DEF k
<1> HIDE DEF L
<1>4. Partial(s, T) \in [1 .. L -> Configurations] /\ \A c \in 1 .. L : Partial(s, T)[c] = Partly(c, s.configurations[c], T)
  BY <1>3 DEF Partial, L
<1>5. Partial(s, T) \in Seq(Configurations) /\ Len(Partial(s, T)) = L
  BY <1>2, <1>4, EachTyped
<1> QED
  BY <1>2, <1>3, <1>4, <1>5 DEF L

\* No step of decode leaves the set that is arriving.  A refusal: only if bytes
\* are missing or left over;
LEMMA RejectTracks ==
    ASSUME NEW s, Reject, ~accepted, Len(bytes) # Total(s)
    PROVE  Tracks(s)'
<1>1. pc' = "done" /\ accepted' = accepted /\ bytes' = bytes
  BY DEF Reject
<1>2. AtEnd(s)'
  BY <1>1 DEF AtEnd
<1> QED
  BY <1>1, <1>2 DEF Tracks

\* the header;
LEMMA HeaderTracks ==
    ASSUME NEW s, GoodSet(s), TypeInv, Tracks(s), DecodeHeader \/ RejectHeader
    PROVE  Tracks(s)'
<1>1. bytes \in Seq(Byte) /\ pc = "header" /\ Len(bytes) \in Nat
  BY LenProperties DEF TypeInv, WhileDecoding, Byte, DecodeHeader, RejectHeader
<1>2. Goes(bytes, 0, Encode(s), Total(s))
  BY <1>1 DEF Tracks, AtHeader
<1>3. /\ Len(bytes) >= 26 => HeaderSays(s, bytes) /\ Goes(bytes, 26, Later(s, 0), Total(s))
      /\ Len(bytes) = Total(s) => Len(bytes) >= 26
  BY <1>1, <1>2, HeaderKnown
<1>4. 8 + 18 = 26
  OBVIOUS
<1>5. CASE DecodeHeader
  <2>1. Len(bytes) >= 26
    BY <1>4, <1>5 DEF DecodeHeader, HeaderFits
  <2>2. HeaderSays(s, bytes) /\ Goes(bytes, 26, Later(s, 0), Total(s))
    BY <1>3, <2>1
  <2>3. /\ set' = [device |-> SubSeq(bytes, 11, 25), configurations |-> <<>>]
        /\ offset' = 26 /\ left' = bytes[6] /\ pc' = "configurations" /\ bytes' = bytes
    BY <1>5 DEF DecodeHeader
  <2>4. set' = Upto(s, 0)
    <3>1. SubSeq(Partial(s, {}), 1, 0) = <<>>
      BY PartialTyped, PrefixNone
    <3>2. SubSeq(bytes, 11, 25) = s.device
      BY <2>2 DEF HeaderSays
    <3> QED
      BY <2>3, <3>1, <3>2 DEF Upto
  <2>5. 0 \in 0 .. Len(s.configurations) /\ left' = Len(s.configurations) - 0
    <3>1. Len(s.configurations) \in Nat
      BY PartialTyped
    <3>2. left' = Len(s.configurations)
      BY <2>2, <2>3 DEF HeaderSays
    <3> QED
      BY <3>1, <3>2
  <2>6. AtConfiguration(s, 0)'
    BY <2>2, <2>3, <2>4, <2>5 DEF AtConfiguration
  <2>7. Counted(s)'
    <3>1. bytes[7] + 256 * bytes[8] = Len(Sidecars(s)) /\ 7 + 1 = 8
      BY <2>2 DEF HeaderSays
    <3> QED
      BY <2>3, <3>1 DEF Counted, U16At
  <2> QED
    BY <2>3, <2>5, <2>6, <2>7 DEF Tracks
<1>6. CASE RejectHeader
  <2>1. ~HeaderFits /\ Reject
    BY <1>6 DEF RejectHeader
  <2>2. Len(bytes) # Total(s)
    <3> SUFFICES ASSUME Len(bytes) = Total(s)
                 PROVE  HeaderFits
      BY <2>1
    <3>1. HeaderSays(s, bytes) /\ Len(bytes) >= 26
      BY <1>3
    <3> QED
      BY <1>4, <3>1 DEF HeaderFits, HeaderSays
  <2>3. ~accepted
    BY <1>1 DEF TypeInv, WhileDecoding
  <2> QED
    BY <2>1, <2>2, <2>3, RejectTracks
<1> QED
  BY <1>5, <1>6

\* the head of a configuration;
LEMMA OpenTracks ==
    ASSUME NEW s, GoodSet(s), TypeInv, NothingOpen, Tracks(s), OpenConfiguration \/ RejectConfiguration
    PROVE  Tracks(s)'
<1>1. /\ bytes \in Seq(Byte) /\ pc = "configurations" /\ Len(bytes) \in Nat /\ offset \in Nat
      /\ left > 0 /\ config = <<>> /\ current = <<>> /\ ~accepted
  <2>1. bytes \in Seq(Byte) /\ pc = "configurations" /\ offset \in 0 .. Len(bytes) /\ left > 0
    BY DEF TypeInv, WhileDecoding, WithinPayload, Byte, OpenConfiguration, RejectConfiguration
  <2>2. Len(bytes) \in Nat
    BY <2>1, LenProperties
  <2>3. config = <<>> /\ current = <<>>
    BY <2>1 DEF NothingOpen
  <2>4. ~accepted
    BY <2>1 DEF TypeInv, WhileDecoding
  <2> QED
    BY <2>1, <2>2, <2>3, <2>4
<1>2. PICK n \in 0 .. Len(s.configurations) : AtConfiguration(s, n)
  BY <1>1 DEF Tracks
<1>3. Counted(s)
  BY <1>1 DEF Tracks
<1> DEFINE L == Len(s.configurations)
           k == s.configurations[n + 1]
           body == Body(k)
           t == 9 + Len(body)
<1>4. L \in Nat
  BY PartialTyped
<1>5. n \in 0 .. L - 1
  <2>1. left = L - n /\ left > 0 /\ n \in 0 .. L
    BY <1>1, <1>2 DEF AtConfiguration
  <2> HIDE DEF L
  <2> QED
    BY <1>4, <2>1
<1>6. Goes(bytes, offset, Later(s, n), Total(s))
  BY <1>2 DEF AtConfiguration
<1>7. /\ GoodConfiguration(k) /\ body \in Seq(Byte)
      /\ offset + 9 <= Len(bytes) => /\ ConfigurationSays(k, bytes, offset)
                                     /\ Goes(bytes, offset + 9, body \o Later(s, n + 1), Total(s))
      /\ Len(bytes) = Total(s) => offset + t <= Len(bytes)
  BY <1>1, <1>5, <1>6, ConfigurationKnown
<1>8. t \in Nat /\ t >= 9
  <2>1. Len(body) \in Nat
    BY <1>7, LenProperties
  <2> HIDE DEF body
  <2> QED
    BY <2>1
<1>9. CASE OpenConfiguration
  <2>1. offset + 9 <= Len(bytes)
    BY <1>9 DEF OpenConfiguration, ConfigurationFits
  <2>2. /\ ConfigurationSays(k, bytes, offset)
        /\ Goes(bytes, offset + 9, body \o Later(s, n + 1), Total(s))
    BY <1>7, <2>1
  <2>3. /\ config' = << [fields |-> SubSeq(bytes, offset + 6, offset + 9), extras |-> <<>>,
                         interfaces |-> <<>>, expected |-> bytes[offset + 5]] >>
        /\ bodyEnd' = offset + U16At(offset + 3)
        /\ offset' = offset + 9 /\ left' = left - 1 /\ pc' = "body"
        /\ bytes' = bytes /\ set' = set /\ current' = current
    BY <1>9 DEF OpenConfiguration, Field
  <2>4. config' = <<Opened(k, SubSeq(k.extras, 1, 0), <<>>)>>
    <3>1. SubSeq(k.extras, 1, 0) = <<>>
      <4>1. k.extras \in Seq(ExtraDescriptors)
        BY <1>7 DEF GoodConfiguration
      <4> QED
        BY <4>1, PrefixNone
    <3>2. SubSeq(bytes, offset + 6, offset + 9) = k.fields /\ bytes[offset + 5] = Len(k.interfaces)
      BY <2>2 DEF ConfigurationSays
    <3> HIDE DEF k
    <3> QED
      BY <2>3, <3>1, <3>2 DEF Opened
  <2>5. bodyEnd' = offset' + Len(body)
    <3>1. U16At(offset + 3) = 9 + Len(body)
      BY <2>2 DEF ConfigurationSays, U16At
    <3>2. Len(body) \in Nat
      BY <1>7, LenProperties
    <3> HIDE DEF body
    <3> QED
      BY <1>1, <2>3, <3>1, <3>2
  <2>6. left' = L - (n + 1)
    <3>1. left = L - n
      BY <1>2 DEF AtConfiguration
    <3> HIDE DEF L
    <3> QED
      BY <1>4, <1>5, <2>3, <3>1
  <2>7. Place(k, config', current', body)
    <3> DEFINE q == k.extras
    <3>1. q \in Seq(ExtraDescriptors) /\ q \in Seq(Seq(Byte))
      BY <1>7, ExtrasTyped DEF GoodConfiguration
    <3>2. Len(q) \in Nat
      BY <3>1, LenProperties
    <3> HIDE DEF q
    <3>3. After(q, 0) = q
      BY <3>1, AfterNone
    <3>4. body = FlattenSeq(After(q, 0)) \o FlattenSeq(EachInterface(k.interfaces))
      BY <3>3 DEF Body, q
    <3>5. 0 \in 0 .. Len(q)
      BY <3>2
    <3> HIDE DEF body, k
    <3>6. Before(k, config', current', body, 0)
      BY <1>1, <2>3, <2>4, <3>4 DEF Before, q
    <3> QED
      BY <3>5, <3>6 DEF Place, q
  <2>8. InConfiguration(s, n, body)'
    <3>1. set' = Upto(s, n)
      BY <1>2, <2>3 DEF AtConfiguration
    <3>2. Goes(bytes', offset', body \o Later(s, n + 1), Total(s))
      BY <2>2, <2>3
    <3> HIDE DEF body
    <3> QED
      BY <2>5, <2>6, <2>7, <3>1, <3>2 DEF InConfiguration
  <2>9. Counted(s)'
    BY <1>3, <2>3 DEF Counted, U16At
  <2> QED
    BY <1>5, <1>7, <2>3, <2>8, <2>9 DEF Tracks
<1>10. CASE RejectConfiguration
  <2>1. ~ConfigurationFits /\ Reject
    BY <1>10 DEF RejectConfiguration
  <2>2. Len(bytes) # Total(s)
    <3> SUFFICES ASSUME Len(bytes) = Total(s)
                 PROVE  ConfigurationFits
      BY <2>1
    <3>1. offset + t <= Len(bytes)
      BY <1>7
    <3> HIDE DEF t
    <3>2. offset + 9 <= Len(bytes)
      BY <1>1, <1>8, <3>1
    <3>3. ConfigurationSays(k, bytes, offset)
      BY <1>7, <3>2
    <3>4. U16At(offset + 3) = t /\ bytes[offset + 1] = 9 /\ bytes[offset + 2] = ConfigurationType
      BY <3>3 DEF ConfigurationSays, U16At, t
    <3> QED
      BY <1>8, <3>1, <3>2, <3>4 DEF ConfigurationFits, Field
  <2> QED
    BY <1>1, <2>1, <2>2, RejectTracks
<1> QED
  BY <1>9, <1>10

-----------------------------------------------------------------------------
(* The steps within a configuration                                        *)

BodyStep ==
    \/ TakeInterface \/ TakeEndpoint \/ TakeExtra \/ RejectDescriptor
    \/ CloseConfiguration \/ RejectBody

Splits(part, x, rest) == part = x \o rest

\* Of what goes on from o within the first bytes, the head stands there.
LEMMA HeadStands ==
    ASSUME NEW b \in Seq(Byte), NEW o \in Nat, NEW x \in Seq(Byte), NEW rest \in Seq(Byte),
           NEW later \in Seq(Byte), NEW part \in Seq(Byte), Splits(part, x, rest), NEW total,
           Goes(b, o, part \o later, total), o + Len(part) <= Len(b)
    PROVE  /\ Stands(b, o, x) /\ Goes(b, o + Len(x), rest \o later, total)
           /\ Len(x) \in Nat /\ Len(rest) \in Nat /\ Len(part) = Len(x) + Len(rest)
<1>1. /\ Len(x) \in Nat /\ Len(rest) \in Nat /\ Len(part) = Len(x) + Len(rest)
  BY TwoLengths DEF Splits
<1>2. part \o later = x \o (rest \o later) /\ rest \o later \in Seq(Byte)
  <2>3. Regroups(x, rest, later)
    BY Regrouping
  <2>1. (x \o rest) \o later = x \o (rest \o later)
    BY <2>3 DEF Regroups
  <2>2. rest \o later \in Seq(Byte)
    BY Chained
  <2> QED
    BY <2>1, <2>2 DEF Splits
<1> DEFINE y == rest \o later
<1>3. y \in Seq(Byte) /\ Goes(b, o, x \o y, total)
  BY <1>2
<1> HIDE DEF y
<1>4. /\ Goes(b, o + Len(x), y, total)
      /\ o + Len(x) <= Len(b) => Stands(b, o, x)
  BY <1>3, GoesOn
<1>5. o + Len(x) <= Len(b)
  <2>1. Len(b) \in Nat
    BY LenProperties
  <2> QED
    BY <1>1, <2>1
<1> QED
  BY <1>1, <1>4, <1>5 DEF y

\* What holds within a configuration.
LEMMA BodyKnown ==
    ASSUME NEW s, GoodSet(s), TypeInv, pc = "body",
           NEW n \in 0 .. Len(s.configurations) - 1, NEW part \in Seq(Byte), InConfiguration(s, n, part)
    PROVE  /\ GoodConfiguration(s.configurations[n + 1])
           /\ Later(s, n + 1) \in Seq(Byte)
           /\ Upcoming(s.configurations[n + 1], config, current, part)
           /\ bytes \in Seq(Byte) /\ offset \in Nat /\ offset + Len(part) <= Len(bytes)
           /\ Goes(bytes, offset, part \o Later(s, n + 1), Total(s))
           /\ bodyEnd = offset + Len(part) /\ Len(part) \in Nat /\ Len(bytes) \in Nat
           /\ ~accepted
<1>1. GoodConfiguration(s.configurations[n + 1])
  BY LaterNext
<1>2. Later(s, n + 1) \in Seq(Byte)
  <2> DEFINE L == Len(s.configurations)
  <2>1. L \in Nat /\ n \in 0 .. L - 1
    BY PartialTyped
  <2> HIDE DEF L
  <2>2. n + 1 \in 0 .. L
    BY <2>1
  <2> QED
    BY <2>2, LaterTyped DEF L
<1>3. Place(s.configurations[n + 1], config, current, part)
  BY DEF InConfiguration
<1>4. Upcoming(s.configurations[n + 1], config, current, part)
  BY <1>1, <1>3, WhatIsAhead
<1>5. /\ bytes \in Seq(Byte) /\ offset \in 0 .. Len(bytes) /\ bodyEnd <= Len(bytes) /\ ~accepted
  BY DEF TypeInv, WhileDecoding, WithinPayload, Byte
<1>6. Len(part) \in Nat /\ Len(bytes) \in Nat
  BY <1>5, LenProperties
<1>7. bodyEnd = offset + Len(part) /\ Goes(bytes, offset, part \o Later(s, n + 1), Total(s))
  BY DEF InConfiguration
<1> QED
  BY <1>1, <1>2, <1>4, <1>5, <1>6, <1>7

\* A descriptor has been taken, and the rest is left.
LEMMA TakenTracks ==
    ASSUME NEW s, GoodSet(s), TypeInv, pc = "body", Counted(s),
           NEW n \in 0 .. Len(s.configurations) - 1, NEW part \in Seq(Byte), InConfiguration(s, n, part),
           NEW x \in Seq(Byte), NEW rest \in Seq(Byte), Splits(part, x, rest),
           pc' = pc, bytes' = bytes, set' = set, left' = left, bodyEnd' = bodyEnd,
           offset' = offset + Len(x), Place(s.configurations[n + 1], config', current', rest)
    PROVE  Tracks(s)'
<1>1. /\ Later(s, n + 1) \in Seq(Byte) /\ bytes \in Seq(Byte) /\ offset \in Nat
      /\ offset + Len(part) <= Len(bytes) /\ bodyEnd = offset + Len(part)
      /\ Goes(bytes, offset, part \o Later(s, n + 1), Total(s))
  BY BodyKnown
<1> DEFINE later == Later(s, n + 1)
           all == Total(s)
<1>0. /\ later \in Seq(Byte) /\ bytes \in Seq(Byte) /\ offset \in Nat
      /\ offset + Len(part) <= Len(bytes) /\ Goes(bytes, offset, part \o later, all)
  BY <1>1
<1> HIDE DEF later, all
<1>6. /\ Goes(bytes, offset + Len(x), rest \o later, all)
      /\ Len(x) \in Nat /\ Len(rest) \in Nat /\ Len(part) = Len(x) + Len(rest)
  BY <1>0, HeadStands
<1>2. /\ Goes(bytes, offset + Len(x), rest \o Later(s, n + 1), Total(s))
      /\ Len(x) \in Nat /\ Len(rest) \in Nat /\ Len(part) = Len(x) + Len(rest)
  BY <1>6 DEF later, all
<1>3. bodyEnd' = offset' + Len(rest)
  BY <1>1, <1>2
<1>4. InConfiguration(s, n, rest)'
  BY <1>2, <1>3 DEF InConfiguration
<1>5. Counted(s)'
  BY DEF Counted, U16At
<1> QED
  BY <1>4, <1>5 DEF Tracks

\* an extra descriptor, which goes where it came from;
LEMMA ExtraTracks ==
    ASSUME NEW s, GoodSet(s), TypeInv, pc = "body", Counted(s), BodyStep,
           NEW n \in 0 .. Len(s.configurations) - 1, NEW part \in Seq(Byte), InConfiguration(s, n, part),
           NEW x, NEW rest, ExtraAhead(s.configurations[n + 1], config, current, part, x, rest)
    PROVE  Tracks(s)'
<1> DEFINE k == s.configurations[n + 1]
<1>1. x \in ExtraDescriptors /\ rest \in Seq(Byte) /\ Splits(part, x, rest) /\ x \in Seq(Byte)
  BY DEF Splits, ExtraAhead, ExtraDescriptors
<1>2. /\ Later(s, n + 1) \in Seq(Byte) /\ bytes \in Seq(Byte) /\ offset \in Nat
      /\ offset + Len(part) <= Len(bytes) /\ bodyEnd = offset + Len(part)
      /\ Goes(bytes, offset, part \o Later(s, n + 1), Total(s))
  BY BodyKnown
<1>3. /\ Stands(bytes, offset, x)
      /\ Len(x) \in Nat /\ Len(rest) \in Nat /\ Len(part) = Len(x) + Len(rest)
  BY <1>1, <1>2, HeadStands
<1>4. /\ Len(x) >= 2 /\ bytes[offset + 1] = Len(x) /\ bytes[offset + 2] \in Byte
      /\ bytes[offset + 2] \notin {InterfaceType, EndpointType}
      /\ SubSeq(bytes, offset + 1, offset + Len(x)) = x
  BY <1>1, <1>2, <1>3, ExtraKnown
<1>5. /\ Field(1) = Len(x) /\ Field(2) \in Byte /\ Field(2) # InterfaceType /\ Field(2) # EndpointType
  BY <1>4 DEF Field
<1>6. offset < bodyEnd /\ offset + 2 <= bodyEnd /\ offset + Len(x) <= bodyEnd
  <2> DEFINE l == Len(x)
             m == Len(rest)
  <2>1. bodyEnd = offset + Len(part) /\ Len(part) = l + m
    BY <1>2, <1>3
  <2>2. offset \in Nat /\ l \in Nat /\ m \in Nat /\ l >= 2
    BY <1>2, <1>3, <1>4
  <2>3. bodyEnd = offset + (l + m)
    BY <2>1
  <2> HIDE DEF l, m
  <2>4. offset < bodyEnd /\ offset + 2 <= bodyEnd /\ offset + l <= bodyEnd
    BY <2>2, <2>3
  <2> QED
    BY <2>4 DEF l
<1>7. DescriptorFits
  BY <1>4, <1>5, <1>6 DEF DescriptorFits, LengthFits
<1>8. TakeExtra
  <2>1. offset # bodyEnd
    BY <1>2, <1>6
  <2>2. ~CloseConfiguration /\ ~RejectBody
    BY <2>1 DEF CloseConfiguration, RejectBody
  <2>3. ~RejectDescriptor
    BY <1>7 DEF RejectDescriptor
  <2>4. ~TakeInterface /\ ~TakeEndpoint
    BY <1>5 DEF TakeInterface, TakeEndpoint, TakesDescriptor
  <2> QED
    BY <2>2, <2>3, <2>4 DEF BodyStep
<1>9. /\ pc' = pc /\ bytes' = bytes /\ set' = set /\ left' = left /\ bodyEnd' = bodyEnd
      /\ offset' = offset + Len(x)
  BY <1>5, <1>8 DEF TakeExtra, TakesDescriptor
<1>10. SubSeq(bytes, offset + 1, offset + Field(1)) = x
  BY <1>4, <1>5
<1>11. Place(k, config', current', rest)
  <2>1. CASE current = <<>>
    <3>1. config' = <<[config[1] EXCEPT !.extras = Append(@, x)]>> /\ current' = current
      BY <1>8, <1>10, <2>1 DEF TakeExtra
    <3>2. Place(k, <<[config[1] EXCEPT !.extras = Append(@, x)]>>, current, rest)
      BY <2>1 DEF ExtraAhead
    <3> HIDE DEF k
    <3> QED
      BY <3>1, <3>2
  <2>2. CASE current # <<>>
    <3>1. current' = <<[current[1] EXCEPT !.extras = Append(@, x)]>> /\ config' = config
      BY <1>8, <1>10, <2>2 DEF TakeExtra
    <3>2. Place(k, config, <<[current[1] EXCEPT !.extras = Append(@, x)]>>, rest)
      BY <2>2 DEF ExtraAhead
    <3> HIDE DEF k
    <3> QED
      BY <3>1, <3>2
  <2> QED
    BY <2>1, <2>2
<1> QED
  BY <1>1, <1>9, <1>11, TakenTracks

\* an interface, which closes the one before it with all of its endpoints;
LEMMA InterfaceTracks ==
    ASSUME NEW s, GoodSet(s), TypeInv, pc = "body", Counted(s), BodyStep,
           NEW n \in 0 .. Len(s.configurations) - 1, NEW part \in Seq(Byte), InConfiguration(s, n, part),
           NEW i, NEW rest, InterfaceAhead(s.configurations[n + 1], config, current, part, i, rest)
    PROVE  Tracks(s)'
<1> DEFINE k == s.configurations[n + 1]
           x == InterfaceHead(i.fields, Len(i.endpoints))
<1>1. GoodInterface(i) /\ rest \in Seq(Byte) /\ Splits(part, x, rest) /\ FinishedOf(current)
  BY DEF Splits, InterfaceAhead
<1>2. /\ Later(s, n + 1) \in Seq(Byte) /\ bytes \in Seq(Byte) /\ offset \in Nat
      /\ offset + Len(part) <= Len(bytes) /\ bodyEnd = offset + Len(part)
      /\ Goes(bytes, offset, part \o Later(s, n + 1), Total(s))
  BY BodyKnown
<1>3. x \in Seq(Byte) /\ Len(x) = 9
  BY <1>1, InterfaceIs DEF Long
<1> HIDE DEF x
<1>4. /\ Stands(bytes, offset, x)
      /\ Len(x) \in Nat /\ Len(rest) \in Nat /\ Len(part) = Len(x) + Len(rest)
  <2>1. x \in Seq(Byte)
    BY <1>3
  <2>2. rest \in Seq(Byte) /\ Splits(part, x, rest)
    BY <1>1
  <2> QED
    BY <1>2, <2>1, <2>2, HeadStands
<1>5. /\ bytes[offset + 1] = 9 /\ bytes[offset + 2] = InterfaceType
      /\ bytes[offset + 5] = Len(i.endpoints)
      /\ <<bytes[offset + 3], bytes[offset + 4]>> \o SubSeq(bytes, offset + 6, offset + 9) = i.fields
  <2>1. Stands(bytes, offset, InterfaceHead(i.fields, Len(i.endpoints)))
    BY <1>4 DEF x
  <2>2. InterfaceSays(bytes, offset, i)
    BY <1>1, <1>2, <2>1, InterfaceKnown
  <2> QED
    BY <2>2 DEF InterfaceSays
<1>6. Field(1) = 9 /\ Field(2) = InterfaceType
  BY <1>5 DEF Field
<1>7. offset < bodyEnd /\ offset + 2 <= bodyEnd /\ offset + 9 <= bodyEnd
  BY <1>2, <1>3, <1>4
<1>8. Finished
  BY <1>1 DEF FinishedOf, Finished
<1>9. InterfaceType # EndpointType
  BY DEF InterfaceType, EndpointType
<1>10. DescriptorFits
  BY <1>6, <1>7, <1>8, <1>9 DEF DescriptorFits, LengthFits
<1>11. TakeInterface
  <2>1. offset # bodyEnd
    BY <1>2, <1>7
  <2>2. ~CloseConfiguration /\ ~RejectBody
    BY <2>1 DEF CloseConfiguration, RejectBody
  <2>3. ~RejectDescriptor
    BY <1>10 DEF RejectDescriptor
  <2>4. ~TakeExtra /\ ~TakeEndpoint
    BY <1>6, <1>9 DEF TakeExtra, TakeEndpoint, TakesDescriptor
  <2> QED
    BY <2>2, <2>3, <2>4 DEF BodyStep
<1>12. /\ pc' = pc /\ bytes' = bytes /\ set' = set /\ left' = left /\ bodyEnd' = bodyEnd
       /\ offset' = offset + Len(x)
  BY <1>3, <1>6, <1>11 DEF TakeInterface, TakesDescriptor
<1>13. Closed = ClosedOf(config, current)
  BY DEF Closed, ClosedOf
<1>14. /\ config' = <<[config[1] EXCEPT !.interfaces = ClosedOf(config, current)]>>
       /\ current' = <<Half(i, <<>>, <<>>)>>
  BY <1>5, <1>11, <1>13 DEF TakeInterface, Half, Field
<1>15. Place(k, config', current', rest)
  <2>1. Place(k, <<[config[1] EXCEPT !.interfaces = ClosedOf(config, current)]>>, <<Half(i, <<>>, <<>>)>>, rest)
    BY DEF InterfaceAhead
  <2> HIDE DEF k
  <2> QED
    BY <1>14, <2>1
<1> QED
  BY <1>1, <1>3, <1>12, <1>15, TakenTracks

\* an endpoint, which its interface still expects;
LEMMA EndpointTracks ==
    ASSUME NEW s, GoodSet(s), TypeInv, pc = "body", Counted(s), BodyStep,
           NEW n \in 0 .. Len(s.configurations) - 1, NEW part \in Seq(Byte), InConfiguration(s, n, part),
           NEW e, NEW rest, EndpointAhead(s.configurations[n + 1], config, current, part, e, rest)
    PROVE  Tracks(s)'
<1> DEFINE k == s.configurations[n + 1]
           x == Descriptor(EndpointType, e)
<1>1. e \in Row(5) /\ rest \in Seq(Byte) /\ Splits(part, x, rest) /\ current # <<>>
  BY DEF Splits, EndpointAhead
<1>2. /\ Later(s, n + 1) \in Seq(Byte) /\ bytes \in Seq(Byte) /\ offset \in Nat
      /\ offset + Len(part) <= Len(bytes) /\ bodyEnd = offset + Len(part)
      /\ Goes(bytes, offset, part \o Later(s, n + 1), Total(s))
  BY BodyKnown
<1>3. x \in Seq(Byte) /\ Len(x) = 7
  BY <1>1, EndpointRead DEF Long
<1> HIDE DEF x
<1>4. /\ Stands(bytes, offset, x)
      /\ Len(x) \in Nat /\ Len(rest) \in Nat /\ Len(part) = Len(x) + Len(rest)
  <2>1. x \in Seq(Byte)
    BY <1>3
  <2>2. rest \in Seq(Byte) /\ Splits(part, x, rest)
    BY <1>1
  <2> QED
    BY <1>2, <2>1, <2>2, HeadStands
<1>5. /\ bytes[offset + 1] = 7 /\ bytes[offset + 2] = EndpointType
      /\ SubSeq(bytes, offset + 3, offset + 7) = e
  BY <1>1, <1>2, <1>4, EndpointKnown DEF x
<1>6. Field(1) = 7 /\ Field(2) = EndpointType
  BY <1>5 DEF Field
<1>7. offset < bodyEnd /\ offset + 2 <= bodyEnd /\ offset + 7 <= bodyEnd
  BY <1>2, <1>3, <1>4
<1>9. InterfaceType # EndpointType
  BY DEF InterfaceType, EndpointType
<1>10. DescriptorFits
  BY <1>1, <1>6, <1>7, <1>9 DEF DescriptorFits, LengthFits
<1>11. TakeEndpoint
  <2>1. offset # bodyEnd
    BY <1>2, <1>7
  <2>2. ~CloseConfiguration /\ ~RejectBody
    BY <2>1 DEF CloseConfiguration, RejectBody
  <2>3. ~RejectDescriptor
    BY <1>10 DEF RejectDescriptor
  <2>4. ~TakeExtra /\ ~TakeInterface
    BY <1>6, <1>9 DEF TakeExtra, TakeInterface, TakesDescriptor
  <2> QED
    BY <2>2, <2>3, <2>4 DEF BodyStep
<1>12. /\ pc' = pc /\ bytes' = bytes /\ set' = set /\ left' = left /\ bodyEnd' = bodyEnd
       /\ offset' = offset + Len(x)
  BY <1>3, <1>6, <1>11 DEF TakeEndpoint, TakesDescriptor
<1>14. /\ config' = config
       /\ current' = <<[current[1] EXCEPT !.endpoints = Append(@, e)]>>
  BY <1>5, <1>11 DEF TakeEndpoint
<1>15. Place(k, config', current', rest)
  <2>1. Place(k, config, <<[current[1] EXCEPT !.endpoints = Append(@, e)]>>, rest)
    BY DEF EndpointAhead
  <2> HIDE DEF k
  <2> QED
    BY <1>14, <2>1
<1> QED
  BY <1>1, <1>3, <1>12, <1>15, TakenTracks

\* A configuration of which no sidecar has come.
LEMMA PartlyBare ==
    ASSUME NEW c, NEW k \in Configurations
    PROVE  Partly(c, k, {}) = [fields |-> k.fields, extras |-> k.extras, interfaces |-> Bared(k)]
<1>1. ASSUME NEW i
      PROVE  Given(c, i, {}) = Bare(i)
  <2>1. (IF i.report # <<>> /\ Sidecar(c, i)[1] \in {} THEN i.report ELSE <<>>) = <<>>
    OBVIOUS
  <2> QED
    BY <2>1 DEF Given, Bare
<1> DEFINE new == [i \in DOMAIN k.interfaces |-> Given(c, k.interfaces[i], {})]
<1>2. new = Bared(k)
  BY <1>1 DEF Bared
<1>3. Partly(c, k, {}) = [k EXCEPT !.interfaces = new]
  BY DEF Partly
<1> HIDE DEF new
<1>4. [k EXCEPT !.interfaces = new] = [fields |-> k.fields, extras |-> k.extras, interfaces |-> new]
  BY DEF Configurations
<1> QED
  BY <1>2, <1>3, <1>4

\* the end of a configuration, which is complete;
LEMMA CloseTracks ==
    ASSUME NEW s, GoodSet(s), TypeInv, pc = "body", Counted(s), BodyStep,
           NEW n \in 0 .. Len(s.configurations) - 1, NEW part \in Seq(Byte), InConfiguration(s, n, part),
           NothingAhead(s.configurations[n + 1], config, current, part)
    PROVE  Tracks(s)'
<1> DEFINE k == s.configurations[n + 1]
           L == Len(s.configurations)
           p == Partial(s, {})
           new == [fields |-> k.fields, extras |-> k.extras, interfaces |-> Bared(k)]
<1>1. /\ part = <<>> /\ FinishedOf(current) /\ ClosedOf(config, current) = Bared(k)
      /\ config[1].fields = k.fields /\ config[1].extras = k.extras
      /\ config[1].expected = Len(k.interfaces)
  BY DEF NothingAhead
<1>2. /\ GoodConfiguration(k) /\ Later(s, n + 1) \in Seq(Byte) /\ offset \in Nat
      /\ bodyEnd = offset + Len(part)
      /\ Goes(bytes, offset, part \o Later(s, n + 1), Total(s))
  BY BodyKnown
<1>3. offset = bodyEnd /\ ~(offset < bodyEnd)
  <2>1. Len(part) = 0
    BY <1>1
  <2> QED
    BY <1>2, <2>1
<1>4. Closed = Bared(k) /\ Finished
  <2>1. Closed = ClosedOf(config, current)
    BY DEF Closed, ClosedOf
  <2> QED
    BY <1>1, <2>1 DEF Finished, FinishedOf
<1>5. ConfigurationComplete
  <2>1. Len(Bared(k)) = Len(k.interfaces)
    BY <1>2, BaredTyped
  <2> HIDE DEF k
  <2> QED
    BY <1>1, <1>4, <2>1 DEF ConfigurationComplete
<1>6. CloseConfiguration
  BY <1>3, <1>5 DEF BodyStep, TakeInterface, TakeEndpoint, TakeExtra, TakesDescriptor,
                    RejectDescriptor, RejectBody
<1>7. /\ set' = [set EXCEPT !.configurations = Append(@, new)]
      /\ config' = <<>> /\ current' = <<>> /\ pc' = "configurations"
      /\ bytes' = bytes /\ offset' = offset /\ left' = left
  BY <1>1, <1>4, <1>6 DEF CloseConfiguration
<1>8. L \in Nat /\ n \in 0 .. L - 1 /\ n + 1 \in 1 .. L /\ n + 1 \in 0 .. L
  <2>1. L \in Nat /\ n \in 0 .. L - 1
    BY PartialTyped
  <2> HIDE DEF L
  <2> QED
    BY <2>1
<1>9. /\ p \in Seq(Configurations) /\ Len(p) = L
      /\ p[n + 1] = Partly(n + 1, k, {})
  BY <1>8, PartialTyped
<1>10. new = p[n + 1]
  BY <1>2, <1>9, PartlyBare DEF GoodConfiguration
<1> HIDE DEF new, k
<1>11. set' = Upto(s, n + 1)
  <2>1. set = [device |-> s.device, configurations |-> SubSeq(p, 1, n)]
    BY DEF InConfiguration, Upto
  <2> HIDE DEF p, L
  <2>2. Append(SubSeq(p, 1, n), new) = SubSeq(p, 1, n + 1)
    BY <1>8, <1>9, <1>10, PrefixGrows
  <2>3. set' = [device |-> s.device, configurations |-> Append(SubSeq(p, 1, n), new)]
    BY <1>7, <2>1
  <2> QED
    BY <2>2, <2>3 DEF Upto, p
<1>12. Goes(bytes, offset, Later(s, n + 1), Total(s))
  <2> DEFINE later == Later(s, n + 1)
  <2>1. later \in Seq(Byte)
    BY <1>2
  <2> HIDE DEF later
  <2>2. <<>> \o later = later
    BY <2>1, ConcatEmptySeq
  <2> QED
    BY <1>1, <1>2, <2>2 DEF later
<1>13. left' = L - (n + 1)
  BY <1>7 DEF InConfiguration
<1>14. AtConfiguration(s, n + 1)'
  BY <1>7, <1>11, <1>12, <1>13 DEF AtConfiguration
<1>15. Counted(s)'
  BY <1>7 DEF Counted, U16At
<1> QED
  BY <1>7, <1>8, <1>14, <1>15 DEF Tracks

\* so any descriptor of a configuration;
LEMMA BodyTracks ==
    ASSUME NEW s, GoodSet(s), TypeInv, Tracks(s), BodyStep
    PROVE  Tracks(s)'
<1>1. pc = "body"
  BY DEF BodyStep, TakeInterface, TakeEndpoint, TakeExtra, TakesDescriptor,
         RejectDescriptor, CloseConfiguration, RejectBody
<1>2. Counted(s)
  BY <1>1 DEF Tracks
<1>3. PICK n \in 0 .. Len(s.configurations) - 1, part \in Seq(Byte) : InConfiguration(s, n, part)
  BY <1>1 DEF Tracks
<1>4. Upcoming(s.configurations[n + 1], config, current, part)
  BY <1>1, <1>3, BodyKnown
<1> DEFINE k == s.configurations[n + 1]
<1>5. CASE \E x, rest : ExtraAhead(k, config, current, part, x, rest)
  BY <1>1, <1>2, <1>3, <1>5, ExtraTracks
<1>6. CASE \E i, rest : InterfaceAhead(k, config, current, part, i, rest)
  BY <1>1, <1>2, <1>3, <1>6, InterfaceTracks
<1>7. CASE \E x, rest : EndpointAhead(k, config, current, part, x, rest)
  BY <1>1, <1>2, <1>3, <1>7, EndpointTracks
<1>8. CASE NothingAhead(k, config, current, part)
  BY <1>1, <1>2, <1>3, <1>8, CloseTracks
<1> QED
  BY <1>4, <1>5, <1>6, <1>7, <1>8 DEF Upcoming

\* the end of the configurations, which are as many as the head said.
LEMMA EndTracks ==
    ASSUME NEW s, GoodSet(s), TypeInv, Tracks(s), ConfigurationsEnd
    PROVE  Tracks(s)'
<1> DEFINE L == Len(s.configurations)
           q == Sidecars(s)
           p == Partial(s, {})
<1>1. /\ pc = "configurations" /\ left = 0 /\ left' = U16At(7) /\ pc' = "sidecars"
      /\ bytes' = bytes /\ offset' = offset /\ set' = set
  BY DEF ConfigurationsEnd
<1>2. Counted(s)
  BY <1>1 DEF Tracks
<1>3. PICK n \in 0 .. L : AtConfiguration(s, n)
  BY <1>1 DEF Tracks
<1>4. L \in Nat /\ p \in Seq(Configurations) /\ Len(p) = L
  BY PartialTyped
<1>5. n = L
  <2>1. left = L - n /\ n \in 0 .. L
    BY <1>3 DEF AtConfiguration
  <2> HIDE DEF L
  <2> QED
    BY <1>1, <1>4, <2>1
<1>6. q \in Seq(Seq(Byte)) /\ Len(q) \in Nat
  BY GoodSidecars
<1>7. set' = With(s, Elements(SubSeq(q, 1, 0)))
  <2>1. SubSeq(q, 1, 0) = <<>>
    <3> DEFINE B == Seq(Byte)
    <3> HIDE DEF B, q
    <3>1. q \in Seq(B)
      BY <1>6 DEF B
    <3> QED
      BY <3>1, PrefixNone
  <2>2. Elements(<<>>) = {}
    BY DEF Elements
  <2>3. set = Upto(s, L)
    BY <1>3, <1>5 DEF AtConfiguration
  <2>4. SubSeq(p, 1, L) = p
    <3> HIDE DEF p, L
    <3> QED
      BY <1>4, PrefixAll
  <2>5. Upto(s, L) = With(s, {})
    BY <2>4 DEF Upto, With
  <2> HIDE DEF q, L
  <2> QED
    BY <1>1, <2>1, <2>2, <2>3, <2>5
<1>8. Goes(bytes, offset, FlattenSeq(After(q, 0)), Total(s))
  <2>1. Goes(bytes, offset, Later(s, L), Total(s))
    BY <1>3, <1>5 DEF AtConfiguration
  <2>2. Later(s, L) = FlattenSeq(q)
    BY LaterAll
  <2>3. After(q, 0) = q
    <3> DEFINE B == Seq(Byte)
    <3> HIDE DEF B, q
    <3>1. q \in Seq(B)
      BY <1>6 DEF B
    <3> QED
      BY <3>1, AfterNone
  <2> HIDE DEF q, L
  <2> QED
    BY <2>1, <2>2, <2>3
<1>9. left' = Len(q) - 0
  BY <1>1, <1>2, <1>6 DEF Counted
<1>10. AtSidecar(s, 0)'
  BY <1>1, <1>7, <1>8, <1>9 DEF AtSidecar
<1>11. 0 \in 0 .. Len(q)
  <2> HIDE DEF q
  <2> QED
    BY <1>6
<1> QED
  BY <1>1, <1>10, <1>11 DEF Tracks

-----------------------------------------------------------------------------
(* What a sidecar names                                                    *)

EachSidecar(c, interfaces) == [i \in DOMAIN interfaces |-> Sidecar(c, interfaces[i])]

EachSidecars(configurations) ==
    [c \in DOMAIN configurations |-> FlattenSeq(EachSidecar(c, configurations[c].interfaces))]

\* The sidecars of a set are those of its configurations in order.
LEMMA SidecarsAre ==
    ASSUME NEW s
    PROVE  Sidecars(s) = FlattenSeq(EachSidecars(s.configurations))
BY DEF Sidecars, EachSidecars, EachSidecar

\* x is the sidecar of the i-th interface of the c-th configuration.
Names(s, x, c, i) ==
    /\ c \in 1 .. Len(s.configurations) /\ i \in 1 .. Len(s.configurations[c].interfaces)
    /\ s.configurations[c].interfaces[i].report # <<>>
    /\ x = Sidecar(c, s.configurations[c].interfaces[i])[1]

\* The configurations and interfaces of a set.
LEMMA GoodParts ==
    ASSUME NEW s, GoodSet(s), NEW c \in 1 .. Len(s.configurations)
    PROVE  LET k == s.configurations[c] IN
           /\ Len(s.configurations) \in Nat /\ DOMAIN s.configurations = 1 .. Len(s.configurations)
           /\ c \in Nat \ {0} /\ c < 256
           /\ GoodConfiguration(k) /\ k.interfaces \in Seq(Interfaces)
           /\ Len(k.interfaces) \in Nat /\ DOMAIN k.interfaces = 1 .. Len(k.interfaces)
           /\ \A i \in 1 .. Len(k.interfaces) :
                GoodInterface(k.interfaces[i]) /\ k.interfaces[i] \in Interfaces
<1> DEFINE L == Len(s.configurations)
           k == s.configurations[c]
<1>1. s.configurations \in Seq(Configurations) /\ L < 256 /\ GoodConfiguration(k)
  BY DEF GoodSet, DescriptorSets
<1>2. L \in Nat /\ DOMAIN s.configurations = 1 .. L
  BY <1>1, LenProperties
<1>3. c \in Nat \ {0} /\ c < 256
  <2>1. c \in 1 .. L
    OBVIOUS
  <2> HIDE DEF L
  <2> QED
    BY <1>1, <1>2, <2>1
<1> HIDE DEF k
<1>4. k.interfaces \in Seq(Interfaces)
  BY <1>1 DEF GoodConfiguration, Configurations
<1>5. Len(k.interfaces) \in Nat /\ DOMAIN k.interfaces = 1 .. Len(k.interfaces)
  BY <1>4, LenProperties
<1>6. \A i \in 1 .. Len(k.interfaces) : GoodInterface(k.interfaces[i])
  BY <1>1, <1>5 DEF GoodConfiguration
<1> QED
  BY <1>1, <1>2, <1>3, <1>4, <1>5, <1>6 DEF k, GoodInterface

\* An interface has no sidecar, or one.
LEMMA OneSidecar ==
    ASSUME NEW c \in Nat \ {0}, c < 256, NEW i, GoodInterface(i)
    PROVE  /\ Sidecar(c, i) \in Seq(Seq(Byte)) /\ Len(Sidecar(c, i)) <= 1
           /\ i.report = <<>> => Sidecar(c, i) = <<>> /\ Elements(Sidecar(c, i)) = {}
           /\ i.report # <<>> => /\ Sidecar(c, i) = <<Sidecar(c, i)[1]>>
                                 /\ Elements(Sidecar(c, i)) = {Sidecar(c, i)[1]}
<1>1. i \in Interfaces /\ \A r \in DOMAIN i.report : Len(i.report[r]) < Word
  BY DEF GoodInterface
<1>2. Sidecar(c, i) \in Seq(Seq(Byte)) /\ Len(Sidecar(c, i)) <= 1
  BY <1>1, SidecarTyped
<1>3. ASSUME i.report = <<>>
      PROVE  Sidecar(c, i) = <<>>
  <2>1. DOMAIN i.report = {}
    BY <1>3
  <2> HIDE <1>3
  <2>2. Sidecar(c, i) = [r \in {} |-> 0]
    BY <2>1 DEF Sidecar
  <2>3. [r \in {} |-> 0] = <<>>
    OBVIOUS
  <2> QED
    BY <2>2, <2>3
<1>4. Elements(<<>>) = {}
  BY DEF Elements
<1>5. ASSUME i.report # <<>>
      PROVE  Sidecar(c, i) = <<Sidecar(c, i)[1]>>
  BY <1>1, <1>5, SidecarRead
<1>6. \A y : Elements(<<y>>) = {y}
  BY DEF Elements
<1> QED
  BY <1>2, <1>3, <1>4, <1>5, <1>6

\* The sidecars of a configuration, interface by interface.
LEMMA EachSidecarTyped ==
    ASSUME NEW s, GoodSet(s), NEW c \in 1 .. Len(s.configurations)
    PROVE  LET interfaces == s.configurations[c].interfaces
               each == EachSidecar(c, interfaces)
           IN  /\ each \in Seq(Seq(Seq(Byte))) /\ Len(each) = Len(interfaces)
               /\ \A i \in 1 .. Len(interfaces) : each[i] = Sidecar(c, interfaces[i])
               /\ FlattenSeq(each) \in Seq(Seq(Byte))
               /\ Elements(FlattenSeq(each)) =
                    UNION {Elements(Sidecar(c, interfaces[i])) : i \in 1 .. Len(interfaces)}
<1> DEFINE interfaces == s.configurations[c].interfaces
           each == EachSidecar(c, interfaces)
           B == Seq(Byte)
           BB == Seq(B)
           n == Len(interfaces)
<1>1. n \in Nat /\ DOMAIN interfaces = 1 .. n
  BY GoodParts
<1>2. ASSUME NEW i \in 1 .. n
      PROVE  Sidecar(c, interfaces[i]) \in BB
  BY GoodParts, OneSidecar
<1> HIDE DEF BB, interfaces, n
<1>3. each \in [1 .. n -> BB] /\ \A i \in 1 .. n : each[i] = Sidecar(c, interfaces[i])
  BY <1>1, <1>2 DEF EachSidecar
<1> HIDE DEF each
<1>4. each \in Seq(BB) /\ Len(each) = n
  BY <1>1, <1>3, EachTyped
<1> HIDE DEF B
<1>5. each \in Seq(Seq(B))
  BY <1>4 DEF BB
<1>6. FlattenSeq(each) \in Seq(B)
  BY <1>5, FlattenTyped
<1>7. Elements(FlattenSeq(each)) = UNION {Elements(each[i]) : i \in 1 .. Len(each)}
  BY <1>5, FlattenElements
<1>8. UNION {Elements(each[i]) : i \in 1 .. Len(each)} = UNION {Elements(Sidecar(c, interfaces[i])) : i \in 1 .. n}
  BY <1>3, <1>4
<1> QED
  BY <1>3, <1>4, <1>6, <1>7, <1>8 DEF each, B, BB, n, interfaces

\* Each sidecar of a set names an interface of it that has a report.
LEMMA SidecarNamed ==
    ASSUME NEW s, GoodSet(s), NEW x
    PROVE  x \in Elements(Sidecars(s)) <=> \E c, i : Names(s, x, c, i)
<1> DEFINE configurations == s.configurations
           all == EachSidecars(configurations)
           B == Seq(Byte)
           BB == Seq(B)
           L == Len(configurations)
           In(c) == FlattenSeq(EachSidecar(c, configurations[c].interfaces))
<1>1. L \in Nat /\ DOMAIN configurations = 1 .. L
  <2>1. configurations \in Seq(Configurations)
    BY DEF GoodSet, DescriptorSets
  <2> QED
    BY <2>1, LenProperties
<1>2. \A c \in 1 .. L : In(c) \in BB
  BY EachSidecarTyped
<1> HIDE DEF BB, L, configurations
<1>3. all \in [1 .. L -> BB] /\ \A c \in 1 .. L : all[c] = In(c)
  BY <1>1, <1>2 DEF EachSidecars
<1> HIDE DEF all
<1>4. all \in Seq(BB) /\ Len(all) = L
  BY <1>1, <1>3, EachTyped
<1> HIDE DEF B
<1>5. all \in Seq(Seq(B))
  BY <1>4 DEF BB
<1>6. Elements(FlattenSeq(all)) = UNION {Elements(all[c]) : c \in 1 .. Len(all)}
  BY <1>5, FlattenElements
<1>7. Sidecars(s) = FlattenSeq(all)
  BY SidecarsAre DEF all, configurations
<1>8. x \in Elements(Sidecars(s)) <=> \E c \in 1 .. L : x \in Elements(In(c))
  BY <1>3, <1>4, <1>6, <1>7
<1>9. ASSUME NEW c \in 1 .. L
      PROVE  x \in Elements(In(c)) <=> \E i : Names(s, x, c, i)
  <2> DEFINE interfaces == s.configurations[c].interfaces
             n == Len(interfaces)
  <2>1. c \in 1 .. Len(s.configurations)
    BY DEF L, configurations
  <2>2. Elements(In(c)) = UNION {Elements(Sidecar(c, interfaces[i])) : i \in 1 .. n}
    BY <2>1, EachSidecarTyped DEF configurations
  <2>3. ASSUME NEW i \in 1 .. n
        PROVE  x \in Elements(Sidecar(c, interfaces[i])) <=> Names(s, x, c, i)
    <3>1. c \in Nat \ {0} /\ c < 256 /\ GoodInterface(interfaces[i])
      BY <2>1, GoodParts
    <3>2. /\ interfaces[i].report = <<>> => Elements(Sidecar(c, interfaces[i])) = {}
          /\ interfaces[i].report # <<>> => Elements(Sidecar(c, interfaces[i])) = {Sidecar(c, interfaces[i])[1]}
      BY <3>1, OneSidecar
    <3> QED
      BY <2>1, <3>2 DEF Names
  <2>4. \A i : Names(s, x, c, i) => i \in 1 .. n
    BY DEF Names
  <2> HIDE DEF In, n, interfaces
  <2> QED
    BY <2>2, <2>3, <2>4
<1>10. \A c, i : Names(s, x, c, i) => c \in 1 .. L
  BY DEF Names, L, configurations
<1> HIDE DEF In
<1> QED
  BY <1>8, <1>9, <1>10

\* Number and alternate setting are the first two fields.
LEMMA SettingIs ==
    ASSUME NEW i \in Interfaces
    PROVE  Setting(i) = <<i.fields[1], i.fields[2]>>
<1> DEFINE f == i.fields
<1>1. f \in Seq(Byte) /\ Len(f) = 6
  BY DEF Interfaces, Row
<1> HIDE DEF f
<1>2. f[1] \in Byte /\ f[2] \in Byte
  <2>1. 1 \in 1 .. 6 /\ 2 \in 1 .. 6
    OBVIOUS
  <2> QED
    BY <1>1, <2>1, ElementOfSeq
<1> DEFINE t == <<f[1], f[2]>>
<1>3. t \in Seq(Byte) /\ Len(t) = 2 /\ t[1] = f[1] /\ t[2] = f[2]
  BY <1>2
<1> HIDE DEF t
<1>4. \A j \in 1 .. 2 : f[0 + j] = t[j]
  <2>1. \A j \in 1 .. 2 : j = 1 \/ j = 2
    OBVIOUS
  <2>2. 0 + 1 = 1 /\ 0 + 2 = 2
    OBVIOUS
  <2> QED
    BY <1>3, <2>1, <2>2
<1>5. SubSeq(f, 0 + 1, 0 + 2) = t
  <2>1. 0 \in Nat /\ 2 \in Nat /\ 0 + 2 <= Len(f)
    BY <1>1
  <2> QED
    BY <1>1, <1>3, <1>4, <2>1, PartIs
<1>6. SubSeq(f, 1, 2) = t
  BY <1>5
<1> QED
  BY <1>6 DEF f, t, Setting

\* What the sidecar of an interface says.
SidecarSays(x, c, i) ==
    /\ i.report = <<i.report[1]>> /\ i.report[1] \in Seq(Byte) /\ Len(i.report[1]) \in Nat
    /\ Long(x, Byte, 8 + Len(i.report[1]))
    /\ x[1] = c - 1 /\ x[2] = i.fields[1] /\ x[3] = i.fields[2]
    /\ x[4] = ReportType /\ x[5] = 0
    /\ x[7] + 256 * x[8] = Len(i.report[1])
    /\ Placed(x, 8, i.report[1], Len(i.report[1]))

\* A sidecar says which interface it is for, and how long its report is.
LEMMA NamesSays ==
    ASSUME NEW s, GoodSet(s), NEW x, NEW c, NEW i, Names(s, x, c, i)
    PROVE  SidecarSays(x, c, s.configurations[c].interfaces[i])
<1> DEFINE I == s.configurations[c].interfaces[i]
<1>1. c \in Nat \ {0} /\ c < 256 /\ GoodInterface(I) /\ I.report # <<>> /\ x = Sidecar(c, I)[1]
  BY GoodParts DEF Names
<1> HIDE DEF I
<1>2. I \in Interfaces /\ \A r \in DOMAIN I.report : Len(I.report[r]) < Word
  BY <1>1 DEF GoodInterface
<1> DEFINE r == I.report[1]
<1>3. /\ I.report = <<r>> /\ r \in Seq(Byte)
      /\ Long(x, Byte, 8 + Len(r))
      /\ x[1] = c - 1 /\ x[2] = I.fields[1] /\ x[3] = I.fields[2]
      /\ x[4] = ReportType /\ x[5] = 0
      /\ x[7] + 256 * x[8] = Len(r)
      /\ \A j \in 1 .. Len(r) : x[8 + j] = r[j]
  BY <1>1, <1>2, SidecarRead
<1>4. Len(r) \in Nat
  BY <1>3, LenProperties
<1> HIDE DEF r
<1> QED
  BY <1>3, <1>4 DEF SidecarSays, Placed, I, r

\* It names no other: the interfaces of a configuration with reports have
\* settings of their own.
LEMMA NamesOne ==
    ASSUME NEW s, GoodSet(s), NEW x, NEW c, NEW i, Names(s, x, c, i), NEW d, NEW j, Names(s, x, d, j)
    PROVE  c = d /\ i = j
<1> DEFINE I == s.configurations[c].interfaces[i]
           J == s.configurations[d].interfaces[j]
<1>1. x[1] = c - 1 /\ x[2] = I.fields[1] /\ x[3] = I.fields[2]
  BY NamesSays DEF SidecarSays
<1>2. x[1] = d - 1 /\ x[2] = J.fields[1] /\ x[3] = J.fields[2]
  BY NamesSays DEF SidecarSays
<1>3. c \in Nat /\ d \in Nat
  BY GoodParts DEF Names
<1>4. c = d
  BY <1>1, <1>2, <1>3
<1>5. I \in Interfaces /\ J \in Interfaces
  BY GoodParts DEF Names
<1>6. Setting(I) = Setting(J)
  BY <1>1, <1>2, <1>5, SettingIs
<1> DEFINE q == s.configurations[c].interfaces
           n == Len(q)
<1>7. ReportFound(q) /\ DOMAIN q = 1 .. n /\ n \in Nat
  BY GoodParts DEF Names, GoodConfiguration
<1>8. /\ i \in 1 .. n /\ j \in 1 .. n /\ q[i].report # <<>> /\ q[j].report # <<>>
      /\ Setting(q[i]) = Setting(q[j])
  BY <1>4, <1>6 DEF Names
<1> HIDE DEF q, n
<1>9. /\ \A l \in 1 .. i - 1 : Setting(q[l]) # Setting(q[i])
      /\ \A l \in 1 .. j - 1 : Setting(q[l]) # Setting(q[j])
  BY <1>7, <1>8 DEF ReportFound
<1>10. ~(i < j) /\ ~(j < i)
  BY <1>7, <1>8, <1>9
<1>11. i = j
  BY <1>7, <1>8, <1>10
<1> QED
  BY <1>4, <1>11

-----------------------------------------------------------------------------
(* The steps through the sidecars                                          *)

FirstWith(q, setting) ==
    LET I == {j \in 1 .. Len(q) : SubSeq(q[j].fields, 1, 2) = setting}
    IN  IF I # {} THEN Min(I) ELSE 0

\* decode looks for the first interface with the setting a sidecar names
\* (lib.rs:999-1008).
LEMMA TargetFirst ==
    Target = FirstWith(set.configurations[Field(1) + 1].interfaces, <<Field(2), Field(3)>>)
BY DEF Target, SelectInSeq, FirstWith

\* The first interface with a setting is the one a sidecar names.
LEMMA FirstFound ==
    ASSUME NEW q, NEW setting, NEW i \in 1 .. Len(q), Len(q) \in Nat, SubSeq(q[i].fields, 1, 2) = setting,
           \A j \in 1 .. i - 1 : SubSeq(q[j].fields, 1, 2) # setting
    PROVE  FirstWith(q, setting) = i
<1> DEFINE I == {j \in 1 .. Len(q) : SubSeq(q[j].fields, 1, 2) = setting}
<1>1. i \in I /\ \A j \in I : i <= j
  OBVIOUS
<1>2. \A a, b \in I : (\A j \in I : a <= j) /\ (\A j \in I : b <= j) => a = b
  OBVIOUS
<1> HIDE DEF I
<1>3. Min(I) = i
  BY <1>1, <1>2 DEF Min
<1>4. FirstWith(q, setting) = IF I # {} THEN Min(I) ELSE 0
  BY DEF FirstWith, I
<1> QED
  BY <1>1, <1>3, <1>4

\* When a set arrives, it finds the one the report belongs to.
LEMMA TargetFound ==
    ASSUME NEW s, GoodSet(s), NEW T, set = With(s, T), NEW x, NEW c, NEW i, Names(s, x, c, i),
           Field(1) = x[1], Field(2) = x[2], Field(3) = x[3]
    PROVE  /\ Field(1) + 1 = c /\ Target = i
           /\ Field(1) < Len(set.configurations)
<1> DEFINE k == s.configurations[c]
           n == Len(k.interfaces)
           L == Len(s.configurations)
           q == set.configurations[c].interfaces
<1>1. /\ c \in Nat \ {0} /\ L \in Nat /\ c \in 1 .. L /\ GoodConfiguration(k) /\ DOMAIN k.interfaces = 1 .. n /\ n \in Nat
      /\ i \in 1 .. n /\ k.interfaces[i].report # <<>>
      /\ \A j \in 1 .. n : k.interfaces[j] \in Interfaces
  BY GoodParts DEF Names
<1>2. x[1] = c - 1 /\ x[2] = k.interfaces[i].fields[1] /\ x[3] = k.interfaces[i].fields[2]
  BY NamesSays DEF SidecarSays
<1>3. Field(1) + 1 = c
  BY <1>1, <1>2
<1>4. set.configurations = Partial(s, T)
  BY DEF With
<1>5. Len(set.configurations) = L /\ set.configurations[c] = Partly(c, k, T) /\ k \in Configurations
  BY <1>1, <1>4, PartialTyped
<1> HIDE DEF k
<1>6. q = [j \in 1 .. n |-> Given(c, k.interfaces[j], T)]
  BY <1>1, <1>5 DEF Partly, Configurations
<1>7. Len(q) = n /\ \A j \in 1 .. n : Setting(q[j]) = Setting(k.interfaces[j])
  <2>1. ASSUME NEW j \in 1 .. n
        PROVE  /\ Given(c, k.interfaces[j], T) \in Interfaces
               /\ Setting(Given(c, k.interfaces[j], T)) = Setting(k.interfaces[j])
    <3> DEFINE I == k.interfaces[j]
    <3>1. I \in Interfaces
      BY <1>1
    <3> HIDE DEF I
    <3>2. Given(c, I, T) \in Interfaces /\ Setting(Given(c, I, T)) = Setting(I)
      BY <3>1, GivenTyped
    <3> QED
      BY <3>2 DEF I
  <2> HIDE DEF q, n
  <2>2. q \in [1 .. n -> Interfaces]
    BY <1>6, <2>1
  <2>3. Len(q) = n
    BY <1>1, <2>2, EachTyped
  <2> QED
    BY <1>6, <2>1, <2>3
<1>8. Setting(k.interfaces[i]) = <<Field(2), Field(3)>>
  BY <1>1, <1>2, SettingIs
<1>9. \A j \in 1 .. i - 1 : Setting(k.interfaces[j]) # Setting(k.interfaces[i])
  BY <1>1 DEF GoodConfiguration, ReportFound
<1> HIDE DEF q
<1>10. Target = i
  <2> DEFINE setting == <<Field(2), Field(3)>>
  <2>1. /\ i \in 1 .. Len(q) /\ Len(q) \in Nat /\ SubSeq(q[i].fields, 1, 2) = setting
    BY <1>1, <1>7, <1>8 DEF Setting
  <2>2. \A j \in 1 .. i - 1 : SubSeq(q[j].fields, 1, 2) # setting
    <3>1. \A j \in 1 .. i - 1 : j \in 1 .. n
      BY <1>1
    <3> QED
      BY <1>7, <1>8, <1>9, <3>1 DEF Setting
  <2> HIDE DEF setting
  <2>3. FirstWith(q, setting) = i
    BY <2>1, <2>2, FirstFound
  <2>4. Target = FirstWith(q, setting)
    BY <1>3, TargetFirst DEF q, setting
  <2> QED
    BY <2>3, <2>4
<1>11. Field(1) < L
  <2> HIDE DEF L
  <2> QED
    BY <1>1, <1>2
<1> QED
  BY <1>3, <1>5, <1>10, <1>11

\* What the bytes of a sidecar say.
\* The sidecar x, with the report r, comes next in b, as far as b goes.
SidecarComes(b, o, x, r, rest, total) ==
    /\ x \in Seq(Byte) /\ Len(x) = 8 + Len(r) /\ Len(r) \in Nat
    /\ o + 8 <= Len(b) =>
         /\ b[o + 1] = x[1] /\ b[o + 2] = x[2] /\ b[o + 3] = x[3]
         /\ b[o + 4] = ReportType /\ b[o + 5] = 0
         /\ b[o + 7] + 256 * b[o + 8] = Len(r)
    /\ o + Len(x) <= Len(b) => SubSeq(b, o + 9, o + Len(x)) = r
    /\ Goes(b, o + Len(x), rest, total)
    /\ Len(b) = total => o + Len(x) <= Len(b)

\* What decode reads of a sidecar, when a set arrives.
LEMMA SidecarKnown ==
    ASSUME NEW s, GoodSet(s), NEW x, NEW c, NEW i, Names(s, x, c, i),
           NEW b \in Seq(Byte), NEW o \in Nat, NEW rest, NEW total, Goes(b, o, x \o rest, total), rest \in Seq(Byte)
    PROVE  LET r == s.configurations[c].interfaces[i].report[1] IN
           /\ SidecarComes(b, o, x, r, rest, total)
           /\ s.configurations[c].interfaces[i].report = <<r>>
<1> DEFINE I == s.configurations[c].interfaces[i]
           r == I.report[1]
           n == Len(r)
<1>1. /\ I.report = <<r>> /\ r \in Seq(Byte) /\ n \in Nat
      /\ Long(x, Byte, 8 + n)
      /\ x[4] = ReportType /\ x[5] = 0
      /\ x[7] + 256 * x[8] = n
      /\ Placed(x, 8, r, n)
  <2>1. SidecarSays(x, c, I)
    BY NamesSays
  <2> HIDE DEF I
  <2> QED
    BY <2>1 DEF SidecarSays
<1> HIDE DEF I, r
<1>2. x \in Seq(Byte) /\ Len(x) = 8 + n
  BY <1>1 DEF Long
<1>3. x \in Seq(Byte)
  BY <1>2
<1>4. /\ Goes(b, o + Len(x), rest, total) /\ Continues(b, o, x)
      /\ o + Len(x) <= Len(b) => Stands(b, o, x)
      /\ o + Len(x) \in Nat /\ Len(rest) \in Nat /\ total = (o + Len(x)) + Len(rest)
  BY <1>3, GoesOn
<1>5. Len(b) \in Nat
  BY LenProperties
<1>6. Len(b) = total => o + Len(x) <= Len(b)
  BY <1>4, <1>5
<1>7. ASSUME o + 8 <= Len(b)
      PROVE  /\ b[o + 1] = x[1] /\ b[o + 2] = x[2] /\ b[o + 3] = x[3]
             /\ b[o + 4] = ReportType /\ b[o + 5] = 0
             /\ b[o + 7] + 256 * b[o + 8] = n
  <2>1. \A j \in 1 .. Len(x) : o + j <= Len(b) => b[o + j] = x[j]
    BY <1>4 DEF Continues
  <2>2. \A j \in 1 .. 8 : j \in 1 .. Len(x) /\ o + j <= Len(b)
    <3> DEFINE l == Len(x)
               e == Len(b)
    <3>1. n \in Nat /\ l = 8 + n /\ e \in Nat /\ o \in Nat /\ o + 8 <= e
      BY <1>1, <1>2, <1>5, <1>7
    <3> HIDE DEF n, l, e
    <3>2. \A j \in 1 .. 8 : j \in 1 .. l /\ o + j <= e
      BY <3>1
    <3> QED
      BY <3>2 DEF l, e
  <2>3. {1, 2, 3, 4, 5, 7, 8} \subseteq 1 .. 8
    OBVIOUS
  <2>4. \A j \in {1, 2, 3, 4, 5, 7, 8} : b[o + j] = x[j]
    BY <2>1, <2>2, <2>3
  <2> HIDE DEF n
  <2> QED
    BY <1>1, <2>4
<1>8. ASSUME o + Len(x) <= Len(b)
      PROVE  SubSeq(b, o + 9, o + Len(x)) = r
  <2>1. Stands(b, o, x)
    BY <1>4, <1>8
  <2>2. r \in Seq(Byte) /\ Len(r) = n /\ n \in Nat /\ Placed(x, 8, r, n)
    BY <1>1
  <2>3. 8 \in Nat /\ 8 + n <= Len(x)
    <3> HIDE DEF n
    <3> QED
      BY <1>1, <1>2
  <2> HIDE DEF n
  <2>4. PartAt(b, o, 8, n, r)
    BY <1>3, <2>1, <2>2, <2>3, StandsPart
  <2>5. o + (8 + 1) = o + 9 /\ o + (8 + n) = o + Len(x)
    BY <1>2
  <2> QED
    BY <2>4, <2>5 DEF PartAt
<1>9. SidecarComes(b, o, x, r, rest, total)
  BY <1>1, <1>2, <1>4, <1>6, <1>7, <1>8 DEF n, SidecarComes
<1> QED
  BY <1>1, <1>9 DEF I, r

\* Of two reports for one interface the last one stays.
LEMMA ReportTwice ==
    ASSUME NEW i, NEW y, NEW z
    PROVE  [[i EXCEPT !.report = y] EXCEPT !.report = z] = [i EXCEPT !.report = z]
OBVIOUS

MoreAt(s, T, x, c, i, d, j) ==
    LET I == s.configurations[d].interfaces[j] IN
    /\ (d # c \/ j # i) => Given(d, I, T \union {x}) = Given(d, I, T)
    /\ (d = c /\ j = i) => Given(d, I, T \union {x}) = [Given(d, I, T) EXCEPT !.report = I.report]

MoreIn(s, T, x, c, i, d) ==
    LET k == s.configurations[d]
        p == Partly(d, k, T)
    IN  /\ d # c => Partly(d, k, T \union {x}) = p
        /\ d = c => Partly(d, k, T \union {x}) =
             [p EXCEPT !.interfaces =
                [p.interfaces EXCEPT ![i] =
                   [p.interfaces[i] EXCEPT !.report = k.interfaces[i].report]]]

\* With one sidecar more, one interface has its report.
LEMMA GivenMore ==
    ASSUME NEW s, GoodSet(s), NEW T, NEW x, NEW c, NEW i, Names(s, x, c, i),
           NEW d \in 1 .. Len(s.configurations), NEW j \in 1 .. Len(s.configurations[d].interfaces)
    PROVE  MoreAt(s, T, x, c, i, d, j)
<1> DEFINE I == s.configurations[d].interfaces[j]
<1>1. CASE d # c \/ j # i
  <2>1. ~Names(s, x, d, j)
    BY <1>1, NamesOne
  <2>2. ~(I.report # <<>> /\ Sidecar(d, I)[1] = x)
    BY <2>1 DEF Names
  <2> HIDE DEF I
  <2>3. (I.report # <<>> /\ Sidecar(d, I)[1] \in T \union {x}) <=> (I.report # <<>> /\ Sidecar(d, I)[1] \in T)
    BY <2>2
  <2>4. Given(d, I, T \union {x}) = Given(d, I, T)
    BY <2>3 DEF Given
  <2> QED
    BY <1>1, <2>4 DEF I, MoreAt
<1>2. CASE d = c /\ j = i
  <2>1. I.report # <<>> /\ Sidecar(d, I)[1] = x
    BY <1>2 DEF Names
  <2> HIDE DEF I
  <2>2. Given(d, I, T \union {x}) = [I EXCEPT !.report = I.report]
    BY <2>1 DEF Given
  <2> DEFINE old == IF I.report # <<>> /\ Sidecar(d, I)[1] \in T THEN I.report ELSE <<>>
  <2>3. Given(d, I, T) = [I EXCEPT !.report = old]
    BY DEF Given
  <2> HIDE DEF old
  <2>4. [Given(d, I, T) EXCEPT !.report = I.report] = [I EXCEPT !.report = I.report]
    BY <2>3, ReportTwice
  <2> QED
    BY <1>2, <2>2, <2>4 DEF I, MoreAt
<1> QED
  BY <1>1, <1>2

\* Its configuration, and the others.
LEMMA PartlyMore ==
    ASSUME NEW s, GoodSet(s), NEW T, NEW x, NEW c, NEW i, Names(s, x, c, i),
           NEW d \in 1 .. Len(s.configurations)
    PROVE  MoreIn(s, T, x, c, i, d)
<1> DEFINE k == s.configurations[d]
           U == T \union {x}
           n == Len(k.interfaces)
           old == [j \in 1 .. n |-> Given(d, k.interfaces[j], T)]
           new == [j \in 1 .. n |-> Given(d, k.interfaces[j], U)]
           p == Partly(d, k, T)
<1>1. k \in Configurations /\ DOMAIN k.interfaces = 1 .. n
  BY GoodParts DEF GoodConfiguration
<1>2. ASSUME NEW j \in 1 .. n
      PROVE  /\ (d # c \/ j # i) => Given(d, k.interfaces[j], U) = Given(d, k.interfaces[j], T)
             /\ (d = c /\ j = i) => Given(d, k.interfaces[j], U) =
                                      [Given(d, k.interfaces[j], T) EXCEPT !.report = k.interfaces[j].report]
  <2>1. MoreAt(s, T, x, c, i, d, j)
    BY GivenMore
  <2> QED
    BY <2>1 DEF MoreAt
<1>3. d = c => i \in 1 .. n
  BY DEF Names
<1> HIDE DEF k, n, U
<1>4. p = [k EXCEPT !.interfaces = old] /\ Partly(d, k, U) = [k EXCEPT !.interfaces = new]
  BY <1>1 DEF Partly
<1> HIDE DEF p
<1>5. CASE d # c
  <2>1. new = old
    BY <1>2, <1>5
  <2> HIDE DEF new, old
  <2> QED
    BY <1>4, <1>5, <2>1 DEF p, k, U, MoreIn
<1>6. CASE d = c
  <2> DEFINE report == k.interfaces[i].report
             y == [old[i] EXCEPT !.report = report]
             other == [old EXCEPT ![i] = y]
  <2>1. new[i] = y
    BY <1>2, <1>3, <1>6
  <2>2. \A j \in 1 .. n : j # i => new[j] = old[j]
    BY <1>2
  <2> HIDE DEF y
  <2>3. new = other
    BY <1>3, <1>6, <2>1, <2>2
  <2> HIDE DEF new, old
  <2>4. p.interfaces = old
    BY <1>1, <1>4 DEF Configurations
  <2> HIDE DEF other
  <2>5. [p EXCEPT !.interfaces = other] = [k EXCEPT !.interfaces = other]
    BY <1>4
  <2>6. Partly(d, k, U) = [p EXCEPT !.interfaces = other]
    BY <1>4, <2>3, <2>5
  <2>7. other = [p.interfaces EXCEPT ![i] = [p.interfaces[i] EXCEPT !.report = report]]
    BY <2>4 DEF other, y
  <2> QED
    BY <1>6, <2>6, <2>7 DEF p, k, U, MoreIn
<1> QED
  BY <1>5, <1>6

WithReportAt(u, c, i, report) == [u EXCEPT !.configurations[c].interfaces[i].report = report]

\* A set with some of its reports, and one more of them.
LEMMA WithMore ==
    ASSUME NEW s, GoodSet(s), NEW T, NEW x, NEW c, NEW i, Names(s, x, c, i),
           NEW u, u = With(s, T), NEW report, report = s.configurations[c].interfaces[i].report
    PROVE  WithReportAt(u, c, i, report) = With(s, T \union {x})
<1> DEFINE L == Len(s.configurations)
           P == Partial(s, T)
           N == Partial(s, T \union {x})
           q == P[c].interfaces
           y == [q[i] EXCEPT !.report = report]
           z == [q EXCEPT ![i] = y]
           k == [P[c] EXCEPT !.interfaces = z]
           R == [P EXCEPT ![c] = k]
<1>1. c \in 1 .. L
  BY DEF Names
<1>2. \A d \in 1 .. L : /\ P[d] = Partly(d, s.configurations[d], T)
                        /\ N[d] = Partly(d, s.configurations[d], T \union {x})
  BY DEF Partial
<1>3. ASSUME NEW d \in 1 .. L, d # c
      PROVE  N[d] = P[d]
  <2>1. Partly(d, s.configurations[d], T \union {x}) = Partly(d, s.configurations[d], T)
    <3>1. MoreIn(s, T, x, c, i, d)
      BY PartlyMore
    <3> QED
      BY <1>3, <3>1 DEF MoreIn
  <2> QED
    BY <1>2, <2>1
<1>4. N[c] = k
  <2>1. P[c] = Partly(c, s.configurations[c], T)
    BY <1>1, <1>2
  <2> DEFINE a == Partly(c, s.configurations[c], T)
  <2>2. Partly(c, s.configurations[c], T \union {x}) =
          [a EXCEPT !.interfaces =
             [a.interfaces EXCEPT ![i] =
                [a.interfaces[i] EXCEPT !.report = s.configurations[c].interfaces[i].report]]]
    <3>1. MoreIn(s, T, x, c, i, c)
      BY <1>1, PartlyMore
    <3> QED
      BY <3>1 DEF MoreIn
  <2> HIDE DEF a, P, N
  <2>3. N[c] = Partly(c, s.configurations[c], T \union {x}) /\ P[c] = a
    BY <1>1, <1>2 DEF a
  <2> QED
    BY <2>2, <2>3
<1> HIDE DEF k
<1>5. N = R
  <2>1. /\ N \in [1 .. L -> {N[d] : d \in 1 .. L}] /\ DOMAIN P = 1 .. L /\ DOMAIN N = 1 .. L
        /\ N = [d \in 1 .. L |-> N[d]] /\ P = [d \in 1 .. L |-> P[d]]
    BY DEF Partial
  <2> HIDE DEF N, P
  <2> QED
    BY <1>1, <1>3, <1>4, <2>1
<1>6. u = [device |-> s.device, configurations |-> P]
  BY DEF With
<1>7. u.configurations = P
  BY <1>6
<1>8. [u EXCEPT !.configurations = R] = [device |-> s.device, configurations |-> R]
  <2> HIDE DEF R, P
  <2> QED
    BY <1>6
<1>9. [u EXCEPT !.configurations[c].interfaces[i].report = report] = [u EXCEPT !.configurations = R]
  BY <1>7 DEF k
<1> QED
  BY <1>5, <1>8, <1>9 DEF With, WithReportAt

\* The elements of a row, with one more.
LEMMA ElementsMore ==
    ASSUME NEW S, NEW q \in Seq(S), NEW x \in S
    PROVE  Elements(Append(q, x)) = Elements(q) \union {x}
<1> DEFINE u == Append(q, x)
           n == Len(q)
<1>1. n \in Nat
  BY LenProperties
<1>2. Len(u) = n + 1 /\ u[n + 1] = x /\ \A k \in 1 .. n : u[k] = q[k]
  BY AppendProperties
<1> HIDE DEF u, n
<1>3. 1 .. Len(u) = (1 .. n) \union {n + 1}
  BY <1>1, <1>2
<1>4. {u[k] : k \in 1 .. Len(u)} = {q[k] : k \in 1 .. n} \union {x}
  BY <1>2, <1>3
<1> QED
  BY <1>4 DEF Elements, u, n

\* A sidecar gives its interface the report it had.
LEMMA SidecarTracks ==
    ASSUME NEW s, GoodSet(s), TypeInv, Tracks(s), TakeSidecar \/ RejectSidecar
    PROVE  Tracks(s)'
<1> DEFINE q == Sidecars(s)
<1>1. /\ bytes \in Seq(Byte) /\ pc = "sidecars" /\ Len(bytes) \in Nat /\ offset \in Nat
      /\ left > 0 /\ ~accepted
  <2>1. bytes \in Seq(Byte) /\ pc = "sidecars" /\ offset \in 0 .. Len(bytes) /\ left > 0
    BY DEF TypeInv, WhileDecoding, WithinPayload, Byte, TakeSidecar, RejectSidecar
  <2>2. Len(bytes) \in Nat
    BY <2>1, LenProperties
  <2>3. ~accepted
    BY <2>1 DEF TypeInv, WhileDecoding
  <2> QED
    BY <2>1, <2>2, <2>3
<1>2. PICK m \in 0 .. Len(q) : AtSidecar(s, m)
  BY <1>1 DEF Tracks
<1>3. q \in Seq(Seq(Byte)) /\ Len(q) \in Nat
  BY GoodSidecars
<1> DEFINE x == q[m + 1]
           rest == FlattenSeq(After(q, m + 1))
           T == Elements(SubSeq(q, 1, m))
<1>4. /\ left = Len(q) - m /\ set = With(s, T)
      /\ Goes(bytes, offset, FlattenSeq(After(q, m)), Total(s))
  BY <1>2 DEF AtSidecar
<1>5. m \in 0 .. Len(q) - 1 /\ m + 1 \in 1 .. Len(q) /\ m + 1 \in 0 .. Len(q)
  <2>1. left = Len(q) - m /\ left > 0 /\ m \in 0 .. Len(q)
    BY <1>1, <1>4
  <2> HIDE DEF q
  <2> QED
    BY <1>3, <2>1
<1>6. /\ FlattenSeq(After(q, m)) = x \o rest /\ x \in Seq(Byte) /\ rest \in Seq(Byte)
  <2> HIDE DEF q
  <2> QED
    BY <1>3, <1>5, FlattenMore
<1>7. x \in Elements(q)
  BY <1>5 DEF Elements
<1> HIDE DEF x
<1>8. PICK c, i : Names(s, x, c, i)
  <2>1. \E c, i : Names(s, x, c, i)
    BY <1>7, SidecarNamed
  <2> QED
    BY <2>1
<1> DEFINE r == s.configurations[c].interfaces[i].report[1]
<1> HIDE DEF rest, T
<1>9. /\ x \in Seq(Byte) /\ Len(x) = 8 + Len(r) /\ Len(r) \in Nat
      /\ s.configurations[c].interfaces[i].report = <<r>>
      /\ offset + 8 <= Len(bytes) =>
           /\ bytes[offset + 1] = x[1] /\ bytes[offset + 2] = x[2] /\ bytes[offset + 3] = x[3]
           /\ bytes[offset + 4] = ReportType /\ bytes[offset + 5] = 0
           /\ bytes[offset + 7] + 256 * bytes[offset + 8] = Len(r)
      /\ offset + Len(x) <= Len(bytes) => SubSeq(bytes, offset + 9, offset + Len(x)) = r
      /\ Goes(bytes, offset + Len(x), rest, Total(s))
      /\ Len(bytes) = Total(s) => offset + Len(x) <= Len(bytes)
  <2>1. Goes(bytes, offset, x \o rest, Total(s))
    BY <1>4, <1>6
  <2>2. rest \in Seq(Byte)
    BY <1>6
  <2> QED
    <3>1. SidecarComes(bytes, offset, x, r, rest, Total(s))
      BY <1>1, <1>8, <2>1, <2>2, SidecarKnown
    <3>2. s.configurations[c].interfaces[i].report = <<r>>
      BY <1>1, <1>8, <2>1, <2>2, SidecarKnown
    <3> HIDE DEF r
    <3> QED
      BY <3>1, <3>2 DEF SidecarComes
<1> HIDE DEF r
<1>10. ASSUME offset + 8 <= Len(bytes)
       PROVE  /\ Field(1) = x[1] /\ Field(2) = x[2] /\ Field(3) = x[3]
              /\ Field(4) = ReportType /\ Field(5) = 0 /\ U16At(offset + 7) = Len(r)
              /\ offset + 8 + U16At(offset + 7) = offset + Len(x)
              /\ Field(1) + 1 = c /\ Target = i /\ Field(1) < Len(set.configurations)
  <2>1. /\ Field(1) = x[1] /\ Field(2) = x[2] /\ Field(3) = x[3]
        /\ Field(4) = ReportType /\ Field(5) = 0
    BY <1>9, <1>10 DEF Field
  <2>2. U16At(offset + 7) = Len(r)
    <3>1. offset + 7 + 1 = offset + 8
      BY <1>1
    <3> QED
      BY <1>9, <1>10, <3>1 DEF U16At
  <2>3. offset + 8 + U16At(offset + 7) = offset + Len(x)
    <3> DEFINE l == Len(x)
               k == Len(r)
    <3>1. offset \in Nat /\ k \in Nat /\ l = 8 + k
      BY <1>1, <1>9
    <3>2. U16At(offset + 7) = k
      BY <2>2
    <3> HIDE DEF l, k
    <3>3. offset + 8 + k = offset + l
      BY <3>1
    <3> QED
      BY <3>2, <3>3 DEF l
  <2>4. Field(1) + 1 = c /\ Target = i /\ Field(1) < Len(set.configurations)
    BY <1>4, <1>8, <2>1, TargetFound
  <2> QED
    BY <2>1, <2>2, <2>3, <2>4
<1>11. CASE TakeSidecar
  <2>1. offset + 8 <= Len(bytes) /\ offset + 8 + U16At(offset + 7) <= Len(bytes)
    BY <1>11 DEF TakeSidecar, SidecarFits
  <2>2. /\ offset + 8 + U16At(offset + 7) = offset + Len(x)
        /\ Field(1) + 1 = c /\ Target = i
    BY <1>10, <2>1
  <2>3. SubSeq(bytes, offset + 9, offset + Len(x)) = r
    BY <1>9, <2>1, <2>2
  <2>4. /\ set' = [set EXCEPT !.configurations[c].interfaces[i].report = <<r>>]
        /\ offset' = offset + Len(x) /\ left' = left - 1
        /\ pc' = pc /\ bytes' = bytes
    BY <1>11, <2>2, <2>3 DEF TakeSidecar
  <2>5. set' = With(s, T \union {x})
    <3> DEFINE report == <<r>>
    <3>1. report = s.configurations[c].interfaces[i].report
      BY <1>9
    <3> HIDE DEF report
    <3>2. WithReportAt(set, c, i, report) = With(s, T \union {x})
      BY <1>4, <1>8, <3>1, WithMore
    <3> QED
      BY <2>4, <3>2 DEF report, WithReportAt
  <2>6. T \union {x} = Elements(SubSeq(q, 1, m + 1))
    <3> DEFINE B == Seq(Byte)
               p == SubSeq(q, 1, m)
    <3>1. q \in Seq(B)
      BY <1>3
    <3>2. x \in B
      BY <1>6
    <3> HIDE DEF B, q
    <3>3. p \in Seq(B)
      BY <1>2, <3>1, PrefixTyped
    <3>4. Append(p, q[m + 1]) = SubSeq(q, 1, m + 1)
      BY <1>5, <3>1, PrefixGrows
    <3> HIDE DEF p
    <3>5. Elements(Append(p, x)) = Elements(p) \union {x}
      BY <3>2, <3>3, ElementsMore
    <3> QED
      BY <3>4, <3>5 DEF T, p, x
  <2>7. left' = Len(q) - (m + 1)
    <3> HIDE DEF q
    <3> QED
      BY <1>3, <1>4, <1>5, <2>4
  <2>8. Goes(bytes', offset', FlattenSeq(After(q, m + 1)), Total(s))
    BY <1>9, <2>4 DEF rest
  <2>9. AtSidecar(s, m + 1)'
    BY <2>5, <2>6, <2>7, <2>8 DEF AtSidecar
  <2> QED
    BY <1>1, <1>5, <2>4, <2>9 DEF Tracks
<1>12. CASE RejectSidecar
  <2>1. ~SidecarFits /\ Reject
    BY <1>12 DEF RejectSidecar
  <2>2. Len(bytes) # Total(s)
    <3> SUFFICES ASSUME Len(bytes) = Total(s)
                 PROVE  SidecarFits
      BY <2>1
    <3>1. offset + Len(x) <= Len(bytes)
      BY <1>9
    <3>2. offset + 8 <= Len(bytes)
      BY <1>1, <1>9, <3>1
    <3>3. Target # 0
      <4>1. i \in 1 .. Len(s.configurations[c].interfaces)
        BY <1>8 DEF Names
      <4>2. i # 0
        <5> DEFINE n == Len(s.configurations[c].interfaces)
        <5>1. i \in 1 .. n
          BY <4>1
        <5> HIDE DEF n
        <5> QED
          BY <5>1
      <4> QED
        BY <1>10, <3>2, <4>2
    <3> QED
      BY <1>10, <3>1, <3>2, <3>3 DEF SidecarFits
  <2> QED
    BY <1>1, <2>1, <2>2, RejectTracks
<1> QED
  BY <1>11, <1>12

\* With all its sidecars the set is complete.
LEMMA WithAll ==
    ASSUME NEW s, GoodSet(s)
    PROVE  With(s, Elements(Sidecars(s))) = s
<1> DEFINE T == Elements(Sidecars(s))
           L == Len(s.configurations)
<1>1. s \in DescriptorSets
  BY DEF GoodSet
<1>2. ASSUME NEW c \in 1 .. L
      PROVE  Partly(c, s.configurations[c], T) = s.configurations[c]
  <2> DEFINE k == s.configurations[c]
             n == Len(k.interfaces)
             J == [i \in 1 .. n |-> Given(c, k.interfaces[i], T)]
  <2>1. /\ k \in Configurations /\ DOMAIN k.interfaces = 1 .. n
        /\ k.interfaces \in Seq(Interfaces) /\ n \in Nat
    BY GoodParts DEF GoodConfiguration
  <2>2. ASSUME NEW i \in 1 .. n
        PROVE  Given(c, k.interfaces[i], T) = k.interfaces[i]
    <3> DEFINE I == k.interfaces[i]
    <3>1. I \in Interfaces
      BY GoodParts
    <3>2. I.report # <<>> => Sidecar(c, I)[1] \in T
      <4>1. I.report # <<>> => Names(s, Sidecar(c, I)[1], c, i)
        BY DEF Names
      <4> QED
        BY <4>1, SidecarNamed
    <3> HIDE DEF I, T
    <3> DEFINE r == IF I.report # <<>> /\ Sidecar(c, I)[1] \in T THEN I.report ELSE <<>>
    <3>3. Given(c, I, T) = [I EXCEPT !.report = r]
      BY DEF Given
    <3>4. r = I.report
      BY <3>2
    <3> HIDE DEF r
    <3>5. [I EXCEPT !.report = I.report] = I
      BY <3>1 DEF Interfaces
    <3>6. Given(c, I, T) = I
      BY <3>3, <3>4, <3>5
    <3> QED
      BY <3>6 DEF I
  <2> HIDE DEF k, n, T
  <2>3. J = k.interfaces
    <3>1. k.interfaces = [i \in 1 .. n |-> k.interfaces[i]]
      BY <2>1
    <3> QED
      BY <2>2, <3>1
  <2>4. Partly(c, k, T) = [k EXCEPT !.interfaces = J]
    BY <2>1 DEF Partly
  <2> HIDE DEF J
  <2>5. [k EXCEPT !.interfaces = k.interfaces] = k
    BY <2>1 DEF Configurations
  <2>6. Partly(c, k, T) = k
    BY <2>3, <2>4, <2>5
  <2> QED
    BY <2>6 DEF k
<1>3. L \in Nat /\ DOMAIN s.configurations = 1 .. L /\ s.configurations \in Seq(Configurations)
  <2>1. s.configurations \in Seq(Configurations)
    BY <1>1 DEF DescriptorSets
  <2> QED
    BY <2>1, LenProperties
<1> HIDE DEF T
<1>4. Partial(s, T) = s.configurations
  <2>1. Partial(s, T) = [c \in 1 .. L |-> s.configurations[c]]
    BY <1>2 DEF Partial
  <2>2. s.configurations = [c \in 1 .. L |-> s.configurations[c]]
    BY <1>3
  <2> QED
    BY <2>1, <2>2
<1>5. s = [device |-> s.device, configurations |-> s.configurations]
  BY <1>1 DEF DescriptorSets
<1> QED
  BY <1>4, <1>5 DEF With, T

\* decode accepts what arrived, and its set, encoded again, is a set that
\* arrives.
LEMMA AcceptTracks ==
    ASSUME NEW s, GoodSet(s), TypeInv, Tracks(s), Accept
    PROVE  Tracks(s)'
<1> DEFINE q == Sidecars(s)
           n == Len(q)
<1>1. /\ pc = "sidecars" /\ left = 0 /\ pc' = "done" /\ accepted' = (offset = Len(bytes))
      /\ bytes' = bytes /\ set' = set /\ offset \in Nat
  <2>1. offset \in 0 .. Len(bytes)
    BY DEF TypeInv, WhileDecoding, WithinPayload
  <2> QED
    BY <2>1 DEF Accept
<1>2. PICK m \in 0 .. n : AtSidecar(s, m)
  BY <1>1 DEF Tracks
<1>3. q \in Seq(Seq(Byte)) /\ n \in Nat
  BY GoodSidecars
<1>4. m = n
  <2>1. left = n - m /\ m \in 0 .. n
    BY <1>2 DEF AtSidecar
  <2> HIDE DEF n
  <2> QED
    BY <1>1, <1>3, <2>1
<1>5. set = s
  <2>1. set = With(s, Elements(SubSeq(q, 1, n)))
    BY <1>2, <1>4 DEF AtSidecar
  <2>2. SubSeq(q, 1, n) = q
    <3> DEFINE B == Seq(Byte)
    <3> HIDE DEF B, q
    <3>1. q \in Seq(B)
      BY <1>3 DEF B
    <3> QED
      BY <3>1, PrefixAll
  <2> HIDE DEF n
  <2> QED
    BY <2>1, <2>2, WithAll
<1>6. offset = Total(s)
  <2>1. Goes(bytes, offset, FlattenSeq(After(q, n)), Total(s))
    BY <1>2, <1>4 DEF AtSidecar
  <2>2. FlattenSeq(After(q, n)) = <<>>
    <3> HIDE DEF q
    <3> QED
      BY <1>3, FlattenNone
  <2>3. offset + Len(<<>>) = Total(s)
    BY <2>1, <2>2 DEF Goes
  <2> QED
    BY <1>1, <2>3
<1>7. AtEnd(s)'
  BY <1>1, <1>5, <1>6 DEF AtEnd
<1> QED
  BY <1>1, <1>7 DEF Tracks

\* Each step of decode.
LEMMA DecodeTracks ==
    ASSUME NEW s, GoodSet(s), TypeInv, NothingOpen, Tracks(s), Decode
    PROVE  Tracks(s)'
<1>1. CASE DecodeHeader \/ RejectHeader
  BY <1>1, HeaderTracks
<1>2. CASE OpenConfiguration \/ RejectConfiguration
  BY <1>2, OpenTracks
<1>3. CASE BodyStep
  BY <1>3, BodyTracks
<1>4. CASE ConfigurationsEnd
  BY <1>4, EndTracks
<1>5. CASE TakeSidecar \/ RejectSidecar
  BY <1>5, SidecarTracks
<1>6. CASE Accept
  BY <1>6, AcceptTracks
<1> QED
  BY <1>1, <1>2, <1>3, <1>4, <1>5, <1>6 DEF Decode, BodyStep

-----------------------------------------------------------------------------
(* What arrives whole, cut or lengthened, and what is decoded once more    *)

\* s is the set that the bytes were encoded from.
Origin(s) ==
    \/ first = <<>> /\ input.kind \in {"whole", "cut", "longer"} /\ s = input.set
    \/ first = <<s>>

LengthSays(s) ==
    /\ first = <<s>> => Len(bytes) = Total(s)
    /\ first = <<>> /\ input.kind = "whole" => Len(bytes) = Total(s)
    /\ first = <<>> /\ input.kind = "cut" => Len(bytes) < Total(s)
    /\ first = <<>> /\ input.kind = "longer" => Len(bytes) > Total(s)

Tracking == \A s : Origin(s) => GoodSet(s) /\ Tracks(s) /\ LengthSays(s)

\* An encoding, its beginning, and what goes on after it.
LEMMA CutContinues ==
    ASSUME NEW e \in Seq(Byte), NEW n \in 0 .. Len(e) - 1
    PROVE  Continues(SubSeq(e, 1, n), 0, e) /\ Len(SubSeq(e, 1, n)) = n /\ n < Len(e)
<1> DEFINE c == SubSeq(e, 1, n)
           l == Len(e)
<1>1. l \in Nat
  BY LenProperties
<1>2. n \in Nat /\ n \in 0 .. l /\ n < l
  <2>1. n \in 0 .. l - 1
    OBVIOUS
  <2> HIDE DEF l
  <2> QED
    BY <1>1, <2>1
<1>3. Len(c) = n
  BY <1>2, PrefixTyped
<1>4. ASSUME NEW i \in 1 .. l, 0 + i <= n
      PROVE  c[0 + i] = e[i]
  <2>1. i \in 1 .. n /\ 0 + i = i /\ 1 + i - 1 = i
    <3> HIDE DEF l
    <3> QED
      BY <1>1, <1>2, <1>4
  <2>2. \A j \in 1 .. n : e[j] \in Byte
    <3>1. \A j \in 1 .. n : j \in 1 .. l
      <4> HIDE DEF l
      <4> QED
        BY <1>1, <1>2
    <3> QED
      BY <3>1, ElementOfSeq
  <2>3. n - 1 + 1 = n
    BY <1>2
  <2>4. \A j \in 1 .. n - 1 + 1 : c[j] = e[1 + j - 1]
    BY <1>2, <2>2, SubSeqProperties
  <2> HIDE DEF c
  <2> QED
    BY <2>1, <2>3, <2>4
<1> HIDE DEF c
<1> QED
  BY <1>2, <1>3, <1>4 DEF Continues, c

\* A payload that goes on behind an encoding begins with it.
LEMMA LongerContinues ==
    ASSUME NEW e \in Seq(Byte), NEW b
    PROVE  Continues(Append(e, b), 0, e) /\ Len(Append(e, b)) = Len(e) + 1 /\ Len(e) \in Nat
<1>1. Len(e) \in Nat
  BY LenProperties
<1>2. Len(Append(e, b)) = Len(e) + 1 /\ \A i \in 1 .. Len(e) : Append(e, b)[i] = e[i]
  <2> DEFINE S == Byte \union {b}
  <2>1. Byte \subseteq S /\ b \in S
    OBVIOUS
  <2> HIDE DEF S
  <2>2. e \in Seq(S)
    BY <2>1, SeqWider
  <2> QED
    BY <2>1, <2>2, AppendProperties
<1>3. \A i \in 1 .. Len(e) : 0 + i = i
  BY <1>1
<1> QED
  BY <1>1, <1>2, <1>3 DEF Continues

\* Before the first byte is taken.
LEMMA HeaderAhead ==
    ASSUME NEW s, GoodSet(s), Continues(bytes, 0, Encode(s)), pc = "header", offset = 0
    PROVE  Tracks(s)
<1>1. Encode(s) \in Seq(Byte)
  BY GoodSidecars, EncodeTyped
<1>2. 0 + Len(Encode(s)) = Total(s)
  <2>1. Len(Encode(s)) \in Nat
    BY <1>1, LenProperties
  <2> QED
    BY <2>1 DEF Total
<1> QED
  BY <1>1, <1>2 DEF Tracks, AtHeader, Goes

\* An altered payload says that it is.
LEMMA AlterationsAre ==
    ASSUME NEW s, NEW i \in Alterations(s)
    PROVE  i.kind = "altered"
BY DEF Alterations, Arrives

\* Where what arrives comes from.
LEMMA InputCases ==
    ASSUME NEW i \in Inputs, i.kind \in {"whole", "cut", "longer"}
    PROVE  /\ i.set \in Sets
           /\ i.kind = "whole" => i.bytes = Encode(i.set)
           /\ i.kind = "cut" => \E n \in 0 .. Len(Encode(i.set)) - 1 : i.bytes = SubSeq(Encode(i.set), 1, n)
           /\ i.kind = "longer" => \E b \in Altered : i.bytes = Append(Encode(i.set), b)
<1>1. i \in Known \union Unknown
  BY DEF Inputs
<1>2. i \notin Unknown
  BY DEF Unknown, Arrives
<1>3. PICK s \in Sets : i \in ArrivalsOf(s)
  <2>1. i \in Known
    BY <1>1, <1>2
  <2>2. PICK a \in {ArrivalsOf(s) : s \in Sets} : i \in a
    BY <2>1 DEF Known
  <2>3. PICK s \in Sets : a = ArrivalsOf(s)
    BY <2>2
  <2> QED
    BY <2>2, <2>3
<1>4. CASE i = Arrives("whole", s, Encode(s))
  BY <1>4 DEF Arrives
<1>5. ASSUME NEW n \in 0 .. Len(Encode(s)) - 1, i = Arrives("cut", s, SubSeq(Encode(s), 1, n))
      PROVE  /\ i.set = s /\ i.kind = "cut" /\ i.bytes = SubSeq(Encode(s), 1, n)
  BY <1>5 DEF Arrives
<1>6. ASSUME NEW b \in Altered, i = Arrives("longer", s, Append(Encode(s), b))
      PROVE  /\ i.set = s /\ i.kind = "longer" /\ i.bytes = Append(Encode(s), b)
  BY <1>6 DEF Arrives
<1>7. i \notin Alterations(s)
  BY AlterationsAre
<1>8. \/ i = Arrives("whole", s, Encode(s))
      \/ \E n \in 0 .. Len(Encode(s)) - 1 : i = Arrives("cut", s, SubSeq(Encode(s), 1, n))
      \/ \E b \in Altered : i = Arrives("longer", s, Append(Encode(s), b))
  BY <1>3, <1>7 DEF ArrivalsOf
<1>9. CASE \E n \in 0 .. Len(Encode(s)) - 1 : i = Arrives("cut", s, SubSeq(Encode(s), 1, n))
  <2>1. PICK n \in 0 .. Len(Encode(s)) - 1 : i = Arrives("cut", s, SubSeq(Encode(s), 1, n))
    BY <1>9
  <2>2. i.set = s /\ i.kind = "cut" /\ i.bytes = SubSeq(Encode(s), 1, n)
    BY <1>5, <2>1
  <2> QED
    BY <2>2
<1>10. CASE \E b \in Altered : i = Arrives("longer", s, Append(Encode(s), b))
  <2>1. PICK b \in Altered : i = Arrives("longer", s, Append(Encode(s), b))
    BY <1>10
  <2>2. i.set = s /\ i.kind = "longer" /\ i.bytes = Append(Encode(s), b)
    BY <1>6, <2>1
  <2> QED
    BY <2>2
<1> QED
  BY <1>4, <1>8, <1>9, <1>10

\* What arrives first: of a set that can be sent all, a part, or more.
LEMMA InitTracking == Init => Tracking
<1> SUFFICES ASSUME Init, NEW s, Origin(s)
             PROVE  GoodSet(s) /\ Tracks(s) /\ LengthSays(s)
  BY DEF Tracking
<1>1. /\ input \in Inputs /\ bytes = input.bytes /\ pc = "header" /\ offset = 0 /\ first = <<>>
  BY DEF Init
<1>2. input.kind \in {"whole", "cut", "longer"} /\ s = input.set
  BY <1>1 DEF Origin
<1>3. /\ s \in Sets
      /\ input.kind = "whole" => bytes = Encode(s)
      /\ input.kind = "cut" => \E n \in 0 .. Len(Encode(s)) - 1 : bytes = SubSeq(Encode(s), 1, n)
      /\ input.kind = "longer" => \E b \in Altered : bytes = Append(Encode(s), b)
  BY <1>1, <1>2, InputCases
<1>4. GoodSet(s)
  BY <1>3, SetsAssumption, WellFormedGood
<1> DEFINE e == Encode(s)
<1>5. e \in Seq(Byte) /\ Len(e) \in Nat
  <2>1. e \in Seq(Byte)
    BY <1>4, GoodSidecars, EncodeTyped
  <2> QED
    BY <2>1, LenProperties
<1>6. Total(s) = Len(e)
  BY DEF Total
<1>7. first # <<s>>
  BY <1>1
<1> HIDE DEF e
<1>8. CASE input.kind = "whole"
  <2>1. bytes = e
    BY <1>3, <1>8 DEF e
  <2>2. Continues(bytes, 0, e)
    <3>1. \A i \in 1 .. Len(e) : 0 + i = i
      BY <1>5
    <3> QED
      BY <2>1, <3>1 DEF Continues
  <2>3. LengthSays(s)
    BY <1>1, <1>6, <1>7, <1>8, <2>1 DEF LengthSays
  <2> QED
    BY <1>1, <1>4, <2>2, <2>3, HeaderAhead DEF e
<1>9. CASE input.kind = "cut"
  <2>1. PICK n \in 0 .. Len(e) - 1 : bytes = SubSeq(e, 1, n)
    BY <1>3, <1>9 DEF e
  <2>2. Continues(bytes, 0, e) /\ Len(bytes) < Len(e)
    BY <1>5, <2>1, CutContinues
  <2>3. LengthSays(s)
    BY <1>1, <1>6, <1>7, <1>9, <2>2 DEF LengthSays
  <2> QED
    BY <1>1, <1>4, <2>2, <2>3, HeaderAhead DEF e
<1>10. CASE input.kind = "longer"
  <2>1. PICK b \in Altered : bytes = Append(e, b)
    BY <1>3, <1>10 DEF e
  <2>2. Continues(bytes, 0, e) /\ Len(bytes) > Len(e)
    BY <1>5, <2>1, LongerContinues
  <2>3. LengthSays(s)
    BY <1>1, <1>6, <1>7, <1>10, <2>2 DEF LengthSays
  <2> QED
    BY <1>1, <1>4, <2>2, <2>3, HeaderAhead DEF e
<1> QED
  BY <1>2, <1>8, <1>9, <1>10

\* A step of decode.
LEMMA DecodeTracking ==
    ASSUME TypeInv, NothingOpen, Tracking, Decode
    PROVE  Tracking'
<1>1. input' = input /\ first' = first /\ bytes' = bytes
  BY DEF Decode, DecodeHeader, RejectHeader, OpenConfiguration, RejectConfiguration,
         TakeInterface, TakeEndpoint, TakeExtra, TakesDescriptor, RejectDescriptor,
         CloseConfiguration, RejectBody, ConfigurationsEnd, TakeSidecar, RejectSidecar,
         Accept, Reject
<1> SUFFICES ASSUME NEW s, Origin(s)'
             PROVE  (GoodSet(s) /\ Tracks(s) /\ LengthSays(s))'
  BY DEF Tracking
<1>2. Origin(s)
  BY <1>1 DEF Origin
<1>3. GoodSet(s) /\ Tracks(s) /\ LengthSays(s)
  BY <1>2 DEF Tracking
<1>4. Tracks(s)'
  BY <1>3, DecodeTracks
<1>5. LengthSays(s)'
  BY <1>1, <1>3 DEF LengthSays
<1>6. GoodSet(s)'
  BY <1>3
<1> QED
  BY <1>4, <1>5, <1>6

\* Again: the set that was accepted is well formed.
LEMMA AgainTracking ==
    ASSUME GoodSet(set), Again
    PROVE  Tracking'
<1>1. /\ first' = <<set>> /\ pc' = "header" /\ offset' = 0
      /\ bytes' = IF Encodable(set) THEN Encode(set) ELSE <<>>
  BY DEF Again
<1>2. bytes' = Encode(set) /\ Encode(set) \in Seq(Byte)
  BY <1>1, GoodSidecars, EncodeTyped
<1> SUFFICES ASSUME NEW s, Origin(s)'
             PROVE  (GoodSet(s) /\ Tracks(s) /\ LengthSays(s))'
  BY DEF Tracking
<1>3. s = set
  <2>1. first' = <<s>>
    BY <1>1 DEF Origin
  <2> QED
    BY <1>1, <2>1
<1>4. GoodSet(s)'
  BY <1>3
<1> DEFINE e == Encode(s)
<1>5. bytes' = e /\ e \in Seq(Byte)
  BY <1>2, <1>3
<1>6. Len(e) \in Nat
  BY <1>5, LenProperties
<1>7. Total(s) = Len(e)
  BY DEF Total
<1>8. AtHeader(s)'
  <2> HIDE DEF e
  <2>1. Continues(bytes', 0, e)
    <3>1. \A i \in 1 .. Len(e) : 0 + i = i
      BY <1>6
    <3> QED
      BY <1>5, <3>1 DEF Continues
  <2>2. 0 + Len(e) = Total(s)
    BY <1>6, <1>7
  <2>3. Goes(bytes', 0, e, Total(s))
    BY <1>5, <2>1, <2>2 DEF Goes
  <2> QED
    BY <1>1, <2>3 DEF AtHeader, e
<1>9. Tracks(s)'
  BY <1>1, <1>8 DEF Tracks
<1>10. LengthSays(s)'
  <2>1. first' # <<>>
    BY <1>1
  <2>2. Len(bytes') = Total(s)
    BY <1>5, <1>7
  <2> QED
    BY <2>1, <2>2 DEF LengthSays
<1> QED
  BY <1>4, <1>9, <1>10

-----------------------------------------------------------------------------
(* Whatever arrives: what has been taken is the encoding of what has been  *)
(* built from it, but for sidecars that came twice.                        *)

Unreported(interfaces) == \A i \in DOMAIN interfaces : interfaces[i].report = <<>>

NoReports(s) == \A c \in 1 .. Len(s.configurations) : Unreported(s.configurations[c].interfaces)

\* Where the configuration that is being decoded starts.
Start(s) == 26 + Len(FlattenSeq(EachConfiguration(s.configurations)))

\* The interfaces that are closed, and the extras of what is open.
SoundBody(open) ==
    /\ open.extras \in Seq(ExtraDescriptors)
    /\ \A i \in 1 .. Len(open.interfaces) :
        GoodInterface(open.interfaces[i]) /\ open.interfaces[i].report = <<>>

SoundOpen(cur) == cur # <<>> => cur[1].extras \in Seq(ExtraDescriptors)

OpenLength(cur) == IF cur = <<>> THEN 0 ELSE 9 + Len(Inside(cur[1]))

BodyMeasured ==
    /\ GoodSet(set) /\ NoReports(set) /\ Len(set.configurations) + left + 1 < 256
    /\ SoundBody(config[1]) /\ SoundOpen(current)
    /\ bodyEnd < Start(set) + Word
    /\ offset = (Start(set) + 9) + (Len(Body(config[1])) + OpenLength(current))

\* A sidecar that names an interface once more leaves one report of the two.
SidecarsMeasured ==
    /\ GoodSet(set)
    /\ U16At(7) - left >= Len(Sidecars(set))
    /\ U16At(7) - left = Len(Sidecars(set)) => offset = Start(set) + Len(FlattenSeq(Sidecars(set)))

Measured ==
    /\ pc = "configurations" =>
        /\ GoodSet(set) /\ NoReports(set) /\ Len(set.configurations) + left < 256
        /\ offset = Start(set)
    /\ pc = "body" => BodyMeasured
    /\ pc = "sidecars" => SidecarsMeasured
    /\ pc = "done" /\ accepted => SidecarsMeasured /\ left = 0 /\ offset = Len(bytes)

\* Between configurations nothing is open.
LEMMA InitNothingOpen == Init => NothingOpen
BY DEF Init, NothingOpen

\* Only a configuration opens something, and it leaves nothing open.
LEMMA DecodeNothingOpen ==
    ASSUME WhileDecoding, NothingOpen, Decode
    PROVE  NothingOpen'
<1>1. CASE RejectHeader \/ RejectConfiguration \/ RejectDescriptor \/ RejectBody \/ RejectSidecar
  <2>1. pc # "done" /\ pc' = "done" /\ accepted' = accepted
    BY <1>1 DEF RejectHeader, RejectConfiguration, RejectDescriptor, RejectBody, RejectSidecar, Reject
  <2> QED
    BY <2>1 DEF NothingOpen, WhileDecoding
<1>2. CASE DecodeHeader \/ ConfigurationsEnd \/ TakeSidecar
  BY <1>2 DEF DecodeHeader, ConfigurationsEnd, TakeSidecar, NothingOpen
<1>3. CASE OpenConfiguration
  BY <1>3 DEF OpenConfiguration, NothingOpen
<1>4. CASE TakeInterface \/ TakeEndpoint \/ TakeExtra
  BY <1>4 DEF TakeInterface, TakeEndpoint, TakeExtra, TakesDescriptor, NothingOpen
<1>5. CASE CloseConfiguration
  BY <1>5 DEF CloseConfiguration, NothingOpen
<1>6. CASE Accept
  BY <1>6 DEF Accept, parser, NothingOpen
<1> QED
  BY <1>1, <1>2, <1>3, <1>4, <1>5, <1>6 DEF Decode

\* No step leaves anything open between configurations.
LEMMA NextNothingOpen ==
    ASSUME WhileDecoding, NothingOpen, [Next]_vars
    PROVE  NothingOpen'
<1>1. CASE Decode
  BY <1>1, DecodeNothingOpen
<1>2. CASE Again
  BY <1>2 DEF Again, parser, NothingOpen
<1>3. CASE UNCHANGED vars
  BY <1>3 DEF vars, parser, NothingOpen
<1> QED
  BY <1>1, <1>2, <1>3 DEF Next

\* A set without configurations.
LEMMA EmptySet ==
    ASSUME NEW device \in Seq(Byte), Len(device) = 15,
           NEW s, s = [device |-> device, configurations |-> <<>>]
    PROVE  GoodSet(s) /\ NoReports(s) /\ Start(s) = 26 /\ Len(s.configurations) = 0
<1>1. s \in DescriptorSets /\ Len(s.device) = 15
  <2> DEFINE none == <<>>
  <2>1. none \in Seq(Configurations)
    OBVIOUS
  <2>2. s = [device |-> device, configurations |-> none]
    OBVIOUS
  <2> HIDE DEF none
  <2>3. device \in {b \in Seq(Byte) : Len(b) <= 15}
    <3>1. Len(device) <= 15
      <4> DEFINE n == Len(device)
      <4>1. n = 15
        OBVIOUS
      <4> HIDE DEF n
      <4>2. n <= 15
        BY <4>1
      <4> QED
        BY <4>2 DEF n
    <3> QED
      BY <3>1
  <2> QED
    BY <2>1, <2>2, <2>3 DEF DescriptorSets
<1>2. Len(s.configurations) = 0 /\ DOMAIN s.configurations = {} /\ s.configurations = <<>>
  OBVIOUS
<1>3. EachConfiguration(s.configurations) = <<>>
  BY <1>2 DEF EachConfiguration
<1>4. Start(s) = 26
  BY <1>3, FlattenEmpty DEF Start
<1>5. 1 .. Len(s.configurations) = {}
  BY <1>2
<1>6. GoodSet(s)
  BY <1>1, <1>2, <1>5 DEF GoodSet
<1>7. NoReports(s)
  BY <1>5 DEF NoReports
<1> QED
  BY <1>2, <1>4, <1>6, <1>7

\* Each step takes as many bytes as it adds to the encoding of what was built.
\* The header: 26 bytes;
LEMMA HeaderMeasured ==
    ASSUME TypeInv, DecodeHeader
    PROVE  Measured'
<1>1. Len(bytes) >= 26 /\ Len(bytes) \in Nat
  <2>1. Len(bytes) >= 8 + 18
    BY DEF DecodeHeader, HeaderFits
  <2>2. Len(bytes) \in Nat
    BY DEF TypeInv, WhileDecoding
  <2> QED
    BY <2>1, <2>2
<1> DEFINE device == SubSeq(bytes, 11, 25)
<1>2. device \in Seq(Byte) /\ Len(device) = 15
  <2>1. device \in Seq(Byte) /\ Len(device) = 25 - 11 + 1
    <3>1. 11 \in Nat \ {0} /\ 25 \in Nat /\ 11 <= 25 /\ 25 <= Len(bytes)
      BY <1>1
    <3> QED
      BY <3>1, PartTyped, Zenon DEF TypeInv
  <2> HIDE DEF device
  <2> QED
    BY <2>1
<1>3. /\ set' = [device |-> device, configurations |-> <<>>]
      /\ offset' = 26 /\ left' = bytes[6] /\ pc' = "configurations"
  BY DEF DecodeHeader
<1>4. bytes[6] \in 0 .. 255
  BY <1>1, ByteRange DEF TypeInv, WhileDecoding
<1> HIDE DEF device
<1>5. GoodSet(set') /\ NoReports(set') /\ Start(set') = 26 /\ Len(set'.configurations) = 0
  BY <1>2, <1>3, EmptySet
<1>6. Len(set'.configurations) + left' < 256
  <2>1. bytes[6] < 256
    BY <1>4
  <2> DEFINE n == Len(set'.configurations)
  <2>2. n = 0
    BY <1>5
  <2> HIDE DEF n
  <2>3. left' = bytes[6]
    BY <1>3
  <2>4. n + left' < 256
    BY <1>4, <2>1, <2>2, <2>3
  <2> QED
    BY <2>4 DEF n
<1> QED
  BY <1>3, <1>5, <1>6 DEF Measured

\* the head of a configuration: nine, and the length of its body is known.
LEMMA OpenMeasured ==
    ASSUME TypeInv, NothingOpen, Measured, OpenConfiguration
    PROVE  Measured'
<1>1. /\ pc = "configurations" /\ pc' = "body" /\ set' = set /\ left > 0 /\ left' = left - 1
      /\ offset' = offset + 9 /\ bodyEnd' = offset + U16At(offset + 3)
      /\ config' = << [fields |-> SubSeq(bytes, offset + 6, offset + 9), extras |-> <<>>,
                       interfaces |-> <<>>, expected |-> Field(5)] >>
      /\ current' = current /\ offset + 9 <= Len(bytes)
  BY DEF OpenConfiguration, ConfigurationFits
<1>2. /\ GoodSet(set) /\ NoReports(set) /\ Len(set.configurations) + left < 256
      /\ offset = Start(set)
  BY <1>1 DEF Measured
<1>3. current = <<>>
  BY <1>1 DEF NothingOpen
<1>4. offset \in Nat /\ Len(bytes) \in Nat /\ left \in Nat /\ Len(set.configurations) \in Nat
  <2>1. set.configurations \in Seq(Configurations)
    BY DEF TypeInv, Typed, DescriptorSets
  <2> QED
    BY <2>1, LenProperties DEF TypeInv, WhileDecoding, WithinPayload, Typed
<1>5. U16At(offset + 3) \in Nat /\ U16At(offset + 3) < Word
  <2>1. offset + 3 \in Nat \ {0} /\ (offset + 3) + 1 <= Len(bytes)
    BY <1>1, <1>4
  <2> QED
    BY <2>1, U16Typed DEF TypeInv
<1>6. config'[1].extras = <<>> /\ config'[1].interfaces = <<>>
  BY <1>1
<1>7. SoundBody(config'[1])
  <2>1. <<>> \in Seq(ExtraDescriptors) /\ 1 .. Len(<<>>) = {}
    OBVIOUS
  <2> QED
    BY <1>6, <2>1 DEF SoundBody
<1>8. Len(Body(config'[1])) = 0
  <2>1. EachInterface(<<>>) = <<>>
    BY DEF EachInterface
  <2>2. <<>> \o <<>> = <<>> /\ Len(<<>>) = 0
    OBVIOUS
  <2> QED
    BY <1>6, <2>1, <2>2, FlattenEmpty DEF Body
<1>9. SoundOpen(current') /\ OpenLength(current') = 0
  BY <1>1, <1>3 DEF SoundOpen, OpenLength
<1>10. bodyEnd' < Start(set') + Word
  <2> DEFINE u == U16At(offset + 3)
  <2>1. bodyEnd' = offset + u /\ Start(set') = offset
    BY <1>1, <1>2
  <2>2. u \in Nat /\ u < Word /\ offset \in Nat
    BY <1>4, <1>5
  <2> HIDE DEF u
  <2>3. offset + u < offset + Word
    BY <2>2 DEF Word
  <2> QED
    BY <2>1, <2>3
<1>11. offset' = (Start(set') + 9) + (Len(Body(config'[1])) + OpenLength(current'))
  BY <1>1, <1>2, <1>4, <1>8, <1>9
<1>12. Len(set'.configurations) + left' + 1 < 256
  BY <1>1, <1>2, <1>4
<1>13. BodyMeasured'
  BY <1>1, <1>2, <1>7, <1>9, <1>10, <1>11, <1>12 DEF BodyMeasured
<1> QED
  BY <1>1, <1>13 DEF Measured

\* Rows with the same elements are the same.
LEMMA SameRow ==
    ASSUME NEW S, NEW s \in Seq(S), NEW t \in Seq(S), Len(s) = Len(t), Alike(s, t, Len(s))
    PROVE  s = t
BY DEF Alike

\* One more at the end.
LEMMA AppendIs ==
    ASSUME NEW S, NEW q \in Seq(S), NEW x \in S
    PROVE  /\ Append(q, x) \in Seq(S) /\ Len(Append(q, x)) = Len(q) + 1 /\ Len(q) \in Nat
           /\ Append(q, x)[Len(q) + 1] = x
           /\ \A i \in 1 .. Len(q) : Append(q, x)[i] = q[i]
           /\ DOMAIN Append(q, x) = 1 .. Len(q) + 1 /\ DOMAIN q = 1 .. Len(q)
<1>1. Append(q, x) \in Seq(S) /\ Len(Append(q, x)) = Len(q) + 1 /\ Len(q) \in Nat
  BY AppendProperties, LenProperties
<1>2. DOMAIN Append(q, x) = 1 .. Len(Append(q, x)) /\ DOMAIN q = 1 .. Len(q)
  BY <1>1, LenProperties
<1> QED
  BY <1>1, <1>2, AppendProperties

\* One interface more, as bytes.
LEMMA EachInterfaceGrows ==
    ASSUME NEW q \in Seq(Interfaces), EachInterface(q) \in Seq(Seq(Byte)),
           Len(EachInterface(q)) = Len(q),
           NEW i \in Interfaces, InterfaceBytes(i) \in Seq(Byte)
    PROVE  EachInterface(Append(q, i)) = Append(EachInterface(q), InterfaceBytes(i))
<1> DEFINE B == Seq(Byte)
           r == Append(q, i)
           e == EachInterface(q)
           b == InterfaceBytes(i)
           f == EachInterface(r)
           g == Append(e, b)
           n == Len(q)
<1>1. /\ r \in Seq(Interfaces) /\ n \in Nat /\ r[n + 1] = i /\ \A j \in 1 .. n : r[j] = q[j]
      /\ DOMAIN r = 1 .. n + 1 /\ DOMAIN q = 1 .. n
  BY AppendIs
<1>2. e \in Seq(B) /\ b \in B /\ Len(e) = n
  OBVIOUS
<1> HIDE DEF B, r, n
<1>3. \A j \in 1 .. n : e[j] = InterfaceBytes(q[j])
  BY <1>1 DEF EachInterface
<1>4. \A j \in 1 .. n + 1 : f[j] = InterfaceBytes(r[j])
  BY <1>1 DEF EachInterface
<1>5. DOMAIN f = 1 .. n + 1 /\ f = [j \in 1 .. n + 1 |-> InterfaceBytes(r[j])]
  BY <1>1 DEF EachInterface
<1> HIDE DEF e, b, f
<1>6. /\ g \in Seq(B) /\ Len(g) = n + 1 /\ g[n + 1] = b /\ \A j \in 1 .. n : g[j] = e[j]
  BY <1>2, AppendIs
<1> HIDE DEF g
<1>7. \A j \in 1 .. n + 1 : f[j] = g[j]
  <2> SUFFICES ASSUME NEW j \in 1 .. n + 1
               PROVE  f[j] = g[j]
    OBVIOUS
  <2>1. CASE j = n + 1
    BY <1>1, <1>4, <1>6, <2>1 DEF b
  <2>2. CASE j # n + 1
    <3>1. j \in 1 .. n
      BY <1>1, <2>2
    <3> QED
      BY <1>1, <1>3, <1>4, <1>6, <3>1
  <2> QED
    BY <2>1, <2>2
<1>8. f \in Seq(B) /\ Len(f) = n + 1
  <2>1. n + 1 \in Nat
    BY <1>1
  <2>2. \A j \in 1 .. n + 1 : f[j] \in B
    <3>1. \A j \in 1 .. n + 1 : g[j] \in B
      BY <1>6, ElementOfSeq
    <3> QED
      BY <1>7, <3>1
  <2>3. f \in [1 .. n + 1 -> B]
    BY <1>5, <2>2 DEF f
  <2> QED
    BY <2>1, <2>3, EachTyped
<1>9. f = g
  <2>1. Alike(f, g, n + 1)
    BY <1>7 DEF Alike
  <2> QED
    BY <1>6, <1>8, <2>1, SameRow
<1> QED
  BY <1>9 DEF f, g, e, b, r

\* One endpoint more, as bytes.
LEMMA EachEndpointGrows ==
    ASSUME NEW q \in Seq(Row(5)), NEW x \in Row(5)
    PROVE  EachEndpoint(Append(q, x)) = Append(EachEndpoint(q), Descriptor(EndpointType, x))
<1> DEFINE B == Seq(Byte)
           r == Append(q, x)
           e == EachEndpoint(q)
           b == Descriptor(EndpointType, x)
           f == EachEndpoint(r)
           g == Append(e, b)
           n == Len(q)
<1>1. /\ r \in Seq(Row(5)) /\ n \in Nat /\ r[n + 1] = x /\ \A j \in 1 .. n : r[j] = q[j]
      /\ DOMAIN r = 1 .. n + 1 /\ DOMAIN q = 1 .. n /\ Len(r) = n + 1
  BY AppendIs
<1>2. e \in Seq(B) /\ Len(e) = n
  BY EachEndpointTyped
<1>3. b \in B
  BY EndpointRead DEF Long
<1> HIDE DEF r, n
<1>4. f \in Seq(B) /\ Len(f) = n + 1
  BY <1>1, EachEndpointTyped
<1> HIDE DEF B
<1>5. \A j \in 1 .. n : e[j] = Descriptor(EndpointType, q[j])
  BY <1>1 DEF EachEndpoint
<1>6. \A j \in 1 .. n + 1 : f[j] = Descriptor(EndpointType, r[j])
  BY <1>1 DEF EachEndpoint
<1> HIDE DEF e, b, f
<1>7. /\ g \in Seq(B) /\ Len(g) = n + 1 /\ g[n + 1] = b /\ \A j \in 1 .. n : g[j] = e[j]
  BY <1>2, <1>3, AppendIs
<1> HIDE DEF g
<1>8. \A j \in 1 .. n + 1 : f[j] = g[j]
  <2> SUFFICES ASSUME NEW j \in 1 .. n + 1
               PROVE  f[j] = g[j]
    OBVIOUS
  <2>1. CASE j = n + 1
    BY <1>1, <1>6, <1>7, <2>1 DEF b
  <2>2. CASE j # n + 1
    <3>1. j \in 1 .. n
      BY <1>1, <2>2
    <3> QED
      BY <1>1, <1>5, <1>6, <1>7, <3>1
  <2> QED
    BY <2>1, <2>2
<1>9. f = g
  <2>1. Alike(f, g, n + 1)
    BY <1>8 DEF Alike
  <2> QED
    BY <1>4, <1>7, <2>1, SameRow
<1> QED
  BY <1>9 DEF f, g, e, b, r

\* Another part makes what is put together longer by its length.
LEMMA FlattenLonger ==
    ASSUME NEW q \in Seq(Seq(Byte)), NEW x \in Seq(Byte)
    PROVE  /\ FlattenSeq(q) \in Seq(Byte) /\ FlattenSeq(Append(q, x)) \in Seq(Byte)
           /\ Len(FlattenSeq(q)) \in Nat /\ Len(x) \in Nat
           /\ Len(FlattenSeq(Append(q, x))) = Len(FlattenSeq(q)) + Len(x)
<1>1. FlattenSeq(q) \in Seq(Byte)
  BY FlattenTyped
<1>2. FlattenSeq(Append(q, x)) = FlattenSeq(q) \o x
  BY FlattenAppend
<1> DEFINE f == FlattenSeq(q)
           g == FlattenSeq(Append(q, x))
<1> HIDE DEF f, g
<1>3. f \in Seq(Byte) /\ g = f \o x
  BY <1>1, <1>2 DEF f, g
<1>4. f \o x \in Seq(Byte) /\ Len(f) \in Nat /\ Len(x) \in Nat /\ Len(f \o x) = Len(f) + Len(x)
  BY <1>3, TwoLengths
<1> QED
  BY <1>3, <1>4 DEF f, g

\* The closed interfaces of the open configuration can be encoded.
LEMMA EachInterfaceSound ==
    ASSUME NEW open, SoundBody(open), open.interfaces \in Seq(Interfaces)
    PROVE  /\ EachInterface(open.interfaces) \in Seq(Seq(Byte))
           /\ Len(EachInterface(open.interfaces)) = Len(open.interfaces)
<1> DEFINE B == Seq(Byte)
           q == open.interfaces
           n == Len(q)
<1>1. DOMAIN q = 1 .. n /\ n \in Nat
  BY LenProperties
<1>2. ASSUME NEW i \in 1 .. n
      PROVE  InterfaceBytes(q[i]) \in B
  <2>1. GoodInterface(q[i])
    BY DEF SoundBody
  <2> QED
    BY <2>1, InterfaceIs, Chained DEF Long
<1> HIDE DEF B, n, q
<1>3. EachInterface(q) \in [1 .. n -> B]
  BY <1>1, <1>2 DEF EachInterface
<1>4. EachInterface(q) \in Seq(B) /\ Len(EachInterface(q)) = n
  BY <1>1, <1>3, EachTyped
<1> QED
  BY <1>4 DEF B, n, q

\* The length of the body of the open configuration.
LEMMA BodyIs ==
    ASSUME NEW open, SoundBody(open), open.interfaces \in Seq(Interfaces)
    PROVE  LET e == FlattenSeq(open.extras)
               f == FlattenSeq(EachInterface(open.interfaces))
           IN  /\ e \in Seq(Byte) /\ f \in Seq(Byte) /\ Len(e) \in Nat /\ Len(f) \in Nat
               /\ Body(open) \in Seq(Byte) /\ Len(Body(open)) = Len(e) + Len(f)
<1> DEFINE e == FlattenSeq(open.extras)
           f == FlattenSeq(EachInterface(open.interfaces))
<1>1. e \in Seq(Byte)
  <2>1. open.extras \in Seq(Seq(Byte))
    BY ExtrasTyped DEF SoundBody
  <2> QED
    BY <2>1, FlattenTyped
<1>2. f \in Seq(Byte)
  <2>1. EachInterface(open.interfaces) \in Seq(Seq(Byte))
    BY EachInterfaceSound
  <2> QED
    BY <2>1, FlattenTyped
<1>3. Body(open) = e \o f
  BY DEF Body
<1> HIDE DEF e, f
<1>4. /\ e \o f \in Seq(Byte) /\ Len(e) \in Nat /\ Len(f) \in Nat /\ Len(e \o f) = Len(e) + Len(f)
  BY <1>1, <1>2, TwoLengths
<1> QED
  BY <1>1, <1>2, <1>3, <1>4 DEF e, f

\* The length of what an interface encloses.
LEMMA InsideIs ==
    ASSUME NEW i, i.extras \in Seq(ExtraDescriptors), i.endpoints \in Seq(Row(5))
    PROVE  LET e == FlattenSeq(i.extras)
               f == FlattenSeq(EachEndpoint(i.endpoints))
           IN  /\ e \in Seq(Byte) /\ f \in Seq(Byte) /\ Len(e) \in Nat /\ Len(f) \in Nat
               /\ Inside(i) \in Seq(Byte) /\ Len(Inside(i)) = Len(e) + Len(f)
<1> DEFINE e == FlattenSeq(i.extras)
           f == FlattenSeq(EachEndpoint(i.endpoints))
<1>1. e \in Seq(Byte)
  <2>1. i.extras \in Seq(Seq(Byte))
    BY ExtrasTyped
  <2> QED
    BY <2>1, FlattenTyped
<1>2. f \in Seq(Byte)
  <2>1. EachEndpoint(i.endpoints) \in Seq(Seq(Byte))
    BY EachEndpointTyped
  <2> QED
    BY <2>1, FlattenTyped
<1>3. Inside(i) = e \o f
  BY DEF Inside
<1> HIDE DEF e, f
<1>4. /\ e \o f \in Seq(Byte) /\ Len(e) \in Nat /\ Len(f) \in Nat /\ Len(e \o f) = Len(e) + Len(f)
  BY <1>1, <1>2, TwoLengths
<1> QED
  BY <1>1, <1>2, <1>3, <1>4 DEF e, f

\* TakeExtra, in the configuration.
LEMMA BodyExtra ==
    ASSUME NEW open \in OpenConfigurations, SoundBody(open), NEW x \in ExtraDescriptors,
           NEW new, new = [open EXCEPT !.extras = Append(@, x)]
    PROVE  /\ SoundBody(new) /\ Len(x) \in Nat /\ Len(Body(open)) \in Nat
           /\ Len(Body(new)) = Len(Body(open)) + Len(x)
<1>1. /\ open.interfaces \in Seq(Interfaces) /\ new.interfaces = open.interfaces
      /\ new.extras = Append(open.extras, x)
  BY DEF OpenConfigurations
<1>2. open.extras \in Seq(ExtraDescriptors) /\ open.extras \in Seq(Seq(Byte)) /\ x \in Seq(Byte)
  <2>1. open.extras \in Seq(ExtraDescriptors)
    BY DEF SoundBody
  <2> QED
    BY <2>1, ExtrasTyped DEF ExtraDescriptors
<1>3. new.extras \in Seq(ExtraDescriptors)
  BY <1>1, <1>2, AppendIs
<1>4. SoundBody(new)
  BY <1>1, <1>3 DEF SoundBody
<1> DEFINE e == FlattenSeq(open.extras)
           d == FlattenSeq(new.extras)
           f == FlattenSeq(EachInterface(open.interfaces))
<1>5. Len(e) \in Nat /\ Len(x) \in Nat /\ Len(d) = Len(e) + Len(x)
  BY <1>1, <1>2, FlattenLonger
<1>6. Len(f) \in Nat /\ Len(Body(open)) = Len(e) + Len(f)
  BY <1>1, BodyIs
<1>7. Len(Body(new)) = Len(d) + Len(f)
  BY <1>1, <1>4, BodyIs
<1> HIDE DEF e, d, f
<1> QED
  BY <1>4, <1>5, <1>6, <1>7

\* TakeInterface: the interface before it is closed.
LEMMA BodyInterface ==
    ASSUME NEW open \in OpenConfigurations, SoundBody(open), NEW i, GoodInterface(i), i.report = <<>>,
           NEW new, new = [open EXCEPT !.interfaces = Append(open.interfaces, i)]
    PROVE  /\ SoundBody(new) /\ Len(Inside(i)) \in Nat /\ Len(Body(open)) \in Nat
           /\ Len(Body(new)) = Len(Body(open)) + (9 + Len(Inside(i)))
<1> DEFINE q == open.interfaces
<1>1. /\ q \in Seq(Interfaces) /\ new.interfaces = Append(q, i) /\ new.extras = open.extras
      /\ i \in Interfaces
  BY DEF OpenConfigurations, GoodInterface
<1>2. /\ new.interfaces \in Seq(Interfaces) /\ Len(new.interfaces) = Len(q) + 1 /\ Len(q) \in Nat
      /\ new.interfaces[Len(q) + 1] = i /\ \A j \in 1 .. Len(q) : new.interfaces[j] = q[j]
  BY <1>1, AppendIs
<1>3. SoundBody(new)
  <2>1. ASSUME NEW j \in 1 .. Len(new.interfaces)
        PROVE  GoodInterface(new.interfaces[j]) /\ new.interfaces[j].report = <<>>
    <3> DEFINE n == Len(q)
               r == new.interfaces
    <3>1. j \in 1 .. n + 1 /\ n \in Nat /\ r[n + 1] = i /\ \A k \in 1 .. n : r[k] = q[k]
      BY <1>2
    <3>2. \A k \in 1 .. n : GoodInterface(q[k]) /\ q[k].report = <<>>
      BY DEF SoundBody
    <3> HIDE DEF n, r, q
    <3>3. CASE j = n + 1
      BY <3>1, <3>3 DEF r
    <3>4. CASE j # n + 1
      <4>1. j \in 1 .. n
        BY <3>1, <3>4
      <4> QED
        BY <3>1, <3>2, <4>1 DEF r
    <3> QED
      BY <3>3, <3>4
  <2> QED
    BY <1>1, <2>1 DEF SoundBody
<1>4. InterfaceBytes(i) \in Seq(Byte) /\ Len(InterfaceBytes(i)) = 9 + Len(Inside(i)) /\ Len(Inside(i)) \in Nat
  <2> DEFINE h == InterfaceHead(i.fields, Len(i.endpoints))
             b == Inside(i)
  <2>1. Long(h, Byte, 9) /\ b \in Seq(Byte) /\ InterfaceBytes(i) = h \o b
    BY InterfaceIs
  <2> HIDE DEF h, b
  <2>2. h \o b \in Seq(Byte) /\ Len(b) \in Nat /\ Len(h \o b) = Len(h) + Len(b) /\ Len(h) = 9
    BY <2>1, TwoLengths DEF Long
  <2> QED
    BY <2>1, <2>2 DEF b
<1> DEFINE e == FlattenSeq(open.extras)
           f == FlattenSeq(EachInterface(q))
           g == FlattenSeq(EachInterface(new.interfaces))
<1>5. EachInterface(q) \in Seq(Seq(Byte)) /\ Len(EachInterface(q)) = Len(q)
  BY <1>1, EachInterfaceSound
<1>6. EachInterface(new.interfaces) = Append(EachInterface(q), InterfaceBytes(i))
  BY <1>1, <1>4, <1>5, EachInterfaceGrows
<1>7. Len(f) \in Nat /\ Len(g) = Len(f) + Len(InterfaceBytes(i))
  BY <1>4, <1>5, <1>6, FlattenLonger
<1>8. Len(e) \in Nat /\ Len(Body(open)) = Len(e) + Len(f)
  BY <1>1, BodyIs
<1>9. Len(Body(new)) = Len(e) + Len(g)
  BY <1>1, <1>2, <1>3, BodyIs
<1> HIDE DEF e, f, g
<1> QED
  BY <1>3, <1>4, <1>7, <1>8, <1>9

\* TakeExtra, in the interface.
LEMMA InsideExtra ==
    ASSUME NEW i \in OpenInterfaces, i.extras \in Seq(ExtraDescriptors), NEW x \in ExtraDescriptors,
           NEW new, new = [i EXCEPT !.extras = Append(@, x)]
    PROVE  /\ new.extras \in Seq(ExtraDescriptors) /\ Len(x) \in Nat /\ Len(Inside(i)) \in Nat
           /\ Len(Inside(new)) = Len(Inside(i)) + Len(x)
<1>1. /\ i.endpoints \in Seq(Row(5)) /\ new.endpoints = i.endpoints
      /\ new.extras = Append(i.extras, x)
  BY DEF OpenInterfaces
<1>2. i.extras \in Seq(Seq(Byte)) /\ x \in Seq(Byte)
  BY ExtrasTyped DEF ExtraDescriptors
<1>3. new.extras \in Seq(ExtraDescriptors)
  BY <1>1, AppendIs
<1> DEFINE e == FlattenSeq(i.extras)
           d == FlattenSeq(new.extras)
           f == FlattenSeq(EachEndpoint(i.endpoints))
<1>4. Len(e) \in Nat /\ Len(x) \in Nat /\ Len(d) = Len(e) + Len(x)
  BY <1>1, <1>2, FlattenLonger
<1>5. Len(f) \in Nat /\ Len(Inside(i)) = Len(e) + Len(f)
  BY <1>1, InsideIs
<1>6. Len(Inside(new)) = Len(d) + Len(f)
  BY <1>1, <1>3, InsideIs
<1> HIDE DEF e, d, f
<1> QED
  BY <1>3, <1>4, <1>5, <1>6

\* TakeEndpoint: seven bytes.
LEMMA InsideEndpoint ==
    ASSUME NEW i \in OpenInterfaces, i.extras \in Seq(ExtraDescriptors), NEW x \in Row(5),
           NEW new, new = [i EXCEPT !.endpoints = Append(@, x)]
    PROVE  /\ new.extras \in Seq(ExtraDescriptors) /\ Len(Inside(i)) \in Nat
           /\ Len(Inside(new)) = Len(Inside(i)) + 7
<1>1. /\ i.endpoints \in Seq(Row(5)) /\ new.endpoints = Append(i.endpoints, x)
      /\ new.extras = i.extras
  BY DEF OpenInterfaces
<1>2. new.endpoints \in Seq(Row(5))
  BY <1>1, AppendIs
<1> DEFINE e == FlattenSeq(i.extras)
           d == Descriptor(EndpointType, x)
           f == FlattenSeq(EachEndpoint(i.endpoints))
           g == FlattenSeq(EachEndpoint(new.endpoints))
<1>3. d \in Seq(Byte) /\ Len(d) = 7
  BY EndpointRead DEF Long
<1>4. EachEndpoint(i.endpoints) \in Seq(Seq(Byte))
  BY <1>1, EachEndpointTyped
<1>5. EachEndpoint(new.endpoints) = Append(EachEndpoint(i.endpoints), d)
  BY <1>1, EachEndpointGrows
<1> HIDE DEF d
<1>6. Len(f) \in Nat /\ Len(g) = Len(f) + Len(d)
  BY <1>3, <1>4, <1>5, FlattenLonger
<1>7. Len(e) \in Nat /\ Len(Inside(i)) = Len(e) + Len(f)
  BY <1>1, InsideIs
<1>8. Len(Inside(new)) = Len(e) + Len(g)
  BY <1>1, <1>2, InsideIs
<1> HIDE DEF e, f, g
<1> QED
  BY <1>1, <1>3, <1>6, <1>7, <1>8

\* What finish makes of the open interface.
AsClosed(i) ==
    [fields |-> i.fields, extras |-> i.extras, endpoints |-> i.endpoints, report |-> <<>>]

\* An interface with all of its endpoints can be closed, and its bytes do not
\* change.
LEMMA ClosedGood ==
    ASSUME NEW i \in OpenInterfaces, i.extras \in Seq(ExtraDescriptors), Len(i.endpoints) = i.expected
    PROVE  /\ GoodInterface(AsClosed(i)) /\ AsClosed(i).report = <<>>
           /\ Inside(AsClosed(i)) = Inside(i)
<1>1. /\ i.fields \in Row(6) /\ i.extras \in Seq(Seq(Byte)) /\ i.endpoints \in Seq(Row(5))
      /\ i.expected \in Byte
  BY DEF OpenInterfaces
<1>2. Len(i.endpoints) < 256
  <2> DEFINE n == Len(i.endpoints)
  <2>1. n \in Byte
    BY <1>1
  <2> HIDE DEF n
  <2>2. n < 256
    BY <2>1 DEF Byte
  <2> QED
    BY <2>2 DEF n
<1>3. <<>> \in {r \in Seq(Seq(Byte)) : Len(r) <= 1}
  OBVIOUS
<1> DEFINE none == <<>>
<1>4. DOMAIN none = {}
  OBVIOUS
<1>5. none \in {r \in Seq(Seq(Byte)) : Len(r) <= 1}
  BY <1>3
<1>6. AsClosed(i) = [fields |-> i.fields, extras |-> i.extras, endpoints |-> i.endpoints, report |-> none]
  BY DEF AsClosed
<1> HIDE DEF none
<1>7. AsClosed(i) \in Interfaces
  BY <1>1, <1>5, <1>6 DEF Interfaces
<1>8. GoodInterface(AsClosed(i))
  BY <1>2, <1>4, <1>6, <1>7 DEF GoodInterface
<1>9. Inside(AsClosed(i)) = Inside(i)
  BY <1>6 DEF Inside
<1> QED
  BY <1>6, <1>8, <1>9 DEF none

\* The interfaces of the open configuration, with the open one closed.
LEMMA ClosedIs ==
    ASSUME Typed, pc = "body"
    PROVE  /\ config[1] \in OpenConfigurations
           /\ current = <<>> => Closed = config[1].interfaces
           /\ current # <<>> => /\ current[1] \in OpenInterfaces
                                /\ Closed = Append(config[1].interfaces, AsClosed(current[1]))
                                /\ Finished <=> Len(current[1].endpoints) = current[1].expected
<1>1. /\ config[1] \in OpenConfigurations
      /\ Len(current) \in Nat /\ DOMAIN current = 1 .. Len(current) /\ Len(current) <= 1
      /\ \A i \in 1 .. Len(current) : current[i] \in OpenInterfaces
  BY OpenOnes
<1>2. config[1].interfaces \in Seq(Interfaces)
  BY <1>1 DEF OpenConfigurations
<1> DEFINE q == config[1].interfaces
           g == [i \in DOMAIN current |->
                   [fields |-> current[i].fields, extras |-> current[i].extras,
                    endpoints |-> current[i].endpoints, report |-> <<>>]]
<1>3. Closed = q \o g
  BY DEF Closed
<1>4. CASE current = <<>>
  <2>1. g = <<>>
    BY <1>4
  <2> HIDE DEF g
  <2>2. q \o <<>> = q
    BY <1>2
  <2> QED
    BY <1>1, <1>3, <1>4, <2>1, <2>2
<1>5. CASE current # <<>>
  <2>1. Len(current) = 1
    <3>1. Len(current) # 0
      BY <1>5, EmptySeq DEF Typed
    <3> QED
      BY <1>1, <3>1
  <2>2. DOMAIN current = 1 .. 1 /\ 1 \in 1 .. 1 /\ current[1] \in OpenInterfaces
    BY <1>1, <2>1
  <2>3. g = [i \in 1 .. 1 |-> AsClosed(current[1])]
    <3>1. \A i \in 1 .. 1 : i = 1
      OBVIOUS
    <3> QED
      BY <2>2, <3>1 DEF AsClosed
  <2> DEFINE a == AsClosed(current[1])
  <2>4. g = <<a>>
    <3> HIDE DEF a
    <3>1. <<a>> = [i \in 1 .. 1 |-> a]
      OBVIOUS
    <3> QED
      BY <2>3, <3>1 DEF a
  <2>5. q \o <<a>> = Append(q, a)
    <3> DEFINE T == Interfaces \union {a}
    <3>1. q \in Seq(T) /\ a \in T
      <4>1. Interfaces \subseteq T /\ a \in T
        OBVIOUS
      <4> HIDE DEF T, a, q
      <4> QED
        BY <1>2, <4>1, SeqWider DEF q
    <3> HIDE DEF T, a, q
    <3> QED
      BY <3>1
  <2>6. Finished <=> Len(current[1].endpoints) = current[1].expected
    BY <2>2 DEF Finished
  <2> HIDE DEF g, a
  <2> QED
    BY <1>1, <1>3, <1>5, <2>2, <2>4, <2>5, <2>6 DEF a
<1> QED
  BY <1>4, <1>5

\* The sidecars start somewhere.
LEMMA StartTyped ==
    ASSUME NEW s, GoodSet(s)
    PROVE  Start(s) \in Nat
<1> DEFINE f == FlattenSeq(EachConfiguration(s.configurations))
<1>1. f \in Seq(Byte)
  <2>1. EachConfiguration(s.configurations) \in Seq(Seq(Byte))
    BY EachConfigurationTyped
  <2> QED
    BY <2>1, FlattenTyped
<1> HIDE DEF f
<1>2. Len(f) \in Nat
  BY <1>1, LenProperties
<1> QED
  BY <1>2 DEF Start, f

\* A descriptor is taken, and what is open has grown by it.
LEMMA TakenMeasured ==
    ASSUME NEW type, TakesDescriptor(type), TypeInv, BodyMeasured,
           SoundBody(config'[1]), SoundOpen(current'),
           NEW a \in Nat, NEW b \in Nat, NEW n \in Nat,
           a = Len(Body(config[1])) + OpenLength(current),
           b = Len(Body(config'[1])) + OpenLength(current'),
           n = Field(1), b = a + n
    PROVE  Measured'
<1>1. /\ pc' = "body" /\ set' = set /\ left' = left /\ bodyEnd' = bodyEnd
      /\ offset' = offset + Field(1)
  BY DEF TakesDescriptor
<1>2. /\ GoodSet(set) /\ NoReports(set) /\ Len(set.configurations) + left + 1 < 256
      /\ bodyEnd < Start(set) + Word /\ offset = (Start(set) + 9) + a
  BY DEF BodyMeasured
<1>3. Start(set) \in Nat
  BY <1>2, StartTyped
<1>4. offset' = (Start(set') + 9) + b
  <2> DEFINE z == Start(set)
  <2>1. offset' = offset + n /\ offset = (z + 9) + a /\ z \in Nat
    BY <1>1, <1>2, <1>3
  <2> HIDE DEF z
  <2>2. offset' = (z + 9) + b
    BY <2>1
  <2> QED
    BY <1>1, <2>2 DEF z
<1>5. BodyMeasured'
  BY <1>1, <1>2, <1>4 DEF BodyMeasured
<1> QED
  BY <1>1, <1>5 DEF Measured

\* What is open, and its length.
LEMMA OpenIs ==
    ASSUME TypeInv, pc = "body", BodyMeasured
    PROVE  /\ config[1] \in OpenConfigurations /\ SoundBody(config[1])
           /\ Len(Body(config[1])) \in Nat /\ OpenLength(current) \in Nat
           /\ current = <<>> => OpenLength(current) = 0
           /\ current # <<>> => /\ current[1] \in OpenInterfaces
                                /\ current[1].extras \in Seq(ExtraDescriptors)
                                /\ Len(Inside(current[1])) \in Nat
                                /\ OpenLength(current) = 9 + Len(Inside(current[1]))
<1>1. /\ config[1] \in OpenConfigurations
      /\ current # <<>> => current[1] \in OpenInterfaces
  BY ClosedIs DEF TypeInv
<1>2. SoundBody(config[1]) /\ SoundOpen(current)
  BY DEF BodyMeasured
<1>3. Len(Body(config[1])) \in Nat
  <2>1. config[1].interfaces \in Seq(Interfaces)
    BY <1>1 DEF OpenConfigurations
  <2>2. Body(config[1]) \in Seq(Byte)
    BY <1>2, <2>1, BodyIs
  <2> QED
    BY <2>2, LenProperties
<1>4. CASE current = <<>>
  BY <1>1, <1>2, <1>3, <1>4 DEF OpenLength
<1>5. CASE current # <<>>
  <2>1. current[1].extras \in Seq(ExtraDescriptors) /\ current[1].endpoints \in Seq(Row(5))
    BY <1>1, <1>2, <1>5 DEF SoundOpen, OpenInterfaces
  <2>2. Inside(current[1]) \in Seq(Byte)
    BY <2>1, InsideIs
  <2>3. Len(Inside(current[1])) \in Nat
    BY <2>2, LenProperties
  <2>4. OpenLength(current) = 9 + Len(Inside(current[1]))
    BY <1>5 DEF OpenLength
  <2> DEFINE n == Len(Inside(current[1]))
  <2> HIDE DEF n
  <2>5. OpenLength(current) \in Nat
    BY <2>3, <2>4 DEF n
  <2> QED
    BY <1>1, <1>2, <1>3, <1>5, <2>1, <2>3, <2>4, <2>5
<1> QED
  BY <1>4, <1>5

\* finish: what was open is closed, and as long as it was.
LEMMA CloseBody ==
    ASSUME TypeInv, pc = "body", BodyMeasured, Finished,
           NEW new, new = [config[1] EXCEPT !.interfaces = Closed]
    PROVE  SoundBody(new) /\ Len(Body(new)) = Len(Body(config[1])) + OpenLength(current)
<1> DEFINE open == config[1]
<1>1. /\ open \in OpenConfigurations /\ SoundBody(open)
      /\ Len(Body(open)) \in Nat /\ OpenLength(current) \in Nat
  BY OpenIs
<1>2. CASE current = <<>>
  <2>1. Closed = open.interfaces /\ OpenLength(current) = 0
    BY <1>2, ClosedIs, OpenIs DEF TypeInv
  <2>2. new = open
    <3>1. new = [open EXCEPT !.interfaces = open.interfaces]
      BY <2>1
    <3> HIDE DEF open
    <3> QED
      BY <1>1, <3>1 DEF OpenConfigurations
  <2> DEFINE n == Len(Body(open))
  <2>3. n \in Nat
    BY <1>1
  <2> HIDE DEF n
  <2>4. n = n + 0
    BY <2>3
  <2> QED
    BY <1>1, <2>1, <2>2, <2>4 DEF n
<1>3. CASE current # <<>>
  <2> DEFINE i == AsClosed(current[1])
  <2>1. /\ current[1] \in OpenInterfaces /\ Closed = Append(open.interfaces, i)
        /\ Len(current[1].endpoints) = current[1].expected
    BY <1>3, ClosedIs DEF TypeInv
  <2>2. /\ current[1].extras \in Seq(ExtraDescriptors)
        /\ OpenLength(current) = 9 + Len(Inside(current[1]))
    BY <1>3, OpenIs
  <2>3. GoodInterface(i) /\ i.report = <<>> /\ Inside(i) = Inside(current[1])
    BY <2>1, <2>2, ClosedGood
  <2>4. new = [open EXCEPT !.interfaces = Append(open.interfaces, i)]
    BY <2>1
  <2> HIDE DEF i, open
  <2>5. SoundBody(new) /\ Len(Body(new)) = Len(Body(open)) + (9 + Len(Inside(i)))
    BY <1>1, <2>3, <2>4, BodyInterface
  <2> QED
    BY <2>2, <2>3, <2>5 DEF open
<1> QED
  BY <1>2, <1>3

\* An interface: nine bytes, and those of the one before it are all there;
LEMMA InterfaceMeasured ==
    ASSUME TypeInv, Measured, TakeInterface
    PROVE  Measured'
<1>1. /\ TakesDescriptor({InterfaceType}) /\ pc = "body"
      /\ Field(2) = InterfaceType /\ DescriptorFits
      /\ config' = <<[config[1] EXCEPT !.interfaces = Closed]>>
      /\ current' = << [fields |-> <<Field(3), Field(4)>> \o SubSeq(bytes, offset + 6, offset + 9),
                        extras |-> <<>>, endpoints |-> <<>>, expected |-> Field(5)] >>
  BY DEF TakeInterface, TakesDescriptor
<1>2. Field(1) = 9 /\ Finished
  BY <1>1 DEF DescriptorFits
<1>3. BodyMeasured
  BY <1>1 DEF Measured
<1>4. current'[1].extras = <<>> /\ current'[1].endpoints = <<>> /\ current' # <<>>
  BY <1>1
<1>5. SoundOpen(current')
  <2>1. <<>> \in Seq(ExtraDescriptors)
    OBVIOUS
  <2> QED
    BY <1>4, <2>1 DEF SoundOpen
<1>6. OpenLength(current') = 9
  <2>1. EachEndpoint(<<>>) = <<>>
    BY DEF EachEndpoint
  <2>2. <<>> \o <<>> = <<>> /\ Len(<<>>) = 0
    OBVIOUS
  <2>3. Inside(current'[1]) = <<>>
    BY <1>4, <2>1, <2>2, FlattenEmpty DEF Inside
  <2> QED
    BY <1>4, <2>2, <2>3 DEF OpenLength
<1> DEFINE open == config[1]
           new == [config[1] EXCEPT !.interfaces = Closed]
<1>7. config'[1] = new
  BY <1>1
<1>8. /\ open \in OpenConfigurations /\ SoundBody(open)
      /\ Len(Body(open)) \in Nat /\ OpenLength(current) \in Nat
  BY <1>1, <1>3, OpenIs
<1>9. SoundBody(new) /\ Len(Body(new)) = Len(Body(open)) + OpenLength(current)
  BY <1>1, <1>2, <1>3, CloseBody
<1> DEFINE a == Len(Body(open)) + OpenLength(current)
           b == Len(Body(new)) + OpenLength(current')
<1>10. a \in Nat /\ b = a + 9 /\ b \in Nat
  <2> DEFINE m == Len(Body(open))
             k == OpenLength(current)
             l == Len(Body(new))
             j == OpenLength(current')
  <2>1. m \in Nat /\ k \in Nat /\ l = m + k /\ j = 9
    BY <1>6, <1>8, <1>9
  <2> HIDE DEF m, k, l, j
  <2>2. m + k \in Nat /\ l + j = (m + k) + 9 /\ l + j \in Nat
    BY <2>1
  <2> QED
    BY <2>2 DEF m, k, l, j
<1>11. SoundBody(config'[1]) /\ b = Len(Body(config'[1])) + OpenLength(current')
  BY <1>7, <1>9
<1> HIDE DEF b, new
<1>12. a = Len(Body(config[1])) + OpenLength(current)
  OBVIOUS
<1> HIDE DEF a, open
<1>13. 9 \in Nat /\ 9 = Field(1)
  BY <1>2
<1> QED
  BY <1>1, <1>3, <1>5, <1>10, <1>11, <1>12, <1>13, TakenMeasured

\* an endpoint: seven;
LEMMA EndpointMeasured ==
    ASSUME TypeInv, Measured, TakeEndpoint
    PROVE  Measured'
<1> DEFINE x == SubSeq(bytes, offset + 3, offset + 7)
<1>1. /\ TakesDescriptor({EndpointType}) /\ pc = "body"
      /\ Field(2) = EndpointType /\ DescriptorFits
      /\ config' = config
      /\ current' = <<[current[1] EXCEPT !.endpoints = Append(@, x)]>>
  BY DEF TakeEndpoint, TakesDescriptor
<1>2. Field(1) = 7 /\ current # <<>>
  BY <1>1 DEF DescriptorFits
<1>3. BodyMeasured
  BY <1>1 DEF Measured
<1>4. /\ SoundBody(config[1]) /\ Len(Body(config[1])) \in Nat
      /\ current[1] \in OpenInterfaces /\ current[1].extras \in Seq(ExtraDescriptors)
      /\ Len(Inside(current[1])) \in Nat /\ OpenLength(current) = 9 + Len(Inside(current[1]))
  BY <1>1, <1>2, <1>3, OpenIs
<1>5. x \in Row(5)
  <2>1. offset \in Nat /\ Len(bytes) \in Nat /\ offset + 7 <= Len(bytes)
    <3>1. offset \in Nat /\ Len(bytes) \in Nat /\ offset + Field(1) <= Len(bytes)
      BY <1>1, TakesTyped DEF TypeInv
    <3> QED
      BY <1>2, <3>1
  <2>2. offset + 3 \in Nat \ {0} /\ offset + 7 \in Nat /\ offset + 3 <= offset + 7
    BY <2>1
  <2>3. x \in Seq(Byte) /\ Len(x) = (offset + 7) - (offset + 3) + 1
    BY <2>1, <2>2, PartTyped DEF TypeInv
  <2> HIDE DEF x
  <2>4. Len(x) = 5
    BY <2>1, <2>3
  <2> QED
    BY <2>3, <2>4 DEF Row
<1> HIDE DEF x
<1> DEFINE new == [current[1] EXCEPT !.endpoints = Append(@, x)]
<1>6. new.extras \in Seq(ExtraDescriptors) /\ Len(Inside(new)) = Len(Inside(current[1])) + 7
  BY <1>4, <1>5, InsideEndpoint
<1>7. current' # <<>> /\ current'[1] = new
  BY <1>1
<1> HIDE DEF new
<1>8. SoundOpen(current') /\ OpenLength(current') = 9 + Len(Inside(new))
  BY <1>6, <1>7 DEF SoundOpen, OpenLength
<1> DEFINE a == Len(Body(config[1])) + OpenLength(current)
           b == Len(Body(config'[1])) + OpenLength(current')
<1>9. a \in Nat /\ b = a + 7 /\ b \in Nat
  <2> DEFINE m == Len(Body(config[1]))
             l == Len(Body(config'[1]))
             k == Len(Inside(current[1]))
             j == Len(Inside(new))
  <2>1. m \in Nat /\ k \in Nat /\ j = k + 7 /\ l = m
    BY <1>1, <1>4, <1>6
  <2>2. a = m + (9 + k) /\ b = l + (9 + j)
    BY <1>4, <1>8
  <2> HIDE DEF m, k, l, j, a, b
  <2> QED
    BY <2>1, <2>2
<1>10. SoundBody(config'[1])
  BY <1>1, <1>4
<1>11. 7 \in Nat /\ 7 = Field(1)
  BY <1>2
<1>12. a = Len(Body(config[1])) + OpenLength(current) /\ b = Len(Body(config'[1])) + OpenLength(current')
  OBVIOUS
<1> HIDE DEF a, b
<1> QED
  BY <1>1, <1>3, <1>8, <1>9, <1>10, <1>11, <1>12, TakenMeasured

\* A descriptor that is neither an interface's nor an endpoint's.
LEMMA ExtraIs ==
    ASSUME TypeInv, NEW type, TakesDescriptor(type), Field(2) \notin {InterfaceType, EndpointType}
    PROVE  /\ SubSeq(bytes, offset + 1, offset + Field(1)) \in ExtraDescriptors
           /\ Len(SubSeq(bytes, offset + 1, offset + Field(1))) = Field(1)
<1> DEFINE n == Field(1)
           x == SubSeq(bytes, offset + 1, offset + n)
<1>1. /\ offset \in Nat /\ n \in Nat /\ n >= 2 /\ offset + n <= Len(bytes) /\ Len(bytes) \in Nat
  BY TakesTyped DEF TypeInv
<1>2. bytes \in Seq(Byte)
  BY DEF TypeInv, WhileDecoding, Byte
<1>3. n = bytes[offset + 1] /\ Field(2) = bytes[offset + 2]
  BY DEF Field
<1> HIDE DEF n
<1>4. \A i \in offset + 1 .. offset + n : bytes[i] \in Byte
  <2>1. \A i \in offset + 1 .. offset + n : i \in 1 .. Len(bytes)
    BY <1>1
  <2> QED
    BY <1>2, <2>1, ElementOfSeq
<1>5. /\ x \in Seq(Byte)
      /\ Len(x) = IF offset + 1 <= offset + n THEN (offset + n) - (offset + 1) + 1 ELSE 0
      /\ \A i \in 1 .. (offset + n) - (offset + 1) + 1 : x[i] = bytes[(offset + 1) + i - 1]
  <2>1. offset + 1 \in Int /\ offset + n \in Int
    BY <1>1
  <2> QED
    BY <1>4, <2>1, SubSeqProperties
<1> HIDE DEF x
<1>6. Len(x) = n /\ Len(x) >= 2
  BY <1>1, <1>5
<1>7. x[1] = bytes[offset + 1] /\ x[2] = bytes[offset + 2]
  <2>1. /\ 1 \in 1 .. (offset + n) - (offset + 1) + 1 /\ 2 \in 1 .. (offset + n) - (offset + 1) + 1
        /\ (offset + 1) + 1 - 1 = offset + 1 /\ (offset + 1) + 2 - 1 = offset + 2
    BY <1>1
  <2>2. x[1] = bytes[(offset + 1) + 1 - 1] /\ x[2] = bytes[(offset + 1) + 2 - 1]
    BY <1>5, <2>1
  <2> QED
    BY <2>1, <2>2
<1>8. x[1] = Len(x) /\ x[2] \notin {InterfaceType, EndpointType}
  BY <1>3, <1>6, <1>7
<1>9. x \in ExtraDescriptors
  BY <1>5, <1>6, <1>8 DEF ExtraDescriptors
<1> QED
  BY <1>6, <1>9 DEF x, n

\* an extra descriptor: as many as its first byte says.
LEMMA ExtraMeasured ==
    ASSUME TypeInv, Measured, TakeExtra
    PROVE  Measured'
<1> DEFINE type == (0 .. 255) \ {InterfaceType, EndpointType}
           x == SubSeq(bytes, offset + 1, offset + Field(1))
<1>1. /\ TakesDescriptor(type) /\ pc = "body" /\ Field(2) \in type
  BY DEF TakeExtra, TakesDescriptor
<1>2. Field(2) \notin {InterfaceType, EndpointType}
  BY <1>1
<1> HIDE DEF type
<1>3. x \in ExtraDescriptors /\ Len(x) = Field(1)
  BY <1>1, <1>2, ExtraIs
<1>4. BodyMeasured
  BY <1>1 DEF Measured
<1>5. /\ config[1] \in OpenConfigurations /\ SoundBody(config[1])
      /\ Len(Body(config[1])) \in Nat /\ OpenLength(current) \in Nat
      /\ current # <<>> => /\ current[1] \in OpenInterfaces
                           /\ current[1].extras \in Seq(ExtraDescriptors)
                           /\ Len(Inside(current[1])) \in Nat
                           /\ OpenLength(current) = 9 + Len(Inside(current[1]))
  BY <1>1, <1>4, OpenIs
<1> DEFINE a == Len(Body(config[1])) + OpenLength(current)
           b == Len(Body(config'[1])) + OpenLength(current')
           n == Len(x)
<1>6. CASE current = <<>>
  <2> DEFINE new == [config[1] EXCEPT !.extras = Append(@, x)]
  <2>1. config' = <<new>> /\ current' = current
    BY <1>6 DEF TakeExtra
  <2>2. config'[1] = new
    BY <2>1
  <2> HIDE DEF x
  <2>3. SoundBody(new) /\ n \in Nat /\ Len(Body(new)) = Len(Body(config[1])) + n
    BY <1>3, <1>5, BodyExtra
  <2> HIDE DEF new
  <2>4. a \in Nat /\ b \in Nat /\ b = a + n
    <3> DEFINE m == Len(Body(config[1]))
               l == Len(Body(config'[1]))
               k == OpenLength(current)
    <3>1. m \in Nat /\ k \in Nat /\ l = m + n /\ n \in Nat
      BY <1>5, <2>2, <2>3
    <3>2. a = m + k /\ b = l + k
      BY <2>1
    <3> HIDE DEF m, l, k, a, b, n
    <3> QED
      BY <3>1, <3>2
  <2>5. SoundBody(config'[1]) /\ SoundOpen(current')
    BY <1>4, <2>1, <2>2, <2>3 DEF BodyMeasured
  <2>6. n = Field(1) /\ n \in Nat
    BY <1>3, <2>3
  <2>7. a = Len(Body(config[1])) + OpenLength(current) /\ b = Len(Body(config'[1])) + OpenLength(current')
    OBVIOUS
  <2> HIDE DEF a, b, n
  <2> QED
    BY <1>1, <1>4, <2>4, <2>5, <2>6, <2>7, TakenMeasured
<1>7. CASE current # <<>>
  <2> DEFINE new == [current[1] EXCEPT !.extras = Append(@, x)]
  <2>1. current' = <<new>> /\ config' = config
    BY <1>7 DEF TakeExtra
  <2>2. current' # <<>> /\ current'[1] = new
    BY <2>1
  <2> HIDE DEF x
  <2>3. /\ new.extras \in Seq(ExtraDescriptors) /\ n \in Nat
        /\ Len(Inside(new)) = Len(Inside(current[1])) + n
    BY <1>3, <1>5, <1>7, InsideExtra
  <2> HIDE DEF new
  <2>4. SoundOpen(current') /\ OpenLength(current') = 9 + Len(Inside(new))
    BY <2>2, <2>3 DEF SoundOpen, OpenLength
  <2>5. a \in Nat /\ b \in Nat /\ b = a + n
    <3> DEFINE m == Len(Body(config[1]))
               k == Len(Inside(current[1]))
               j == Len(Inside(new))
    <3>1. m \in Nat /\ k \in Nat /\ j = k + n /\ n \in Nat
      BY <1>5, <1>7, <2>3
    <3>2. a = m + (9 + k) /\ b = m + (9 + j)
      BY <1>5, <1>7, <2>1, <2>4
    <3> HIDE DEF m, j, k, a, b, n
    <3> QED
      BY <3>1, <3>2
  <2>6. SoundBody(config'[1])
    BY <1>5, <2>1
  <2>7. n = Field(1) /\ n \in Nat
    BY <1>3, <2>3
  <2>8. a = Len(Body(config[1])) + OpenLength(current) /\ b = Len(Body(config'[1])) + OpenLength(current')
    OBVIOUS
  <2> HIDE DEF a, b, n
  <2> QED
    BY <1>1, <1>4, <2>4, <2>5, <2>6, <2>7, <2>8, TakenMeasured
<1> QED
  BY <1>6, <1>7

\* A configuration is nine bytes longer than what follows its header.
LEMMA ConfigurationSize ==
    ASSUME NEW k, k.fields \in Row(4), k.interfaces \in Seq(Interfaces), Len(k.interfaces) < 256,
           Body(k) \in Seq(Byte)
    PROVE  Len(ConfigurationBytes(k)) = 9 + Len(Body(k)) /\ Len(Body(k)) \in Nat
<1> DEFINE b == Body(k)
           m == Len(b)
           n == Len(k.interfaces)
           total == 9 + m
           t == Le16(total)
<1>1. m \in Nat /\ n \in Nat
  BY LenProperties
<1>2. Long(t, Int, 2)
  <2>1. total % 256 \in Int /\ total \div 256 \in Int
    <3>1. \A a \in Nat : a % 256 \in Int /\ a \div 256 \in Int
      OBVIOUS
    <3>2. total \in Nat
      BY <1>1
    <3> HIDE DEF total
    <3> QED
      BY <3>1, <3>2, Zenon
  <2> HIDE DEF total
  <2> QED
    BY <2>1, TwoBytes DEF Le16
<1>3. Byte \subseteq Int
  BY DEF Byte
<1>4. Long(k.fields, Int, 4)
  <2>1. k.fields \in Seq(Byte) /\ Len(k.fields) = 4
    BY DEF Row
  <2> QED
    BY <1>3, <2>1, SeqWider DEF Long
<1>5. Long(b, Int, m)
  BY <1>3, SeqWider DEF Long
<1>6. n \in Int
  BY <1>1
<1>7. ConfigurationBytes(k) = Descriptor(ConfigurationType, t \o <<n>> \o k.fields) \o b
  BY DEF ConfigurationBytes, Body, EachInterface
<1> HIDE DEF t, n, b, m
<1>8. Len(Descriptor(ConfigurationType, t \o <<n>> \o k.fields) \o b) = 9 + m
  BY <1>1, <1>2, <1>4, <1>5, <1>6, ConfigurationLength
<1> QED
  BY <1>1, <1>7, <1>8 DEF m, b

\* One configuration more, as bytes.
LEMMA EachConfigurationGrows ==
    ASSUME NEW q \in Seq(Configurations), EachConfiguration(q) \in Seq(Seq(Byte)),
           Len(EachConfiguration(q)) = Len(q),
           NEW k \in Configurations, ConfigurationBytes(k) \in Seq(Byte)
    PROVE  EachConfiguration(Append(q, k)) = Append(EachConfiguration(q), ConfigurationBytes(k))
<1> DEFINE B == Seq(Byte)
           r == Append(q, k)
           e == EachConfiguration(q)
           b == ConfigurationBytes(k)
           f == EachConfiguration(r)
           g == Append(e, b)
           n == Len(q)
<1>1. /\ r \in Seq(Configurations) /\ n \in Nat /\ r[n + 1] = k /\ \A j \in 1 .. n : r[j] = q[j]
      /\ DOMAIN r = 1 .. n + 1 /\ DOMAIN q = 1 .. n
  BY AppendIs
<1>2. e \in Seq(B) /\ b \in B /\ Len(e) = n
  OBVIOUS
<1> HIDE DEF B, r, n
<1>3. \A j \in 1 .. n : e[j] = ConfigurationBytes(q[j])
  BY <1>1 DEF EachConfiguration
<1>4. \A j \in 1 .. n + 1 : f[j] = ConfigurationBytes(r[j])
  BY <1>1 DEF EachConfiguration
<1>5. DOMAIN f = 1 .. n + 1 /\ f = [j \in 1 .. n + 1 |-> ConfigurationBytes(r[j])]
  BY <1>1 DEF EachConfiguration
<1> HIDE DEF e, b, f
<1>6. /\ g \in Seq(B) /\ Len(g) = n + 1 /\ g[n + 1] = b /\ \A j \in 1 .. n : g[j] = e[j]
  BY <1>2, AppendIs
<1> HIDE DEF g
<1>7. \A j \in 1 .. n + 1 : f[j] = g[j]
  <2> SUFFICES ASSUME NEW j \in 1 .. n + 1
               PROVE  f[j] = g[j]
    OBVIOUS
  <2>1. CASE j = n + 1
    BY <1>1, <1>4, <1>6, <2>1 DEF b
  <2>2. CASE j # n + 1
    <3>1. j \in 1 .. n
      BY <1>1, <2>2
    <3> QED
      BY <1>1, <1>3, <1>4, <1>6, <3>1
  <2> QED
    BY <2>1, <2>2
<1>8. f \in Seq(B) /\ Len(f) = n + 1
  <2>1. n + 1 \in Nat
    BY <1>1
  <2>2. \A j \in 1 .. n + 1 : f[j] \in B
    <3>1. \A j \in 1 .. n + 1 : g[j] \in B
      BY <1>6, ElementOfSeq
    <3> QED
      BY <1>7, <3>1
  <2>3. f \in [1 .. n + 1 -> B]
    BY <1>5, <2>2 DEF f
  <2> QED
    BY <2>1, <2>3, EachTyped
<1>9. f = g
  <2>1. Alike(f, g, n + 1)
    BY <1>7 DEF Alike
  <2> QED
    BY <1>6, <1>8, <2>1, SameRow
<1> QED
  BY <1>9 DEF f, g, e, b, r

\* CloseConfiguration: one more configuration.
LEMMA SetGrows ==
    ASSUME NEW s, GoodSet(s), NoReports(s), Len(s.configurations) + 1 < 256,
           NEW k, GoodConfiguration(k), Unreported(k.interfaces),
           NEW u, u = [s EXCEPT !.configurations = Append(@, k)]
    PROVE  /\ GoodSet(u) /\ NoReports(u) /\ Len(u.configurations) = Len(s.configurations) + 1
           /\ Len(s.configurations) \in Nat /\ Start(s) \in Nat /\ Len(ConfigurationBytes(k)) \in Nat
           /\ Start(u) = Start(s) + Len(ConfigurationBytes(k))
<1> DEFINE q == s.configurations
           r == u.configurations
           n == Len(q)
<1>1. /\ s \in DescriptorSets /\ q \in Seq(Configurations) /\ k \in Configurations
      /\ Len(s.device) = 15
  BY DEF GoodSet, DescriptorSets, GoodConfiguration
<1>2. r = Append(q, k) /\ u.device = s.device
  BY <1>1 DEF DescriptorSets
<1>3. /\ r \in Seq(Configurations) /\ Len(r) = n + 1 /\ n \in Nat
      /\ r[n + 1] = k /\ \A c \in 1 .. n : r[c] = q[c]
  BY <1>1, <1>2, AppendIs
<1>4. u \in DescriptorSets
  <2>1. u = [device |-> s.device, configurations |-> r]
    BY <1>1, <1>2 DEF DescriptorSets
  <2>2. s.device \in {b \in Seq(Byte) : Len(b) <= 15}
    BY <1>1 DEF DescriptorSets
  <2>3. ASSUME NEW d \in {b \in Seq(Byte) : Len(b) <= 15}, NEW t \in Seq(Configurations)
        PROVE  [device |-> d, configurations |-> t] \in DescriptorSets
    BY DEF DescriptorSets
  <2>4. [device |-> s.device, configurations |-> r] \in DescriptorSets
    <3>1. r \in Seq(Configurations)
      BY <1>3
    <3> HIDE DEF r
    <3> QED
      BY <2>2, <2>3, <3>1
  <2> QED
    BY <2>1, <2>4
<1>5. \A c \in 1 .. n : GoodConfiguration(q[c]) /\ Unreported(q[c].interfaces)
  BY DEF GoodSet, NoReports
<1> HIDE DEF q, r, n
<1>6. ASSUME NEW c \in 1 .. n + 1
      PROVE  GoodConfiguration(r[c]) /\ Unreported(r[c].interfaces)
  <2>1. CASE c = n + 1
    BY <1>3, <2>1
  <2>2. CASE c # n + 1
    <3>1. c \in 1 .. n
      BY <1>3, <2>2
    <3> QED
      BY <1>3, <1>5, <3>1
  <2> QED
    BY <2>1, <2>2
<1>7. GoodSet(u)
  <2>1. Len(r) < 256
    BY <1>3 DEF n, q
  <2>2. \A c \in 1 .. Len(r) : GoodConfiguration(r[c])
    BY <1>3, <1>6
  <2> QED
    BY <1>1, <1>2, <1>4, <2>1, <2>2 DEF GoodSet, r
<1>8. NoReports(u)
  <2>1. \A c \in 1 .. Len(r) : Unreported(r[c].interfaces)
    BY <1>3, <1>6
  <2> QED
    BY <2>1 DEF NoReports, r
<1> DEFINE e == EachConfiguration(q)
           b == ConfigurationBytes(k)
<1>9. e \in Seq(Seq(Byte)) /\ Len(e) = n
  BY EachConfigurationTyped DEF q, n
<1>10. b \in Seq(Byte)
  BY ConfigurationIs, Chained DEF Long
<1>11. EachConfiguration(r) = Append(e, b)
  BY <1>1, <1>2, <1>9, <1>10, EachConfigurationGrows DEF n
<1> HIDE DEF e, b
<1>12. /\ Len(FlattenSeq(e)) \in Nat /\ Len(b) \in Nat
       /\ Len(FlattenSeq(Append(e, b))) = Len(FlattenSeq(e)) + Len(b)
  BY <1>9, <1>10, FlattenLonger
<1>13. Start(s) = 26 + Len(FlattenSeq(e)) /\ Start(u) = 26 + Len(FlattenSeq(Append(e, b)))
  BY <1>11 DEF Start, e, q, r
<1>14. Start(s) \in Nat /\ Len(b) \in Nat /\ Start(u) = Start(s) + Len(b)
  BY <1>12, <1>13
<1> QED
  BY <1>3, <1>7, <1>8, <1>14 DEF q, r, n, b

\* The configuration that is complete.
LEMMA CompleteGood ==
    ASSUME TypeInv, pc = "body", BodyMeasured, ConfigurationComplete, offset = bodyEnd,
           NEW k, k = [fields |-> config[1].fields, extras |-> config[1].extras, interfaces |-> Closed]
    PROVE  /\ GoodConfiguration(k) /\ Unreported(k.interfaces)
           /\ Len(ConfigurationBytes(k)) \in Nat /\ offset = Start(set) + Len(ConfigurationBytes(k))
<1> DEFINE new == [config[1] EXCEPT !.interfaces = Closed]
<1>1. config[1] \in OpenConfigurations /\ Closed \in Seq(Interfaces)
  BY ClosedIs, ClosedTyped DEF TypeInv
<1>2. new.extras = config[1].extras /\ new.interfaces = Closed
  BY <1>1 DEF OpenConfigurations
<1>3. SoundBody(new) /\ Len(Body(new)) = Len(Body(config[1])) + OpenLength(current)
  <2>1. Finished
    BY DEF ConfigurationComplete
  <2> HIDE DEF new
  <2> QED
    BY <2>1, CloseBody DEF new
<1> HIDE DEF new
<1>4. k.extras = new.extras /\ k.interfaces = new.interfaces /\ k.fields = config[1].fields
  BY <1>2
<1>5. SoundBody(k) /\ Body(k) = Body(new)
  BY <1>3, <1>4 DEF SoundBody, Body
<1>6. k.fields \in Row(4) /\ k.interfaces \in Seq(Interfaces) /\ k.extras \in Seq(Seq(Byte))
  BY <1>1, <1>2, <1>4 DEF OpenConfigurations
<1>7. k \in Configurations
  <2>1. k = [fields |-> k.fields, extras |-> k.extras, interfaces |-> k.interfaces]
    OBVIOUS
  <2> QED
    BY <1>6, <2>1 DEF Configurations
<1>8. Len(k.interfaces) < 256
  <2> DEFINE n == Len(k.interfaces)
  <2>1. n = config[1].expected /\ config[1].expected \in Byte
    BY <1>1, <1>2, <1>4 DEF ConfigurationComplete, OpenConfigurations
  <2> HIDE DEF n
  <2>2. n < 256
    BY <2>1 DEF Byte
  <2> QED
    BY <2>2 DEF n
<1>9. Body(k) \in Seq(Byte)
  BY <1>5, <1>6, BodyIs
<1>10. Len(ConfigurationBytes(k)) = 9 + Len(Body(k)) /\ Len(Body(k)) \in Nat
  BY <1>6, <1>8, <1>9, ConfigurationSize
<1>11. /\ Len(ConfigurationBytes(k)) \in Nat /\ offset = Start(set) + Len(ConfigurationBytes(k))
       /\ Len(ConfigurationBytes(k)) < Word
  <2> DEFINE l == Len(ConfigurationBytes(k))
             m == Len(Body(k))
             z == Start(set)
  <2>1. z \in Nat
    BY StartTyped DEF BodyMeasured
  <2>2. m = Len(Body(config[1])) + OpenLength(current)
    BY <1>3, <1>5
  <2>3. offset = (z + 9) + m /\ bodyEnd < z + Word
    BY <2>2 DEF BodyMeasured
  <2>4. l = 9 + m /\ m \in Nat
    BY <1>10
  <2> HIDE DEF l, m, z
  <2>5. l \in Nat /\ offset = z + l
    BY <2>1, <2>3, <2>4
  <2>6. l < Word
    <3>1. z + l < z + Word
      BY <2>3, <2>5
    <3> QED
      BY <2>1, <2>5, <3>1 DEF Word
  <2> QED
    BY <2>5, <2>6 DEF l, z
<1>12. \A i \in DOMAIN k.interfaces : GoodInterface(k.interfaces[i]) /\ k.interfaces[i].report = <<>>
  <2>1. DOMAIN k.interfaces = 1 .. Len(k.interfaces)
    BY <1>6, LenProperties
  <2> QED
    BY <1>5, <2>1 DEF SoundBody
<1>13. Unreported(k.interfaces) /\ ReportFound(k.interfaces)
  BY <1>12 DEF Unreported, ReportFound
<1>14. k.extras \in Seq(ExtraDescriptors)
  BY <1>5 DEF SoundBody
<1>15. GoodConfiguration(k)
  BY <1>7, <1>8, <1>11, <1>12, <1>13, <1>14 DEF GoodConfiguration
<1> QED
  BY <1>11, <1>13, <1>15

\* The end of a configuration: what it was said to be long, and encode says the
\* same.
LEMMA CloseMeasured ==
    ASSUME TypeInv, Measured, CloseConfiguration
    PROVE  Measured'
<1> DEFINE k == [fields |-> config[1].fields, extras |-> config[1].extras, interfaces |-> Closed]
<1>1. /\ pc = "body" /\ offset = bodyEnd /\ ConfigurationComplete
      /\ set' = [set EXCEPT !.configurations = Append(@, k)]
      /\ pc' = "configurations" /\ offset' = offset /\ left' = left
  BY DEF CloseConfiguration
<1>2. BodyMeasured
  BY <1>1 DEF Measured
<1> HIDE DEF k
<1>3. /\ GoodConfiguration(k) /\ Unreported(k.interfaces)
      /\ offset = Start(set) + Len(ConfigurationBytes(k))
  BY <1>1, <1>2, CompleteGood DEF k
<1>4. GoodSet(set) /\ NoReports(set) /\ Len(set.configurations) + left + 1 < 256
  BY <1>2 DEF BodyMeasured
<1>5. Len(set.configurations) \in Nat /\ left \in Nat
  <2>1. set.configurations \in Seq(Configurations)
    BY DEF TypeInv, Typed, DescriptorSets
  <2> QED
    BY <2>1, LenProperties DEF TypeInv, Typed
<1>6. Len(set.configurations) + 1 < 256
  BY <1>4, <1>5
<1>7. /\ GoodSet(set') /\ NoReports(set') /\ Len(set'.configurations) = Len(set.configurations) + 1
      /\ Start(set') = Start(set) + Len(ConfigurationBytes(k))
  BY <1>1, <1>3, <1>4, <1>6, SetGrows
<1>8. Len(set'.configurations) + left' < 256
  BY <1>1, <1>4, <1>5, <1>7
<1>9. offset' = Start(set')
  BY <1>1, <1>3, <1>7
<1> QED
  BY <1>1, <1>7, <1>8, <1>9 DEF Measured

\* A set without reports has no sidecars.
LEMMA NoSidecars ==
    ASSUME NEW s, GoodSet(s), NoReports(s)
    PROVE  Len(Sidecars(s)) = 0 /\ Len(FlattenSeq(Sidecars(s))) = 0
<1> DEFINE q == Sidecars(s)
<1>1. q \in Seq(Seq(Byte)) /\ Len(q) \in Nat
  BY GoodSidecars
<1>2. Len(q) = 0
  <2> SUFFICES ASSUME Len(q) # 0
               PROVE  FALSE
    OBVIOUS
  <2>1. q[1] \in Elements(q)
    <3> HIDE DEF q
    <3> QED
      BY <1>1 DEF Elements
  <2>2. PICK c, i : Names(s, q[1], c, i)
    BY <2>1, SidecarNamed
  <2>3. /\ c \in 1 .. Len(s.configurations) /\ s.configurations[c].interfaces[i].report # <<>>
        /\ i \in DOMAIN s.configurations[c].interfaces
    <3>1. c \in 1 .. Len(s.configurations)
      BY <2>2 DEF Names
    <3>2. DOMAIN s.configurations[c].interfaces = 1 .. Len(s.configurations[c].interfaces)
      BY <3>1, GoodParts
    <3> QED
      BY <2>2, <3>1, <3>2 DEF Names
  <2> QED
    BY <2>3 DEF NoReports, Unreported
<1>3. q = <<>>
  <2> HIDE DEF q
  <2> QED
    BY <1>1, <1>2, EmptySeq
<1> QED
  BY <1>2, <1>3, FlattenEmpty

\* The end of the configurations: no reports yet, so no sidecars.
LEMMA EndMeasured ==
    ASSUME TypeInv, Measured, ConfigurationsEnd
    PROVE  Measured'
<1>1. /\ pc = "configurations" /\ left' = U16At(7) /\ pc' = "sidecars"
      /\ bytes' = bytes /\ set' = set /\ offset' = offset
  BY DEF ConfigurationsEnd
<1>2. GoodSet(set) /\ NoReports(set) /\ offset = Start(set)
  BY <1>1 DEF Measured
<1>3. Len(Sidecars(set)) = 0 /\ Len(FlattenSeq(Sidecars(set))) = 0
  BY <1>2, NoSidecars
<1>4. U16At(7) \in Nat /\ U16At(7)' = U16At(7)
  <2>1. 7 \in Nat \ {0} /\ 7 + 1 <= Len(bytes)
    <3>1. Len(bytes) >= 26 /\ Len(bytes) \in Nat
      BY <1>1 DEF TypeInv, HasHeader, WhileDecoding
    <3> QED
      BY <3>1
  <2>2. U16At(7) \in Nat
    BY <2>1, U16Typed DEF TypeInv
  <2> QED
    BY <1>1, <2>2 DEF U16At
<1>5. Start(set) \in Nat
  BY <1>2, StartTyped
<1> DEFINE u == U16At(7)
           z == Start(set)
<1>6. u - u = 0 /\ z = z + 0
  <2> HIDE DEF u, z
  <2>1. u \in Nat /\ z \in Nat
    BY <1>4, <1>5 DEF u, z
  <2> QED
    BY <2>1
<1>7. SidecarsMeasured'
  <2>1. U16At(7)' - left' = 0
    BY <1>1, <1>4, <1>6
  <2>2. Len(Sidecars(set')) = 0 /\ Len(FlattenSeq(Sidecars(set'))) = 0
    BY <1>1, <1>3
  <2>3. offset' = Start(set') + 0
    BY <1>1, <1>2, <1>6
  <2>4. GoodSet(set')
    BY <1>1, <1>2
  <2>5. 0 >= 0
    OBVIOUS
  <2> QED
    BY <2>1, <2>2, <2>3, <2>4, <2>5 DEF SidecarsMeasured
<1> QED
  BY <1>1, <1>7 DEF Measured

-----------------------------------------------------------------------------
\* A report is put in its place.
Reported(i, r) == [i EXCEPT !.report = <<r>>]

InterfacesWith(q, i, r) == [q EXCEPT ![i] = Reported(q[i], r)]

ConfigurationWith(k, i, r) == [k EXCEPT !.interfaces = InterfacesWith(k.interfaces, i, r)]

SetWith(s, c, i, r) ==
    [s EXCEPT !.configurations =
        [s.configurations EXCEPT ![c] = ConfigurationWith(s.configurations[c], i, r)]]

\* A set with a report at an interface, in two ways.
LEMMA SetWithIs ==
    ASSUME NEW s, NEW c, NEW i, NEW r
    PROVE  [s EXCEPT !.configurations[c].interfaces[i].report = <<r>>] = SetWith(s, c, i, r)
BY DEF SetWith, ConfigurationWith, InterfacesWith, Reported

\* An interface with a report has the bytes it had without.
LEMMA ReportedGood ==
    ASSUME NEW i, GoodInterface(i), NEW r \in Seq(Byte), Len(r) < Word
    PROVE  /\ GoodInterface(Reported(i, r)) /\ Reported(i, r) \in Interfaces
           /\ InterfaceBytes(Reported(i, r)) = InterfaceBytes(i)
           /\ Setting(Reported(i, r)) = Setting(i) /\ Reported(i, r).report = <<r>>
<1> DEFINE y == Reported(i, r)
<1>1. i \in Interfaces
  BY DEF GoodInterface
<1> DEFINE B == Seq(Byte)
           p == <<r>>
<1>2. p \in {t \in Seq(Seq(Byte)) : Len(t) <= 1}
  <2>1. r \in B
    OBVIOUS
  <2> HIDE DEF B
  <2>2. p \in Seq(B) /\ Len(p) = 1
    BY <2>1, OneElement
  <2> QED
    BY <2>2 DEF B
<1>3. DOMAIN p = {1} /\ p[1] = r
  OBVIOUS
<1>4. y = [i EXCEPT !.report = p]
  BY DEF Reported
<1> HIDE DEF p
<1>5. /\ y \in Interfaces /\ y.report = p /\ y.fields = i.fields /\ y.extras = i.extras
      /\ y.endpoints = i.endpoints
  BY <1>1, <1>2, <1>4 DEF Interfaces
<1> HIDE DEF y
<1>6. \A k \in DOMAIN p : Len(p[k]) < Word
  BY <1>3
<1>7. GoodInterface(y)
  BY <1>5, <1>6 DEF GoodInterface
<1>8. InterfaceBytes(y) = InterfaceBytes(i) /\ Setting(y) = Setting(i)
  BY <1>5 DEF InterfaceBytes, Setting
<1> QED
  BY <1>5, <1>7, <1>8 DEF y, p

\* i is the first interface with its setting.
FirstOne(q, i) == \A j \in 1 .. i - 1 : Setting(q[j]) # Setting(q[i])

\* z has the good interfaces of q, but for their reports.
AsGood(q, z) ==
    /\ z \in Seq(Interfaces) /\ Len(z) = Len(q)
    /\ \A j \in DOMAIN z : GoodInterface(z[j])
    /\ ReportFound(z) /\ EachInterface(z) = EachInterface(q)

ReportIn(q, i, r, z) ==
    z[i] = Reported(q[i], r) /\ \A j \in 1 .. Len(q) : j # i => z[j] = q[j]

\* A report with one interface leaves the others, and their settings.
LEMMA InterfacesWithGood ==
    ASSUME NEW k, GoodConfiguration(k), NEW i \in 1 .. Len(k.interfaces), FirstOne(k.interfaces, i),
           NEW r \in Seq(Byte), Len(r) < Word,
           NEW z, z = InterfacesWith(k.interfaces, i, r)
    PROVE  AsGood(k.interfaces, z) /\ ReportIn(k.interfaces, i, r, z)
<1> DEFINE q == k.interfaces
           n == Len(q)
           y == Reported(q[i], r)
<1>1. q \in Seq(Interfaces)
  BY DEF GoodConfiguration, Configurations
<1>2. n \in Nat /\ DOMAIN q = 1 .. n
  BY <1>1, LenProperties
<1>3. \A j \in 1 .. n : GoodInterface(q[j])
  BY <1>2 DEF GoodConfiguration
<1>4. /\ y \in Interfaces /\ GoodInterface(y) /\ InterfaceBytes(y) = InterfaceBytes(q[i])
      /\ Setting(y) = Setting(q[i])
  BY <1>3, ReportedGood
<1>5. z = [q EXCEPT ![i] = y] /\ ReportFound(q) /\ FirstOne(q, i) /\ i \in 1 .. n
  BY DEF InterfacesWith, GoodConfiguration
<1> HIDE DEF q, n, y
<1>6. /\ z \in Seq(Interfaces) /\ Len(z) = n /\ z[i] = y
      /\ \A j \in 1 .. n : j # i => z[j] = q[j]
  <2>1. i \in 1 .. Len(q)
    BY <1>5 DEF n
  <2>2. /\ [q EXCEPT ![i] = y] \in Seq(Interfaces) /\ Len([q EXCEPT ![i] = y]) = Len(q)
        /\ \A j \in 1 .. Len(q) : [q EXCEPT ![i] = y][j] = IF j = i THEN y ELSE q[j]
    BY <1>1, <1>4, <2>1, ExceptSeq
  <2> QED
    BY <1>5, <2>1, <2>2 DEF n
<1>7. DOMAIN z = 1 .. n
  BY <1>6, LenProperties
<1>8. \A j \in 1 .. n : GoodInterface(z[j])
  BY <1>3, <1>4, <1>6
<1>9. \A j \in 1 .. n : InterfaceBytes(z[j]) = InterfaceBytes(q[j])
  BY <1>4, <1>6
<1>10. \A j \in 1 .. n : Setting(z[j]) = Setting(q[j])
  BY <1>4, <1>6
<1>11. ReportFound(z)
  <2> SUFFICES ASSUME NEW j \in 1 .. n, z[j].report # <<>>, NEW l \in 1 .. j - 1
               PROVE  Setting(z[l]) # Setting(z[j])
    BY <1>7 DEF ReportFound
  <2>1. l \in 1 .. n
    BY <1>2
  <2>2. Setting(q[l]) # Setting(q[j])
    <3>1. CASE j = i
      BY <1>5, <3>1 DEF FirstOne
    <3>2. CASE j # i
      <4>1. q[j].report # <<>>
        BY <1>6, <3>2
      <4> QED
        BY <1>2, <1>5, <4>1 DEF ReportFound
    <3> QED
      BY <3>1, <3>2
  <2> QED
    BY <1>10, <2>1, <2>2
<1>12. EachInterface(z) = EachInterface(q)
  BY <1>2, <1>7, <1>9 DEF EachInterface
<1> QED
  <2>1. AsGood(q, z)
    BY <1>6, <1>7, <1>8, <1>11, <1>12 DEF n, AsGood
  <2>2. ReportIn(q, i, r, z)
    BY <1>6 DEF n, y, ReportIn
  <2> QED
    BY <2>1, <2>2 DEF q

\* A configuration has the same bytes with a report and without.
LEMMA ConfigurationWithGood ==
    ASSUME NEW k, GoodConfiguration(k), NEW i \in 1 .. Len(k.interfaces), FirstOne(k.interfaces, i),
           NEW r \in Seq(Byte), Len(r) < Word,
           NEW l, l = ConfigurationWith(k, i, r)
    PROVE  /\ GoodConfiguration(l) /\ ConfigurationBytes(l) = ConfigurationBytes(k)
           /\ l.interfaces = InterfacesWith(k.interfaces, i, r)
<1> DEFINE z == InterfacesWith(k.interfaces, i, r)
<1>1. /\ z \in Seq(Interfaces) /\ Len(z) = Len(k.interfaces)
      /\ \A j \in DOMAIN z : GoodInterface(z[j])
      /\ ReportFound(z) /\ EachInterface(z) = EachInterface(k.interfaces)
  <2>1. z = InterfacesWith(k.interfaces, i, r)
    OBVIOUS
  <2> HIDE DEF z
  <2>2. AsGood(k.interfaces, z)
    BY <2>1, InterfacesWithGood
  <2> QED
    BY <2>2 DEF AsGood
<1>2. l = [k EXCEPT !.interfaces = z] /\ k \in Configurations
  BY DEF ConfigurationWith, GoodConfiguration
<1> HIDE DEF z
<1>3. /\ l.interfaces = z /\ l.fields = k.fields /\ l.extras = k.extras
      /\ l = [fields |-> k.fields, extras |-> k.extras, interfaces |-> z]
  BY <1>2 DEF Configurations
<1>4. l \in Configurations
  <2>1. k.fields \in Row(4) /\ k.extras \in Seq(Seq(Byte))
    BY <1>2 DEF Configurations
  <2> DEFINE f == k.fields
             e == k.extras
  <2>2. f \in Row(4) /\ e \in Seq(Seq(Byte)) /\ l = [fields |-> f, extras |-> e, interfaces |-> z]
    BY <1>3, <2>1
  <2> HIDE DEF f, e
  <2> QED
    BY <1>1, <2>2 DEF Configurations
<1>5. ConfigurationBytes(l) = ConfigurationBytes(k)
  <2> DEFINE m == Len(l.interfaces)
             e == EachInterface(l.interfaces)
  <2>1. m = Len(k.interfaces) /\ e = EachInterface(k.interfaces)
    BY <1>1, <1>3
  <2>2. ConfigurationBytes(l) =
          LET body == FlattenSeq(l.extras) \o FlattenSeq(e)
          IN  Descriptor(ConfigurationType, Le16(9 + Len(body)) \o <<m>> \o l.fields) \o body
    BY DEF ConfigurationBytes, EachInterface
  <2>3. ConfigurationBytes(k) =
          LET body == FlattenSeq(k.extras) \o FlattenSeq(EachInterface(k.interfaces))
          IN  Descriptor(ConfigurationType, Le16(9 + Len(body)) \o <<Len(k.interfaces)>> \o k.fields)
                \o body
    BY DEF ConfigurationBytes, EachInterface
  <2> HIDE DEF m, e
  <2> QED
    BY <1>3, <2>1, <2>2, <2>3
<1>6. GoodConfiguration(l)
  <2>1. /\ k.extras \in Seq(ExtraDescriptors) /\ Len(k.interfaces) < 256
        /\ Len(ConfigurationBytes(k)) < Word
    BY DEF GoodConfiguration
  <2>2. l.extras \in Seq(ExtraDescriptors) /\ Len(l.interfaces) < 256
    BY <1>1, <1>3, <2>1
  <2>3. Len(ConfigurationBytes(l)) < Word
    BY <1>5, <2>1
  <2>4. (\A j \in DOMAIN l.interfaces : GoodInterface(l.interfaces[j])) /\ ReportFound(l.interfaces)
    BY <1>1, <1>3
  <2> QED
    BY <1>4, <2>2, <2>3, <2>4 DEF GoodConfiguration
<1> QED
  BY <1>3, <1>5, <1>6 DEF z

\* TakeSidecar: every other part is as it was.
LEMMA SetWithGood ==
    ASSUME NEW s, GoodSet(s), NEW c \in 1 .. Len(s.configurations),
           NEW i \in 1 .. Len(s.configurations[c].interfaces),
           FirstOne(s.configurations[c].interfaces, i),
           NEW r \in Seq(Byte), Len(r) < Word,
           NEW u, u = SetWith(s, c, i, r)
    PROVE  GoodSet(u) /\ Start(u) = Start(s) /\ Len(u.configurations) = Len(s.configurations)
<1> DEFINE q == s.configurations
           n == Len(q)
           l == ConfigurationWith(q[c], i, r)
           z == [q EXCEPT ![c] = l]
<1>1. /\ s \in DescriptorSets /\ q \in Seq(Configurations) /\ Len(s.device) = 15 /\ n < 256
      /\ \A d \in 1 .. n : GoodConfiguration(q[d])
  BY DEF GoodSet, DescriptorSets
<1>2. n \in Nat /\ DOMAIN q = 1 .. n /\ c \in 1 .. n
  BY <1>1, LenProperties
<1>3. GoodConfiguration(l) /\ ConfigurationBytes(l) = ConfigurationBytes(q[c]) /\ l \in Configurations
  <2>1. GoodConfiguration(q[c]) /\ i \in 1 .. Len(q[c].interfaces) /\ FirstOne(q[c].interfaces, i)
    BY <1>1, <1>2
  <2> HIDE DEF q
  <2>2. l = ConfigurationWith(q[c], i, r)
    OBVIOUS
  <2> HIDE DEF l
  <2>3. GoodConfiguration(l) /\ ConfigurationBytes(l) = ConfigurationBytes(q[c])
    BY <2>1, <2>2, ConfigurationWithGood
  <2> QED
    BY <2>3 DEF GoodConfiguration
<1>4. u = [s EXCEPT !.configurations = z]
  BY DEF SetWith
<1> HIDE DEF l
<1>5. /\ z \in Seq(Configurations) /\ Len(z) = n /\ z[c] = l
      /\ \A d \in 1 .. n : d # c => z[d] = q[d]
  <2> HIDE DEF q
  <2>1. c \in 1 .. Len(q)
    BY <1>2
  <2>2. /\ [q EXCEPT ![c] = l] \in Seq(Configurations) /\ Len([q EXCEPT ![c] = l]) = Len(q)
        /\ \A d \in 1 .. Len(q) : [q EXCEPT ![c] = l][d] = IF d = c THEN l ELSE q[d]
    BY <1>1, <1>3, <2>1, ExceptSeq
  <2> QED
    BY <2>1, <2>2
<1> HIDE DEF z
<1>6. DOMAIN z = 1 .. n
  BY <1>5, LenProperties
<1>7. \A d \in 1 .. n : GoodConfiguration(z[d]) /\ ConfigurationBytes(z[d]) = ConfigurationBytes(q[d])
  <2> HIDE DEF q, n
  <2> QED
    BY <1>1, <1>3, <1>5
<1>8. u.configurations = z /\ u.device = s.device /\ u = [device |-> s.device, configurations |-> z]
  BY <1>1, <1>4 DEF DescriptorSets
<1>9. u \in DescriptorSets
  <2>1. ASSUME NEW d \in {b \in Seq(Byte) : Len(b) <= 15}, NEW t \in Seq(Configurations)
        PROVE  [device |-> d, configurations |-> t] \in DescriptorSets
    BY DEF DescriptorSets
  <2>2. s.device \in {b \in Seq(Byte) : Len(b) <= 15}
    BY <1>1 DEF DescriptorSets
  <2>3. [device |-> s.device, configurations |-> z] \in DescriptorSets
    BY <1>5, <2>1, <2>2
  <2> QED
    BY <1>8, <2>3
<1>10. GoodSet(u)
  <2>1. Len(u.device) = 15
    BY <1>1, <1>8
  <2>2. Len(u.configurations) = n
    BY <1>5, <1>8
  <2>3. \A d \in 1 .. Len(u.configurations) : GoodConfiguration(u.configurations[d])
    BY <1>7, <1>8, <2>2
  <2>4. Len(u.configurations) < 256
    BY <1>1, <2>2
  <2> QED
    BY <1>9, <2>1, <2>3, <2>4 DEF GoodSet
<1>11. EachConfiguration(z) = EachConfiguration(q)
  BY <1>2, <1>6, <1>7 DEF EachConfiguration
<1>12. Start(u) = Start(s)
  BY <1>8, <1>11 DEF Start
<1> QED
  BY <1>5, <1>8, <1>10, <1>12

\* The sidecars of each configuration.
LEMMA EachSidecarsTyped ==
    ASSUME NEW s, GoodSet(s)
    PROVE  /\ EachSidecars(s.configurations) \in Seq(Seq(Seq(Byte)))
           /\ Len(EachSidecars(s.configurations)) = Len(s.configurations)
           /\ Len(s.configurations) \in Nat /\ DOMAIN s.configurations = 1 .. Len(s.configurations)
<1> DEFINE q == s.configurations
           n == Len(q)
           B == Seq(Byte)
           BB == Seq(B)
           e == EachSidecars(q)
<1>1. n \in Nat /\ DOMAIN q = 1 .. n
  <2>1. q \in Seq(Configurations)
    BY DEF GoodSet, DescriptorSets
  <2> QED
    BY <2>1, LenProperties
<1>2. ASSUME NEW c \in 1 .. n
      PROVE  FlattenSeq(EachSidecar(c, q[c].interfaces)) \in BB
  BY EachSidecarTyped
<1> HIDE DEF BB, q, n
<1>3. e \in [1 .. n -> BB]
  BY <1>1, <1>2 DEF EachSidecars
<1> HIDE DEF e
<1>4. e \in Seq(BB) /\ Len(e) = n
  BY <1>1, <1>3, EachTyped
<1> QED
  BY <1>1, <1>4 DEF e, BB, B, q, n

\* One part of a row replaced changes what is flattened by that part.
LEMMA BesideReplaced ==
    ASSUME NEW q \in Seq(Seq(Seq(Byte))), NEW k \in 1 .. Len(q), NEW y \in Seq(Seq(Byte)),
           NEW p, p = [q EXCEPT ![k] = y]
    PROVE  Beside(Seq(Seq(Byte)), FlattenSeq(q), FlattenSeq(p), q[k], y)
<1> DEFINE B == Seq(Byte)
<1>1. q \in Seq(Seq(B)) /\ y \in Seq(B)
  OBVIOUS
<1> HIDE DEF B
<1>2. Beside(Seq(B), FlattenSeq(q), FlattenSeq(p), q[k], y)
  BY <1>1, FlattenReplaced
<1> QED
  BY <1>2 DEF B

\* The same, of a part of a part.
LEMMA BesideBoth ==
    ASSUME NEW S, NEW o, NEW n, NEW x, NEW y, Beside(Seq(S), o, n, x, y),
           NEW v \in Seq(S), NEW w \in Seq(S), Beside(Seq(S), x, y, v, w)
    PROVE  Beside(Seq(S), o, n, v, w)
<1> DEFINE B == Seq(S)
<1>1. PICK a, b \in B : o = (a \o x) \o b /\ n = (a \o y) \o b
  BY DEF Beside
<1>2. PICK c, d \in B : x = (c \o v) \o d /\ y = (c \o w) \o d
  BY DEF Beside
<1>3. ASSUME NEW g \in B
      PROVE  (a \o ((c \o g) \o d)) \o b = ((a \o c) \o g) \o (d \o b)
  <2> DEFINE m == c \o g
             l == a \o m
  <2>1. a \in Seq(S) /\ b \in Seq(S) /\ c \in Seq(S) /\ d \in Seq(S) /\ g \in Seq(S)
    BY <1>1, <1>2, <1>3
  <2>2. m \in Seq(S)
    BY <2>1, Chained
  <2> HIDE DEF m, B
  <2>3. l \in Seq(S)
    BY <2>1, <2>2, Chained
  <2>4. Regroups(a, m, d) /\ Regroups(a, c, g)
    BY <2>1, <2>2, Regrouping
  <2> HIDE DEF l
  <2>5. Regroups(l, d, b)
    BY <2>1, <2>3, Regrouping
  <2>6. a \o (m \o d) = l \o d
    BY <2>4 DEF Regroups, l
  <2>7. (l \o d) \o b = l \o (d \o b)
    BY <2>5 DEF Regroups
  <2>8. l = (a \o c) \o g
    BY <2>4 DEF Regroups, l, m
  <2> QED
    BY <2>6, <2>7, <2>8 DEF m
<1>4. v \in B /\ w \in B
  OBVIOUS
<1>5. o = ((a \o c) \o v) \o (d \o b) /\ n = ((a \o c) \o w) \o (d \o b)
  BY <1>1, <1>2, <1>3, <1>4
<1>6. a \o c \in B /\ d \o b \in B
  BY Chained
<1> HIDE DEF B
<1>7. Beside(B, o, n, v, w)
  BY <1>5, <1>6 DEF Beside
<1> QED
  BY <1>7 DEF B

\* A report at an interface changes the sidecars by its own.
LEMMA SidecarsBeside ==
    ASSUME NEW s, GoodSet(s), NEW c \in 1 .. Len(s.configurations),
           NEW i \in 1 .. Len(s.configurations[c].interfaces),
           FirstOne(s.configurations[c].interfaces, i),
           NEW r \in Seq(Byte), Len(r) < Word,
           NEW u, u = SetWith(s, c, i, r), GoodSet(u)
    PROVE  LET I == s.configurations[c].interfaces[i] IN
           Beside(Seq(Seq(Byte)), Sidecars(s), Sidecars(u), Sidecar(c, I), Sidecar(c, Reported(I, r)))
<1> DEFINE Q == s.configurations
           P == u.configurations
           q == Q[c].interfaces
           p == P[c].interfaces
           I == q[i]
           J == Reported(I, r)
           es == EachSidecar(c, q)
           ep == EachSidecar(c, p)
           x == FlattenSeq(es)
           y == FlattenSeq(ep)
           E == EachSidecars(Q)
           F == EachSidecars(P)
<1>1. /\ Q \in Seq(Configurations) /\ s \in DescriptorSets /\ Q[c] \in Configurations
      /\ c < 256 /\ c \in Nat \ {0} /\ GoodConfiguration(Q[c]) /\ q \in Seq(Interfaces)
      /\ DOMAIN Q = 1 .. Len(Q) /\ DOMAIN q = 1 .. Len(q) /\ GoodInterface(I)
  <2>1. Q \in Seq(Configurations) /\ s \in DescriptorSets
    BY DEF GoodSet, DescriptorSets
  <2>2. /\ c < 256 /\ c \in Nat \ {0} /\ GoodConfiguration(Q[c]) /\ q \in Seq(Interfaces)
        /\ DOMAIN Q = 1 .. Len(Q) /\ DOMAIN q = 1 .. Len(q) /\ GoodInterface(I)
    BY GoodParts
  <2>3. Q[c] \in Configurations
    BY <2>2 DEF GoodConfiguration
  <2> QED
    BY <2>1, <2>2, <2>3
<1>2. P = [Q EXCEPT ![c] = ConfigurationWith(Q[c], i, r)]
  BY <1>1 DEF SetWith, DescriptorSets
<1>3. P[c] = ConfigurationWith(Q[c], i, r) /\ DOMAIN P = DOMAIN Q
      /\ \A d \in DOMAIN Q : d # c => P[d] = Q[d]
  <2> HIDE DEF Q, P
  <2> QED
    BY <1>1, <1>2 DEF Q
<1>4. p = InterfacesWith(q, i, r)
  BY <1>1, <1>3 DEF ConfigurationWith, Configurations
<1>5. ep = [es EXCEPT ![i] = Sidecar(c, J)]
  <2>1. p = [q EXCEPT ![i] = J] /\ i \in DOMAIN q
    BY <1>1, <1>4 DEF InterfacesWith
  <2>2. es = [j \in DOMAIN q |-> Sidecar(c, q[j])] /\ ep = [j \in DOMAIN p |-> Sidecar(c, p[j])]
    BY DEF EachSidecar
  <2> HIDE DEF p, q, J, es, ep
  <2> QED
    BY <2>1, <2>2
<1>6. F = [E EXCEPT ![c] = y]
  <2>1. E = [d \in DOMAIN Q |-> FlattenSeq(EachSidecar(d, Q[d].interfaces))]
        /\ F = [d \in DOMAIN P |-> FlattenSeq(EachSidecar(d, P[d].interfaces))]
    BY DEF EachSidecars
  <2>2. y = FlattenSeq(EachSidecar(c, P[c].interfaces)) /\ c \in DOMAIN Q
    BY <1>1
  <2> HIDE DEF E, F, P, Q, y
  <2> QED
    BY <1>3, <2>1, <2>2
<1>7. E[c] = x
  BY <1>1 DEF EachSidecars
<1>8. /\ es \in Seq(Seq(Seq(Byte))) /\ Len(es) = Len(q) /\ es[i] = Sidecar(c, I)
  BY EachSidecarTyped
<1>9. y \in Seq(Seq(Byte))
  <2>1. c \in 1 .. Len(P)
    <3>1. Len(P) = Len(Q)
      <4>1. Q \in Seq(Configurations)
        BY <1>1
      <4>2. Len([Q EXCEPT ![c] = ConfigurationWith(Q[c], i, r)]) = Len(Q)
        <5> DEFINE l == ConfigurationWith(Q[c], i, r)
        <5> HIDE DEF l, Q
        <5>1. DOMAIN [Q EXCEPT ![c] = l] = DOMAIN Q /\ DOMAIN Q = 1 .. Len(Q) /\ Len(Q) \in Nat
          BY <4>1, LenProperties
        <5> QED
          BY <5>1 DEF l
      <4> QED
        BY <1>2, <4>2
    <3> QED
      BY <3>1
  <2> QED
    BY <2>1, EachSidecarTyped
<1>10. E \in Seq(Seq(Seq(Byte))) /\ Len(E) = Len(Q)
  BY EachSidecarsTyped
<1>11. Sidecar(c, J) \in Seq(Seq(Byte)) /\ Sidecar(c, I) \in Seq(Seq(Byte))
  <2>1. GoodInterface(J)
    BY <1>1, ReportedGood
  <2> QED
    BY <1>1, <2>1, OneSidecar
<1>12. Sidecars(s) = FlattenSeq(E) /\ Sidecars(u) = FlattenSeq(F)
  BY SidecarsAre
<1>13. c \in 1 .. Len(E) /\ i \in 1 .. Len(es)
  BY <1>8, <1>10
<1> DEFINE v == Sidecar(c, I)
           w == Sidecar(c, J)
<1> HIDE DEF v, w, I, J, E, F, es, ep
<1>14. ep = [es EXCEPT ![i] = w] /\ es[i] = v /\ v \in Seq(Seq(Byte)) /\ w \in Seq(Seq(Byte))
  BY <1>5, <1>8, <1>11 DEF v, w
<1>15. Beside(Seq(Seq(Byte)), x, y, v, w)
  BY <1>8, <1>13, <1>14, BesideReplaced
<1> HIDE DEF x, y
<1>16. Beside(Seq(Seq(Byte)), FlattenSeq(E), FlattenSeq(F), x, y)
  BY <1>6, <1>7, <1>9, <1>10, <1>13, BesideReplaced
<1>17. Beside(Seq(Seq(Byte)), FlattenSeq(E), FlattenSeq(F), v, w)
  <2> DEFINE B == Seq(Byte)
             f == FlattenSeq(E)
             g == FlattenSeq(F)
  <2> HIDE DEF B, f, g
  <2>1. v \in Seq(B) /\ w \in Seq(B) /\ Beside(Seq(B), x, y, v, w) /\ Beside(Seq(B), f, g, x, y)
    BY <1>14, <1>15, <1>16 DEF B, f, g
  <2>2. Beside(Seq(B), f, g, v, w)
    BY <2>1, BesideBoth
  <2> QED
    BY <2>2 DEF B, f, g
<1> QED
  BY <1>12, <1>17 DEF v, w, I, J, q, Q

\* w in the place of v: as many more as w has more.
AddUp(o, n, v, w) ==
    /\ Len(o) \in Nat /\ Len(n) \in Nat /\ Len(n) + Len(v) = Len(o) + Len(w)
    /\ Len(FlattenSeq(o)) \in Nat /\ Len(FlattenSeq(n)) \in Nat
    /\ Len(FlattenSeq(n)) + Len(FlattenSeq(v)) = Len(FlattenSeq(o)) + Len(FlattenSeq(w))

\* Parts of a sequence of sequences add up, and so do their lengths.
LEMMA BesideLengths ==
    ASSUME NEW o, NEW n, NEW v \in Seq(Seq(Byte)), NEW w \in Seq(Seq(Byte)),
           Beside(Seq(Seq(Byte)), o, n, v, w)
    PROVE  AddUp(o, n, v, w)
<1> DEFINE B == Seq(Byte)
           BB == Seq(B)
<1>1. PICK a, b \in BB : o = (a \o v) \o b /\ n = (a \o w) \o b
  BY DEF Beside
<1>2. v \in BB /\ w \in BB /\ a \in BB /\ b \in BB
  BY <1>1
<1>3. ASSUME NEW x \in BB
      PROVE  /\ Len((a \o x) \o b) = (Len(a) + Len(x)) + Len(b)
             /\ Len(FlattenSeq((a \o x) \o b)) =
                  (Len(FlattenSeq(a)) + Len(FlattenSeq(x))) + Len(FlattenSeq(b))
             /\ Len(x) \in Nat /\ Len(FlattenSeq(x)) \in Nat
             /\ Len(a) \in Nat /\ Len(FlattenSeq(a)) \in Nat
             /\ Len(b) \in Nat /\ Len(FlattenSeq(b)) \in Nat
  <2> DEFINE y == a \o x
  <2>1. y \in Seq(B)
    BY <1>2, <1>3, Chained
  <2>2. Len(y) = Len(a) + Len(x) /\ Len(y \o b) = Len(y) + Len(b)
    <3>1. Len(y) = Len(a) + Len(x)
      BY <1>2, <1>3, ConcatProperties
    <3> HIDE DEF y, BB
    <3>2. Len(y \o b) = Len(y) + Len(b)
      BY <1>2, <2>1, ConcatProperties DEF BB
    <3> QED
      BY <3>1, <3>2
  <2>3. Len(a) \in Nat /\ Len(x) \in Nat /\ Len(b) \in Nat
    BY <1>2, <1>3, LenProperties
  <2>4. FlattenSeq(y) = FlattenSeq(a) \o FlattenSeq(x)
    BY <1>2, <1>3, FlattenConcat
  <2>5. FlattenSeq(y \o b) = FlattenSeq(y) \o FlattenSeq(b)
    <3> HIDE DEF y
    <3> QED
      BY <1>2, <2>1, FlattenConcat
  <2> DEFINE f == FlattenSeq(a)
             g == FlattenSeq(x)
             h == FlattenSeq(b)
             k == FlattenSeq(y)
  <2>6. f \in Seq(Byte) /\ g \in Seq(Byte) /\ h \in Seq(Byte)
    BY <1>2, <1>3, FlattenTyped
  <2>7. k \in Seq(Byte)
    <3> HIDE DEF y
    <3> QED
      BY <2>1, FlattenTyped
  <2> HIDE DEF f, g, h, k, y, B, BB
  <2>8. Len(f \o g) = Len(f) + Len(g) /\ Len(f) \in Nat /\ Len(g) \in Nat
    BY <2>6, TwoLengths
  <2>9. Len(k \o h) = Len(k) + Len(h) /\ Len(h) \in Nat
    BY <2>6, <2>7, TwoLengths
  <2>10. Len(FlattenSeq(y \o b)) = (Len(f) + Len(g)) + Len(h)
    BY <2>4, <2>5, <2>8, <2>9 DEF f, g, h, k
  <2>11. Len(y \o b) = (Len(a) + Len(x)) + Len(b)
    BY <2>2
  <2> QED
    BY <2>3, <2>8, <2>9, <2>10, <2>11 DEF f, g, h, y
<1> HIDE DEF BB
<1> DEFINE la == Len(a)
           lb == Len(b)
           lv == Len(v)
           lw == Len(w)
           fa == Len(FlattenSeq(a))
           fb == Len(FlattenSeq(b))
           fv == Len(FlattenSeq(v))
           fw == Len(FlattenSeq(w))
<1>4. /\ Len(o) = (la + lv) + lb /\ Len(FlattenSeq(o)) = (fa + fv) + fb
      /\ la \in Nat /\ lb \in Nat /\ lv \in Nat /\ fa \in Nat /\ fb \in Nat /\ fv \in Nat
  BY <1>1, <1>2, <1>3
<1>5. /\ Len(n) = (la + lw) + lb /\ Len(FlattenSeq(n)) = (fa + fw) + fb
      /\ lw \in Nat /\ fw \in Nat
  BY <1>1, <1>2, <1>3
<1> DEFINE lo == Len(o)
           ln == Len(n)
           fo == Len(FlattenSeq(o))
           fn == Len(FlattenSeq(n))
<1> HIDE DEF la, lb, lv, lw, fa, fb, fv, fw
<1>6. lo = (la + lv) + lb /\ fo = (fa + fv) + fb /\ ln = (la + lw) + lb /\ fn = (fa + fw) + fb
  BY <1>4, <1>5
<1> HIDE DEF lo, ln, fo, fn
<1>7. /\ lo \in Nat /\ ln \in Nat /\ ln + lv = lo + lw
      /\ fo \in Nat /\ fn \in Nat /\ fn + fv = fo + fw
  BY <1>4, <1>5, <1>6
<1> QED
  BY <1>7 DEF lo, ln, fo, fn, lv, lw, fv, fw, AddUp

\* A report more, or another one: at most one sidecar more.
LEMMA SidecarsMore ==
    ASSUME NEW s, GoodSet(s), NEW c \in 1 .. Len(s.configurations),
           NEW i \in 1 .. Len(s.configurations[c].interfaces),
           FirstOne(s.configurations[c].interfaces, i),
           NEW r \in Seq(Byte), Len(r) < Word,
           NEW u, u = SetWith(s, c, i, r)
    PROVE  /\ Len(Sidecars(s)) \in Nat /\ Len(Sidecars(u)) \in Nat
           /\ Len(FlattenSeq(Sidecars(s))) \in Nat /\ Len(FlattenSeq(Sidecars(u))) \in Nat
           /\ \/ Len(Sidecars(u)) = Len(Sidecars(s))
              \/ /\ Len(Sidecars(u)) = Len(Sidecars(s)) + 1
                 /\ Len(FlattenSeq(Sidecars(u))) = Len(FlattenSeq(Sidecars(s))) + (8 + Len(r))
<1> DEFINE I == s.configurations[c].interfaces[i]
           J == Reported(I, r)
           v == Sidecar(c, I)
           w == Sidecar(c, J)
           o == Sidecars(s)
           n == Sidecars(u)
           x == w[1]
<1>1. GoodSet(u)
  BY SetWithGood
<1>2. Beside(Seq(Seq(Byte)), o, n, v, w)
  BY <1>1, SidecarsBeside
<1>3. c < 256 /\ c \in Nat \ {0} /\ GoodInterface(I)
  BY GoodParts
<1>4. GoodInterface(J) /\ J \in Interfaces /\ J.report = <<r>>
  BY <1>3, ReportedGood
<1> HIDE DEF I, J, o, n
<1>5. v \in Seq(Seq(Byte)) /\ Len(v) <= 1 /\ (I.report = <<>> => v = <<>>)
      /\ (I.report # <<>> => v = <<v[1]>>)
  BY <1>3, OneSidecar
<1>6. w \in Seq(Seq(Byte)) /\ w = <<x>> /\ Long(x, Byte, 8 + Len(r))
  <2>1. w \in Seq(Seq(Byte))
    BY <1>3, <1>4, OneSidecar
  <2>2. J.report # <<>> /\ J.report[1] = r /\ \A k \in DOMAIN J.report : Len(J.report[k]) < Word
    BY <1>4 DEF GoodInterface
  <2>3. w = <<x>> /\ Long(x, Byte, 8 + Len(J.report[1]))
    BY <1>3, <1>4, <2>2, SidecarRead
  <2> QED
    BY <2>1, <2>2, <2>3
<1> HIDE DEF v, w, x
<1>7. /\ Len(o) \in Nat /\ Len(n) \in Nat /\ Len(n) + Len(v) = Len(o) + Len(w)
      /\ Len(FlattenSeq(o)) \in Nat /\ Len(FlattenSeq(n)) \in Nat
      /\ Len(FlattenSeq(n)) + Len(FlattenSeq(v)) = Len(FlattenSeq(o)) + Len(FlattenSeq(w))
  <2>1. v \in Seq(Seq(Byte)) /\ w \in Seq(Seq(Byte))
    BY <1>5, <1>6
  <2>2. AddUp(o, n, v, w)
    BY <1>2, <2>1, BesideLengths
  <2> QED
    BY <2>2 DEF AddUp
<1>8. Len(w) = 1 /\ Len(FlattenSeq(w)) = 8 + Len(r)
  <2> DEFINE B == Seq(Byte)
  <2>1. x \in B /\ Len(x) = 8 + Len(r)
    BY <1>6 DEF Long
  <2> HIDE DEF B
  <2>2. FlattenSeq(<<x>>) = x
    BY <2>1, FlattenOne
  <2>3. Len(<<x>>) = 1
    OBVIOUS
  <2> QED
    BY <1>6, <2>1, <2>2, <2>3
<1>9. Len(r) \in Nat
  BY LenProperties
<1> DEFINE lo == Len(o)
           ln == Len(n)
           fo == Len(FlattenSeq(o))
           fn == Len(FlattenSeq(n))
           lr == Len(r)
<1>10. CASE I.report = <<>>
  <2>1. v = <<>> /\ Len(<<>>) = 0
    BY <1>5, <1>10
  <2>2. Len(v) = 0 /\ Len(FlattenSeq(v)) = 0
    BY <2>1, FlattenEmpty
  <2>3. lo \in Nat /\ ln \in Nat /\ fo \in Nat /\ fn \in Nat /\ lr \in Nat
        /\ ln + 0 = lo + 1 /\ fn + 0 = fo + (8 + lr)
    BY <1>7, <1>8, <1>9, <2>2
  <2> HIDE DEF lo, ln, fo, fn, lr
  <2>4. ln = lo + 1 /\ fn = fo + (8 + lr)
    BY <2>3
  <2> QED
    BY <2>3, <2>4 DEF lo, ln, fo, fn, lr, o, n
<1>11. CASE I.report # <<>>
  <2>1. v = <<v[1]>>
    BY <1>5, <1>11
  <2> DEFINE h == v[1]
  <2>2. v = <<h>>
    BY <2>1
  <2> HIDE DEF h
  <2>3. Len(v) = 1
    BY <2>2
  <2>4. lo \in Nat /\ ln \in Nat /\ ln + 1 = lo + 1
    BY <1>7, <1>8, <2>3
  <2> HIDE DEF lo, ln
  <2>5. ln = lo
    BY <2>4
  <2> QED
    BY <1>7, <2>4, <2>5 DEF lo, ln, o, n
<1> QED
  BY <1>10, <1>11

\* What was found is the first with that setting.
LEMMA FirstIs ==
    ASSUME NEW q, NEW setting, Len(q) \in Nat, NEW i, i = FirstWith(q, setting), i # 0
    PROVE  /\ i \in 1 .. Len(q) /\ SubSeq(q[i].fields, 1, 2) = setting
           /\ \A j \in 1 .. i - 1 : SubSeq(q[j].fields, 1, 2) # setting
<1> DEFINE n == Len(q)
           I == {j \in 1 .. n : SubSeq(q[j].fields, 1, 2) = setting}
<1>1. I # {} /\ i = Min(I)
  BY DEF FirstWith
<1>2. n \in Nat
  OBVIOUS
<1> HIDE DEF n
<1>3. I \in SUBSET Nat
  BY <1>2
<1>4. I \in SUBSET (1 .. n) /\ \A j \in 1 .. n : j \in I <=> SubSeq(q[j].fields, 1, 2) = setting
  OBVIOUS
<1> HIDE DEF I
<1>5. \E x \in I : \A y \in I : x =< y
  BY <1>1, <1>3, MinExists
<1>6. i \in I /\ \A y \in I : i <= y
  BY <1>1, <1>5 DEF Min
<1>7. \A j \in 1 .. i - 1 : j \in 1 .. n /\ j \notin I
  BY <1>2, <1>4, <1>6
<1>8. i \in 1 .. n /\ SubSeq(q[i].fields, 1, 2) = setting
  BY <1>4, <1>6
<1> QED
  BY <1>4, <1>7, <1>8 DEF n

\* The report of a sidecar: the bytes that it says.
LEMMA ReportIs ==
    ASSUME TypeInv, offset + 8 <= Len(bytes), offset + 8 + U16At(offset + 7) <= Len(bytes),
           NEW r, r = SubSeq(bytes, offset + 9, offset + 8 + U16At(offset + 7))
    PROVE  /\ r \in Seq(Byte) /\ Len(r) = U16At(offset + 7) /\ Len(r) \in Nat /\ Len(r) < Word
           /\ offset \in Nat
<1> DEFINE size == U16At(offset + 7)
           end == offset + 8 + size
<1>1. offset \in Nat /\ Len(bytes) \in Nat
  BY DEF TypeInv, WhileDecoding, WithinPayload
<1>2. size \in Nat /\ size < Word
  <2>1. offset + 7 \in Nat \ {0} /\ (offset + 7) + 1 <= Len(bytes)
    BY <1>1
  <2> QED
    BY <2>1, U16Typed DEF TypeInv
<1>3. end <= Len(bytes) /\ r = SubSeq(bytes, offset + 9, end)
  OBVIOUS
<1> HIDE DEF size
<1>4. r \in Seq(Byte) /\ Len(r) = size
  <2>1. CASE size = 0
    <3>1. offset + 9 > end
      BY <1>1, <2>1
    <3>2. r = <<>>
      BY <1>1, <1>3, <3>1, <2>1 DEF TypeInv, WhileDecoding
    <3>3. <<>> \in Seq(Byte) /\ Len(<<>>) = 0
      OBVIOUS
    <3> QED
      BY <2>1, <3>2, <3>3, Zenon
  <2>2. CASE size # 0
    <3>1. /\ offset + 9 \in Nat \ {0} /\ end \in Nat /\ offset + 9 <= end
          /\ end - (offset + 9) + 1 = size
      BY <1>1, <1>2, <2>2
    <3> HIDE DEF end
    <3>2. r \in Seq(Byte) /\ Len(r) = end - (offset + 9) + 1
      BY <1>1, <1>3, <3>1, PartTyped DEF TypeInv
    <3> QED
      BY <3>1, <3>2
  <2> QED
    BY <2>1, <2>2
<1> QED
  BY <1>1, <1>2, <1>4 DEF size

\* The interface that a sidecar names is the first with its setting.
LEMMA TargetIs ==
    ASSUME TypeInv, GoodSet(set), TakeSidecar,
           NEW c, c = Field(1) + 1, NEW i, i = Target
    PROVE  /\ c \in 1 .. Len(set.configurations)
           /\ i \in 1 .. Len(set.configurations[c].interfaces)
           /\ FirstOne(set.configurations[c].interfaces, i)
<1> DEFINE n == Len(set.configurations)
<1>1. /\ offset + 8 <= Len(bytes) /\ Field(1) < n /\ Target # 0
  BY DEF TakeSidecar, SidecarFits
<1>2. Field(1) \in Nat
  <2>1. offset \in Nat /\ Len(bytes) \in Nat
    BY DEF TypeInv, WhileDecoding, WithinPayload
  <2>2. offset + 1 <= Len(bytes)
    BY <1>1, <2>1
  <2>3. Field(1) \in Byte
    BY <2>2, FieldTyped DEF TypeInv
  <2> QED
    BY <2>3 DEF Byte
<1>3. n \in Nat
  <2>1. set.configurations \in Seq(Configurations)
    BY DEF GoodSet, DescriptorSets
  <2> QED
    BY <2>1, LenProperties
<1>4. c \in 1 .. n
  <2> HIDE DEF n, Field
  <2> QED
    BY <1>1, <1>2, <1>3
<1> DEFINE q == set.configurations[c].interfaces
           setting == <<Field(2), Field(3)>>
<1>5. q \in Seq(Interfaces)
  BY <1>4, GoodParts
<1>6. i = FirstWith(q, setting) /\ i # 0
  BY <1>1, TargetFirst
<1>7. Len(q) \in Nat
  BY <1>5, LenProperties
<1> HIDE DEF q, setting, n
<1>8. /\ i \in 1 .. Len(q) /\ SubSeq(q[i].fields, 1, 2) = setting
      /\ \A j \in 1 .. i - 1 : SubSeq(q[j].fields, 1, 2) # setting
  BY <1>6, <1>7, FirstIs
<1>9. FirstOne(q, i)
  BY <1>8 DEF FirstOne, Setting
<1> QED
  BY <1>4, <1>8, <1>9 DEF q, n

\* As many sidecars as were taken, or fewer.
LEMMA OneSidecarMore ==
    ASSUME NEW u \in Nat, NEW l \in Nat, l > 0, NEW a \in Nat, NEW b \in Nat, u - l >= a,
           NEW f \in Nat, NEW g \in Nat, NEW o \in Nat, NEW z \in Nat, NEW r \in Nat,
           u - l = a => o = z + f,
           b = a \/ (b = a + 1 /\ g = f + (8 + r)),
           NEW p, p = o + 8 + r, NEW m, m = l - 1
    PROVE  u - m >= b /\ (u - m = b => p = z + g)
OBVIOUS

\* A sidecar: its eight bytes and its report, if its interface had none
\* (lib.rs:978-1010).
LEMMA SidecarMeasured ==
    ASSUME TypeInv, Measured, TakeSidecar
    PROVE  Measured'
<1> DEFINE c == Field(1) + 1
           i == Target
           size == U16At(offset + 7)
           r == SubSeq(bytes, offset + 9, offset + 8 + size)
           u == set'
<1>1. /\ pc = "sidecars" /\ pc' = "sidecars" /\ left > 0 /\ left' = left - 1 /\ bytes' = bytes
      /\ offset' = offset + 8 + size
      /\ offset + 8 <= Len(bytes) /\ offset + 8 + U16At(offset + 7) <= Len(bytes)
  BY DEF TakeSidecar, SidecarFits
<1>2. SidecarsMeasured
  BY <1>1 DEF Measured
<1>3. GoodSet(set)
  BY <1>2 DEF SidecarsMeasured
<1>4. /\ r \in Seq(Byte) /\ Len(r) = size /\ Len(r) \in Nat /\ Len(r) < Word /\ offset \in Nat
  BY <1>1, ReportIs
<1>5. set' = [set EXCEPT !.configurations[c].interfaces[i].report = <<r>>]
  BY DEF TakeSidecar
<1>6. /\ c \in 1 .. Len(set.configurations)
      /\ i \in 1 .. Len(set.configurations[c].interfaces)
      /\ FirstOne(set.configurations[c].interfaces, i)
  BY <1>3, TargetIs
<1> HIDE DEF c, i, r
<1>7. u = SetWith(set, c, i, r)
  BY <1>5, SetWithIs
<1> HIDE DEF u
<1>8. GoodSet(u) /\ Start(u) = Start(set)
  <2>1. r \in Seq(Byte) /\ Len(r) < Word
    BY <1>4
  <2>2. GoodSet(u) /\ Start(u) = Start(set) /\ Len(u.configurations) = Len(set.configurations)
    BY <1>3, <2>1, <1>6, <1>7, SetWithGood, SMTT(30)
  <2> QED
    BY <2>2
<1> DEFINE a == Len(Sidecars(set))
           b == Len(Sidecars(u))
           f == Len(FlattenSeq(Sidecars(set)))
           g == Len(FlattenSeq(Sidecars(u)))
           z == Start(set)
           t == U16At(7)
           k == Len(r)
<1>9. /\ a \in Nat /\ b \in Nat /\ f \in Nat /\ g \in Nat
      /\ b = a \/ (b = a + 1 /\ g = f + (8 + k))
  BY <1>3, <1>4, <1>6, <1>7, SidecarsMore
<1>10. t \in Nat /\ t' = t /\ left \in Nat
  <2>1. 7 \in Nat \ {0} /\ 7 + 1 <= Len(bytes)
    <3>1. Len(bytes) >= 26 /\ Len(bytes) \in Nat
      BY <1>1 DEF TypeInv, HasHeader, WhileDecoding
    <3> QED
      BY <3>1
  <2>2. t \in Nat
    BY <2>1, U16Typed DEF TypeInv
  <2>3. left \in Nat
    BY DEF TypeInv, Typed
  <2> QED
    BY <1>1, <2>2, <2>3 DEF U16At
<1>11. z \in Nat
  BY <1>3, StartTyped
<1>12. t - left >= a /\ (t - left = a => offset = z + f)
  BY <1>2 DEF SidecarsMeasured
<1>13. offset' = offset + 8 + k /\ k \in Nat
  BY <1>1, <1>4
<1> DEFINE p == offset'
           m == left'
<1>14. p = offset + 8 + k /\ m = left - 1
  BY <1>1, <1>13
<1>15. t' = t
  BY <1>10
<1> HIDE DEF a, b, f, g, z, t, k, p, m
<1>16. t - m >= b /\ (t - m = b => p = z + g)
  BY <1>1, <1>4, <1>9, <1>10, <1>11, <1>12, <1>13, <1>14, OneSidecarMore
<1>17. SidecarsMeasured'
  <2>1. U16At(7)' = t
    BY <1>15 DEF t
  <2>2. GoodSet(set')
    BY <1>8 DEF u
  <2>3. Start(set') = z
    BY <1>8 DEF u, z
  <2>4. b = Len(Sidecars(set')) /\ g = Len(FlattenSeq(Sidecars(set')))
    BY DEF b, g, u
  <2> QED
    BY <1>16, <2>1, <2>2, <2>3, <2>4 DEF SidecarsMeasured, p, m
<1> QED
  BY <1>1, <1>17 DEF Measured

\* Accept: all sidecars have been taken.
LEMMA AcceptMeasured ==
    ASSUME TypeInv, Measured, Accept
    PROVE  Measured'
<1>1. /\ pc = "sidecars" /\ left = 0 /\ pc' = "done" /\ accepted' = (offset = Len(bytes))
      /\ bytes' = bytes /\ set' = set /\ offset' = offset /\ left' = left
  BY DEF Accept, parser
<1>2. SidecarsMeasured
  BY <1>1 DEF Measured
<1>3. SidecarsMeasured'
  BY <1>1, <1>2 DEF SidecarsMeasured, U16At
<1>4. accepted' => offset' = Len(bytes')
  BY <1>1
<1> QED
  BY <1>1, <1>3, <1>4 DEF Measured

\* So every step of decode keeps the measure.
LEMMA DecodeMeasured ==
    ASSUME TypeInv, NothingOpen, Measured, Decode
    PROVE  Measured'
<1>1. CASE RejectHeader \/ RejectConfiguration \/ RejectDescriptor \/ RejectBody \/ RejectSidecar
  <2>1. pc # "done" /\ pc' = "done" /\ accepted' = accepted
    BY <1>1 DEF RejectHeader, RejectConfiguration, RejectDescriptor, RejectBody, RejectSidecar, Reject
  <2>2. ~accepted'
    BY <2>1 DEF TypeInv, WhileDecoding
  <2> QED
    BY <2>1, <2>2 DEF Measured
<1>2. CASE DecodeHeader
  BY <1>2, HeaderMeasured
<1>3. CASE OpenConfiguration
  BY <1>3, OpenMeasured
<1>4. CASE TakeInterface
  BY <1>4, InterfaceMeasured
<1>5. CASE TakeEndpoint
  BY <1>5, EndpointMeasured
<1>6. CASE TakeExtra
  BY <1>6, ExtraMeasured
<1>7. CASE CloseConfiguration
  BY <1>7, CloseMeasured
<1>8. CASE ConfigurationsEnd
  BY <1>8, EndMeasured
<1>9. CASE TakeSidecar
  BY <1>9, SidecarMeasured
<1>10. CASE Accept
  BY <1>10, AcceptMeasured
<1> QED
  BY <1>1, <1>2, <1>3, <1>4, <1>5, <1>6, <1>7, <1>8, <1>9, <1>10 DEF Decode

-----------------------------------------------------------------------------
\* The history is of one set, or of none.
OneFirst == first # <<>> => first = <<first[1]>>

\* The invariant of the theorems on what a payload decodes to.
IInv == TypeInv /\ NothingOpen /\ Measured /\ Tracking /\ OneFirst

\* The inductive invariant holds at first,
LEMMA InitIInv == Init => IInv
<1> SUFFICES ASSUME Init
             PROVE  IInv
  OBVIOUS
<1>1. TypeInv /\ NothingOpen /\ Tracking
  BY InitTypeInv, InitNothingOpen, InitTracking
<1>2. Measured /\ OneFirst
  BY DEF Init, Measured, OneFirst
<1> QED
  BY <1>1, <1>2 DEF IInv

\* and every step keeps it.
LEMMA NextIInv == IInv /\ [Next]_vars => IInv'
<1> SUFFICES ASSUME IInv, [Next]_vars
             PROVE  IInv'
  OBVIOUS
<1>1. TypeInv /\ NothingOpen /\ Measured /\ Tracking /\ OneFirst
  BY DEF IInv
<1>2. TypeInv'
  BY <1>1, NextTypeInv
<1>3. NothingOpen'
  BY <1>1, NextNothingOpen DEF TypeInv
<1>4. CASE Decode
  <2>1. Measured' /\ Tracking'
    BY <1>1, <1>4, DecodeMeasured, DecodeTracking
  <2>2. first' = first
    BY <1>4 DEF Decode, DecodeHeader, RejectHeader, OpenConfiguration, RejectConfiguration,
         TakeInterface, TakeEndpoint, TakeExtra, TakesDescriptor, RejectDescriptor,
         CloseConfiguration, RejectBody, ConfigurationsEnd, TakeSidecar, RejectSidecar,
         Accept, Reject
  <2>3. OneFirst'
    BY <1>1, <2>2 DEF OneFirst
  <2> QED
    BY <1>2, <1>3, <2>1, <2>3 DEF IInv
<1>5. CASE Again
  <2>1. pc = "done" /\ accepted /\ pc' = "header"
    BY <1>5 DEF Again
  <2>2. GoodSet(set)
    BY <1>1, <2>1 DEF Measured, SidecarsMeasured
  <2>3. Tracking'
    BY <1>5, <2>2, AgainTracking
  <2>4. Measured'
    BY <2>1 DEF Measured
  <2>5. OneFirst'
    <3>1. first' = <<set>>
      BY <1>5 DEF Again
    <3> QED
      BY <3>1 DEF OneFirst
  <2> QED
    BY <1>2, <1>3, <2>3, <2>4, <2>5 DEF IInv
<1>6. CASE UNCHANGED vars
  <2>1. /\ input' = input /\ bytes' = bytes /\ pc' = pc /\ offset' = offset /\ set' = set
        /\ config' = config /\ current' = current /\ bodyEnd' = bodyEnd /\ left' = left
        /\ accepted' = accepted /\ first' = first
    BY <1>6 DEF vars, parser
  <2>2. Measured'
    BY <1>1, <2>1 DEF Measured, BodyMeasured, SidecarsMeasured, U16At
  <2>3. Tracking'
    <3> SUFFICES ASSUME NEW s, Origin(s)'
                 PROVE  (GoodSet(s) /\ Tracks(s) /\ LengthSays(s))'
      BY DEF Tracking
    <3>1. GoodSet(s) /\ Tracks(s) /\ LengthSays(s)
      BY <1>1, <2>1 DEF Tracking, Origin
    <3>2. Tracks(s)'
      BY <2>1, <3>1 DEF Tracks, AtHeader, AtConfiguration, InConfiguration, AtSidecar, AtEnd,
                        Counted, U16At
    <3>3. LengthSays(s)'
      BY <2>1, <3>1 DEF LengthSays
    <3> QED
      BY <3>1, <3>2, <3>3
  <2>4. OneFirst'
    BY <1>1, <2>1 DEF OneFirst
  <2> QED
    BY <1>2, <1>3, <2>2, <2>3, <2>4 DEF IInv
<1> QED
  BY <1>4, <1>5, <1>6 DEF Next

-----------------------------------------------------------------------------
\* report_descriptor_bytes: the first interface with the number.
FirstNumbered(q, number) ==
    LET I == {j \in 1 .. Len(q) : q[j].fields[1] = number}
    IN  IF I # {} THEN Min(I) ELSE 0

\* The client looks for the first interface with a number (client
\* session.rs:257-281).
LEMMA ReportDescriptorIs ==
    ASSUME NEW s, NEW c, NEW number
    PROVE  LET q == s.configurations[c].interfaces
               found == FirstNumbered(q, number)
           IN  ReportDescriptor(s, c, number) = IF found = 0 THEN <<>> ELSE q[found].report
BY DEF ReportDescriptor, SelectInSeq, FirstNumbered

\* An interface that has its number to itself is the one that is found.
LEMMA NumberFound ==
    ASSUME NEW q, Len(q) \in Nat, NEW i \in 1 .. Len(q),
           \A j \in (1 .. Len(q)) \ {i} : q[j].fields[1] # q[i].fields[1]
    PROVE  FirstNumbered(q, q[i].fields[1]) = i
<1> DEFINE I == {j \in 1 .. Len(q) : q[j].fields[1] = q[i].fields[1]}
<1>1. I = {i}
  OBVIOUS
<1>2. I # {}
  BY <1>1
<1>3. FirstNumbered(q, q[i].fields[1]) = IF I # {} THEN Min(I) ELSE 0
  BY DEF FirstNumbered
<1> HIDE DEF I
<1>4. Min(I) = i
  <2>1. i <= i
    OBVIOUS
  <2>2. \A x : (x \in I /\ \A y \in I : x <= y) <=> x = i
    BY <1>1, <2>1
  <2> QED
    BY <2>2 DEF Min
<1> QED
  BY <1>2, <1>3, <1>4

\* It finds the report that was sent, if its interface has its number to
\* itself.
LEMMA ReportsFound ==
    ASSUME NEW s, GoodSet(s), NEW c \in DOMAIN s.configurations,
           NEW i \in DOMAIN s.configurations[c].interfaces,
           \A j \in DOMAIN s.configurations[c].interfaces \ {i} :
                s.configurations[c].interfaces[j].fields[1] # s.configurations[c].interfaces[i].fields[1]
    PROVE  ReportDescriptor(s, c, s.configurations[c].interfaces[i].fields[1])
             = s.configurations[c].interfaces[i].report
<1> DEFINE q == s.configurations[c].interfaces
           number == q[i].fields[1]
<1>1. q \in Seq(Interfaces)
  <2>1. s.configurations \in Seq(Configurations)
    BY DEF GoodSet, DescriptorSets
  <2>2. c \in 1 .. Len(s.configurations)
    BY <2>1, LenProperties
  <2> QED
    BY <2>2, GoodParts
<1>2. Len(q) \in Nat /\ DOMAIN q = 1 .. Len(q) /\ i \in 1 .. Len(q)
  BY <1>1, LenProperties
<1>3. \A j \in (1 .. Len(q)) \ {i} : q[j].fields[1] # q[i].fields[1]
  BY <1>2
<1>4. FirstNumbered(q, number) = i /\ i # 0
  <2> HIDE DEF q
  <2> QED
    BY <1>2, <1>3, NumberFound
<1>5. ReportDescriptor(s, c, number) =
        IF FirstNumbered(q, number) = 0 THEN <<>> ELSE q[FirstNumbered(q, number)].report
  BY ReportDescriptorIs
<1> HIDE DEF q, number
<1>6. ReportDescriptor(s, c, number) = q[i].report
  BY <1>4, <1>5
<1> QED
  BY <1>6 DEF q, number

\* The length of an encoding, part by part.
LEMMA EncodedLength ==
    ASSUME NEW s, GoodSet(s)
    PROVE  Len(Encode(s)) = Start(s) + Len(FlattenSeq(Sidecars(s)))
<1> DEFINE h == SetHead(s)
           f == FlattenSeq(EachConfiguration(s.configurations))
           g == FlattenSeq(Sidecars(s))
           hf == h \o f
<1>1. Long(h, Byte, 26)
  BY LaterAll
<1>2. f \in Seq(Byte)
  <2>1. EachConfiguration(s.configurations) \in Seq(Seq(Byte))
    BY EachConfigurationTyped
  <2> QED
    BY <2>1, FlattenTyped
<1>3. g \in Seq(Byte)
  BY GoodSidecars
<1>4. Encode(s) = hf \o g
  BY EncodeIs
<1>5. Start(s) = 26 + Len(f)
  BY DEF Start
<1> HIDE DEF h, f, g
<1>6. hf \in Seq(Byte) /\ Len(hf) = Len(h) + Len(f) /\ Len(h) = 26 /\ h \in Seq(Byte)
  BY <1>1, <1>2, Chained, TwoLengths DEF Long
<1> HIDE DEF hf
<1>7. Len(hf \o g) = Len(hf) + Len(g)
  BY <1>3, <1>6, TwoLengths
<1> DEFINE l == Len(Encode(s))
           z == Start(s)
           a == Len(f)
           b == Len(g)
<1>8. l = (26 + a) + b /\ z = 26 + a
  BY <1>4, <1>5, <1>6, <1>7
<1> HIDE DEF l, z, a, b
<1>9. l = z + b
  BY <1>8
<1> QED
  BY <1>9 DEF l, z, b, g

-----------------------------------------------------------------------------
\* Whatever arrives, what decode has taken ends within the payload, what it
\* counts fits in two bytes, and no more than one configuration and one
\* interface are open; and whatever set it accepts is one that encode turns
\* into bytes, or refuses, so that the same holds of the second decode too
\* (lib.rs:862-938, :940-1022, :1150-1221, :1790-1822).
THEOREM DescriptorTypeCorrect == Spec => []TypeOK
<1>1. TypeInv => TypeOK
  <2> SUFFICES ASSUME TypeInv
               PROVE  TypeOK
    OBVIOUS
  <2>1. left \in Nat /\ U16Max \in Nat /\ left <= U16Max
    BY DEF TypeInv, Typed, Word, U16Max
  <2>2. WithinPayload /\ bytes \in Seq(0 .. 255) /\ pc \in Parts
    BY DEF TypeInv, WhileDecoding
  <2>3. Len(config) <= 1 /\ Len(current) <= Len(config) /\ Len(first) <= 1
    BY DEF TypeInv, Typed
  <2>4. accepted \in BOOLEAN
    BY DEF TypeInv, WhileDecoding
  <2>5. left \in 0 .. U16Max
    BY <2>1
  <2> QED
    BY <2>2, <2>3, <2>4, <2>5, Zenon DEF TypeOK
<1> QED
  BY InitTypeInv, NextTypeInv, <1>1, PTL DEF Spec

\* Each step of decode takes bytes or goes on to another part, so that it
\* returns whatever arrives (lib.rs:1164-1204, :1807-1822).
THEOREM Advances == Spec => DecodeAdvances
<1>1. TypeInv => [pc' = pc => offset' > offset]_vars \/ ~[Next]_vars
  <2> SUFFICES ASSUME TypeInv, [Next]_vars
               PROVE  [pc' = pc => offset' > offset]_vars
    OBVIOUS
  <2>1. CASE Decode
    BY <2>1, DecodeStep DEF TypeInv
  <2>2. CASE Again
    BY <2>2 DEF Again
  <2>3. CASE UNCHANGED vars
    BY <2>3
  <2> QED
    BY <2>1, <2>2, <2>3 DEF Next
<1> QED
  BY InitTypeInv, NextTypeInv, <1>1, PTL DEF Spec, DecodeAdvances

\* decode gives back every set that can be sent, every report with the interface
\* it belongs to, alternate settings and empty sets included, and the client
\* that looks a report up finds the one that was sent, if its interface has its
\* number to itself (lib.rs:862-938, :940-1022, client session.rs:257-281).
THEOREM RoundTripCorrect == Spec => []RoundTrip
<1>1. IInv => RoundTrip
  <2> SUFFICES ASSUME IInv, Decoded, input.kind = "whole"
               PROVE  /\ accepted /\ set = input.set
                      /\ \A c \in DOMAIN set.configurations :
                          LET sent == input.set.configurations[c].interfaces IN
                          \A i \in DOMAIN sent :
                              (\A j \in DOMAIN sent \ {i} : sent[j].fields[1] # sent[i].fields[1])
                                  => ReportDescriptor(set, c, sent[i].fields[1]) = sent[i].report
    BY DEF RoundTrip
  <2> DEFINE s == input.set
  <2>1. first = <<>> /\ pc = "done"
    BY DEF Decoded
  <2>2. Origin(s)
    BY <2>1 DEF Origin
  <2>3. GoodSet(s) /\ Tracks(s) /\ LengthSays(s)
    BY <2>2 DEF IInv, Tracking
  <2>4. Len(bytes) = Total(s)
    BY <2>1, <2>3 DEF LengthSays
  <2>5. accepted /\ set = s
    BY <2>1, <2>3, <2>4 DEF Tracks, AtEnd
  <2> SUFFICES ASSUME NEW c \in DOMAIN s.configurations,
                      NEW i \in DOMAIN s.configurations[c].interfaces,
                      \A j \in DOMAIN s.configurations[c].interfaces \ {i} :
                        s.configurations[c].interfaces[j].fields[1]
                          # s.configurations[c].interfaces[i].fields[1]
               PROVE  ReportDescriptor(s, c, s.configurations[c].interfaces[i].fields[1])
                        = s.configurations[c].interfaces[i].report
    BY <2>5
  <2> HIDE DEF s
  <2> QED
    BY <2>3, ReportsFound
<1> QED
  BY InitIInv, NextIInv, <1>1, PTL DEF Spec

\* No byte is missing from a set that is accepted and none is left over: the
\* encoding of a set that can be sent, cut anywhere or gone on from, is refused,
\* and any other payload that is accepted has the length of the encoding of its
\* set, unless two sidecars were for one interface (lib.rs:941-943, :1012-1016,
\* :1164-1221, :1790-1805).
THEOREM WholeOrNothingCorrect == Spec => []WholeOrNothing
<1>1. IInv => WholeOrNothing
  <2> SUFFICES ASSUME IInv, Decoded, accepted
               PROVE  /\ input.kind \notin {"cut", "longer"}
                      /\ U16At(7) = Len(Sidecars(set)) => Len(bytes) = Len(Encode(set))
    BY DEF WholeOrNothing
  <2>1. first = <<>> /\ pc = "done"
    BY DEF Decoded
  <2>2. input.kind \notin {"cut", "longer"}
    <3> SUFFICES ASSUME input.kind \in {"cut", "longer"}
                 PROVE  FALSE
      OBVIOUS
    <3> DEFINE s == input.set
    <3>1. Origin(s)
      BY <2>1 DEF Origin
    <3>2. GoodSet(s) /\ Tracks(s) /\ LengthSays(s)
      BY <3>1 DEF IInv, Tracking
    <3>3. Len(bytes) = Total(s)
      BY <2>1, <3>2 DEF Tracks, AtEnd
    <3> DEFINE l == Len(bytes)
               t == Total(s)
    <3>4. l = t /\ (l < t \/ l > t)
      BY <2>1, <3>2, <3>3 DEF LengthSays
    <3>5. l \in Nat
      BY DEF IInv, TypeInv, WhileDecoding
    <3> HIDE DEF l, t
    <3> QED
      BY <3>4, <3>5
  <2>3. ASSUME U16At(7) = Len(Sidecars(set))
        PROVE  Len(bytes) = Len(Encode(set))
    <3>1. SidecarsMeasured /\ left = 0 /\ offset = Len(bytes)
      BY <2>1 DEF IInv, Measured
    <3> DEFINE u == U16At(7)
               z == Start(set) + Len(FlattenSeq(Sidecars(set)))
    <3>2. GoodSet(set) /\ (u - left = Len(Sidecars(set)) => offset = z)
      BY <3>1 DEF SidecarsMeasured
    <3>3. u \in Nat /\ u = Len(Sidecars(set))
      BY <2>3, <3>2, GoodSidecars
    <3>4. Len(Encode(set)) = z
      BY <3>2, EncodedLength
    <3> HIDE DEF u, z
    <3>5. u - left = u
      BY <3>1, <3>3
    <3> QED
      BY <3>1, <3>2, <3>3, <3>4, <3>5
  <2> QED
    BY <2>2, <2>3
<1> QED
  BY InitIInv, NextIInv, <1>1, PTL DEF Spec

\* What decode accepts, whatever arrived, encode accepts as well, and it decodes
\* to the same set again: the two agree on every count and length
\* (lib.rs:862-885, :940-1022).
THEOREM StableCorrect == Spec => []Stable
<1>1. IInv => Stable
  <2> SUFFICES ASSUME IInv, pc = "done", first # <<>>
               PROVE  accepted /\ <<set>> = first
    BY DEF Stable
  <2>1. PICK s : first = <<s>>
    BY DEF IInv, OneFirst
  <2>2. GoodSet(s) /\ Tracks(s) /\ LengthSays(s)
    BY <2>1 DEF IInv, Tracking, Origin
  <2>3. Len(bytes) = Total(s)
    BY <2>1, <2>2 DEF LengthSays
  <2>4. accepted /\ set = s
    BY <2>2, <2>3 DEF Tracks, AtEnd
  <2> QED
    BY <2>1, <2>4
<1> QED
  BY InitIInv, NextIInv, <1>1, PTL DEF Spec
=============================================================================
