------------------------ MODULE ContentCapacityProofs ------------------------
(***************************************************************************)
(* The directory of a content store stays within its capacity, while local *)
(* tools and peers put and delete: used_space and put of content.rs.       *)
(* Whoever writes is alone in the directory (ContentTransferProofs), so    *)
(* what it found free when it reserved is still free when it has written.  *)
(***************************************************************************)
EXTENDS ContentTransferProofs, FiniteSetTheorems

\* The bytes of the other contents.
Others(c) == {b \in Bytes : b[2] # c}

\* What a writer reserved is free: all of its blob fits beside the other contents.
Reserved(x) ==
  pc[x] = "write" => Cardinality(Others(call[x].content)) + Size[call[x].content] <= Capacity

\* The inductive invariant, on top of StoreInv.
Room == IsFiniteSet(Bytes) /\ CapacityRespected /\ \A x \in Callers : Reserved(x)


-----------------------------------------------------------------------------
(* The bytes of the directory *)

\* A file of n bytes has n bytes (used_space).
LEMMA FileFinite ==
  ASSUME NEW name, NEW c, NEW n \in Nat
  PROVE  IsFiniteSet(File(name, c, n)) /\ Cardinality(File(name, c, n)) = n
<1> DEFINE F == File(name, c, n)
           f == [i \in 1 .. n |-> <<name, c, i>>]
<1>1. f \in [1 .. n -> F]
  BY Zenon DEF File
<1>2. \A i, j \in 1 .. n : f[i] = f[j] => i = j
  BY Zenon
<1>3. \A b \in F : \E i \in 1 .. n : f[i] = b
  BY Zenon DEF File
<1>4. ExistsBijection(1 .. n, F)
  BY <1>1, <1>2, <1>3, Zenon DEF ExistsBijection, Bijection, Injection, Surjection, IsInjective
<1> QED
  BY <1>4, FS_NatBijection, FS_CountingElements, Zenon

\* No temporary file has no bytes.
LEMMA NoFile ==
  ASSUME NEW name, NEW c
  PROVE  File(name, c, NoTemporary) = {} /\ File(name, c, 0) = {}
BY DEF File, NoTemporary

\* The bytes of a file belong to its content.
LEMMA FileContent ==
  ASSUME NEW name, NEW c, NEW n, NEW b \in File(name, c, n)
  PROVE  b[2] = c
BY DEF File

\* The bytes of a directory whose blobs have the lengths f and whose temporary
\* files the lengths g, and those of the contents other than c.
BytesOf(f, g) == UNION {File("blob", c, f[c]) \cup File("tmp", c, g[c]) : c \in Contents}

BytesBut(f, g, c) == {b \in BytesOf(f, g) : b[2] # c}

Lengths == [c \in Contents |-> BlobLength(c)]

\* Bytes, in this state and in the next, is such a directory.
LEMMA BytesAre ==
  /\ Bytes = BytesOf(Lengths, temporary) /\ Bytes' = BytesOf(Lengths', temporary')
  /\ \A c \in Contents : /\ Others(c) = BytesBut(Lengths, temporary, c)
                         /\ Others(c)' = BytesBut(Lengths', temporary', c)
<1>1. \A c \in Contents : Lengths[c] = BlobLength(c) /\ Lengths'[c] = BlobLength(c)'
  BY Zenon DEF Lengths
<1>2. Bytes = BytesOf(Lengths, temporary) /\ Bytes' = BytesOf(Lengths', temporary')
  BY <1>1, Zenon DEF Bytes, BytesOf
<1> QED
  BY <1>2, Zenon DEF Others, BytesBut

\* The directory holds the files of one content and those of the others.
LEMMA BytesSplit ==
  ASSUME NEW f, NEW g, NEW c \in Contents
  PROVE  BytesOf(f, g) = BytesBut(f, g, c) \cup File("blob", c, f[c]) \cup File("tmp", c, g[c])
<1> DEFINE Files(d) == File("blob", d, f[d]) \cup File("tmp", d, g[d])
<1>1. BytesOf(f, g) = UNION {Files(d) : d \in Contents}
  BY Zenon DEF BytesOf
<1>2. ASSUME NEW d \in Contents, NEW b \in Files(d)
      PROVE  b[2] = d
  BY FileContent, Zenon
<1>3. ASSUME NEW b \in BytesOf(f, g), b[2] = c
      PROVE  b \in Files(c)
  BY <1>1, <1>2, <1>3, Zenon
<1>4. Files(c) \subseteq BytesOf(f, g)
  BY <1>1, Zenon
<1> QED
  BY <1>3, <1>4, Zenon DEF BytesBut

\* What one content gains or loses leaves the bytes of the others alone.
LEMMA OthersKept ==
  ASSUME NEW c \in Contents,
         \A d \in Contents \ {c} : /\ blob'[d] = "absent" <=> blob[d] = "absent"
                                   /\ temporary'[d] = temporary[d]
  PROVE  Others(c)' = Others(c)
<1> DEFINE Files(d) == File("blob", d, BlobLength(d)) \cup File("tmp", d, temporary[d])
<1>1. Bytes = UNION {Files(d) : d \in Contents} /\ Bytes' = UNION {Files(d)' : d \in Contents}
  BY Zenon DEF Bytes
<1>2. \A d \in Contents \ {c} : Files(d)' = Files(d)
  BY Zenon DEF BlobLength
<1>3. (\A b \in Files(c) : b[2] = c) /\ (\A b \in Files(c)' : b[2] = c)
  BY FileContent
<1>4. ASSUME NEW b, b[2] # c
      PROVE  b \in Bytes <=> b \in Bytes'
  BY <1>1, <1>2, <1>3, <1>4
<1>5. Others(c) = {b \in Bytes : b[2] # c} /\ Others(c)' = {b \in Bytes' : b[2] # c}
  BY Zenon DEF Others
<1> QED
  BY <1>4, <1>5, Zenon

\* The files stay: so do the bytes, those the medium spoils included.
LEMMA SameBytes ==
  ASSUME SameFiles
  PROVE  Bytes' = Bytes /\ \A c \in Contents : Others(c)' = Others(c)
<1>1. Bytes' = Bytes
  BY Zenon DEF SameFiles, Bytes, BlobLength
<1> QED
  BY <1>1, OthersKept, Zenon DEF SameFiles

\* How much the directory holds when one content has a blob of n bytes and a
\* temporary file of m.
LEMMA BytesBound ==
  ASSUME NEW f, NEW g, NEW c \in Contents, NEW k \in Nat,
         NEW n \in Nat, f[c] = n, NEW m \in Nat \cup {NoTemporary}, g[c] = m,
         IsFiniteSet(BytesBut(f, g, c)),
         Cardinality(BytesBut(f, g, c)) + n + (IF m = NoTemporary THEN 0 ELSE m) <= k
  PROVE  IsFiniteSet(BytesOf(f, g)) /\ Cardinality(BytesOf(f, g)) <= k
<1> DEFINE O == BytesBut(f, g, c)
           B == File("blob", c, n)
           T == File("tmp", c, m)
<1>1. BytesOf(f, g) = (O \cup B) \cup T
  BY BytesSplit
<1>2. IsFiniteSet(B) /\ Cardinality(B) = n
  BY FileFinite, Zenon
<1>3. IsFiniteSet(T) /\ Cardinality(T) = IF m = NoTemporary THEN 0 ELSE m
  <2>1. CASE m = NoTemporary
    BY <2>1, NoFile, FS_EmptySet, Zenon
  <2>2. CASE m # NoTemporary
    BY <2>2, FileFinite, Zenon
  <2> QED
    BY <2>1, <2>2, Zenon
<1>4. ASSUME NEW S, NEW U, IsFiniteSet(S), IsFiniteSet(U)
      PROVE  /\ IsFiniteSet(S \cup U)
             /\ Cardinality(S \cup U) <= Cardinality(S) + Cardinality(U)
  <2>1. IsFiniteSet(S \cap U)
    BY <1>4, FS_Subset, Zenon
  <2>2. Cardinality(S) \in Nat /\ Cardinality(U) \in Nat /\ Cardinality(S \cap U) \in Nat
    BY <1>4, <2>1, FS_CardinalityType, Zenon
  <2>3. /\ IsFiniteSet(S \cup U)
        /\ Cardinality(S \cup U) = Cardinality(S) + Cardinality(U) - Cardinality(S \cap U)
    BY <1>4, FS_Union, Zenon
  <2> QED
    BY <2>2, <2>3
<1>5. IsFiniteSet(O \cup B) /\ Cardinality(O \cup B) <= Cardinality(O) + Cardinality(B)
  BY <1>2, <1>4, Zenon
<1>6. /\ IsFiniteSet((O \cup B) \cup T)
      /\ Cardinality((O \cup B) \cup T) <= Cardinality(O \cup B) + Cardinality(T)
  BY <1>3, <1>4, <1>5, Zenon
<1>7. /\ Cardinality(O) \in Nat /\ Cardinality(O \cup B) \in Nat
      /\ Cardinality((O \cup B) \cup T) \in Nat
  BY <1>5, <1>6, FS_CardinalityType, Zenon
<1>8. Cardinality((O \cup B) \cup T) <= k
  <2> HIDE DEF O, B, T
  <2> QED
    BY <1>2, <1>3, <1>5, <1>6, <1>7 DEF O, NoTemporary
<1> QED
  BY <1>1, <1>6, <1>8, Zenon
\* The bytes before a change of one content's file, and after.
LEMMA HolderBytes ==
  ASSUME StoreInv, Room, NEW c \in Contents, NEW b \in Blobs, NEW t \in Nat \cup {NoTemporary},
         blob' = [blob EXCEPT ![c] = b], temporary' = [temporary EXCEPT ![c] = t]
  PROVE  /\ IsFiniteSet(Others(c)) /\ Others(c)' = Others(c)
         /\ Cardinality(Others(c)) \in Nat /\ UsedSpace \in Nat
         /\ Cardinality(Others(c)) <= UsedSpace
         /\ BlobLength(c)' = (IF b = "absent" THEN 0 ELSE Size[c]) /\ temporary'[c] = t
         /\ Size[c] \in Nat
<1>1. IsFiniteSet(Bytes) /\ Others(c) \subseteq Bytes
  BY Zenon DEF Room, Others
<1>2. /\ IsFiniteSet(Others(c)) /\ Cardinality(Others(c)) \in Nat /\ UsedSpace \in Nat
      /\ Cardinality(Others(c)) <= UsedSpace
  BY <1>1, FS_Subset, FS_CardinalityType, Zenon DEF UsedSpace
<1>3. \A d \in Contents \ {c} : /\ blob'[d] = "absent" <=> blob[d] = "absent"
                                /\ temporary'[d] = temporary[d]
  BY Zenon DEF StoreInv, StoreTyped
<1>4. Others(c)' = Others(c)
  BY <1>3, OthersKept, Zenon
<1>5. blob'[c] = b /\ temporary'[c] = t
  BY Zenon DEF StoreInv, StoreTyped
<1>6. BlobLength(c)' = IF b = "absent" THEN 0 ELSE Size[c]
  BY <1>5, Zenon DEF BlobLength
<1>7. Size[c] \in Nat
  BY LocalContentStoreAssumption, Zenon
<1> QED
  BY <1>2, <1>4, <1>5, <1>6, <1>7, Zenon

\* A change within what is free keeps to the capacity.
LEMMA HolderFits ==
  ASSUME StoreInv, Room, NEW c \in Contents, NEW b \in Blobs, NEW t \in Nat \cup {NoTemporary},
         blob' = [blob EXCEPT ![c] = b], temporary' = [temporary EXCEPT ![c] = t],
         Cardinality(Others(c)) + (IF b = "absent" THEN 0 ELSE Size[c])
           + (IF t = NoTemporary THEN 0 ELSE t) <= Capacity
  PROVE  IsFiniteSet(Bytes') /\ CapacityRespected'
<1> DEFINE n == IF b = "absent" THEN 0 ELSE Size[c]
           O == Others(c)
<1>1. /\ IsFiniteSet(O) /\ O' = O /\ Cardinality(O) \in Nat
      /\ BlobLength(c)' = n /\ temporary'[c] = t /\ Size[c] \in Nat
  BY HolderBytes, Zenon
<1>2. n \in Nat /\ Capacity \in Nat
  BY <1>1, LocalContentStoreAssumption, Zenon
<1>3. IsFiniteSet(O') /\ Cardinality(O') + n + (IF t = NoTemporary THEN 0 ELSE t) <= Capacity
  <2>1. Cardinality(O) + n + (IF t = NoTemporary THEN 0 ELSE t) <= Capacity
    BY Zenon
  <2> QED
    BY <1>1, <2>1, Zenon
<1>4. Lengths'[c] = n /\ O' = BytesBut(Lengths', temporary', c)
  BY <1>1, BytesAre, Zenon DEF Lengths
<1> HIDE DEF n
<1>5. IsFiniteSet(Bytes') /\ Cardinality(Bytes') <= Capacity
  BY <1>1, <1>2, <1>3, <1>4, BytesAre, BytesBound, Zenon
<1> QED
  BY <1>5, Zenon DEF CapacityRespected, UsedSpace

\* A blob that is removed gives its bytes back.
LEMMA BlobRemoved ==
  ASSUME StoreInv, Room, NEW c \in Contents,
         blob' = [blob EXCEPT ![c] = "absent"], temporary' = temporary
  PROVE  IsFiniteSet(Bytes') /\ CapacityRespected'
<1>1. /\ temporary' = [temporary EXCEPT ![c] = temporary[c]]
      /\ temporary[c] \in Nat \cup {NoTemporary} /\ "absent" \in Blobs
  BY Zenon DEF StoreInv, StoreTyped, Blobs
<1>2. Others(c)' = Others(c) /\ BlobLength(c)' = 0
  BY <1>1, HolderBytes, Zenon
<1>3. /\ Others(c) = BytesBut(Lengths, temporary, c)
      /\ Others(c)' = BytesBut(Lengths', temporary', c)
      /\ Lengths'[c] = 0
  BY <1>2, BytesAre, Zenon DEF Lengths
<1>4. /\ Bytes = Others(c) \cup File("blob", c, Lengths[c]) \cup File("tmp", c, temporary[c])
      /\ Bytes' = Others(c)' \cup File("blob", c, 0) \cup File("tmp", c, temporary'[c])
  BY <1>3, BytesAre, BytesSplit
<1>5. Bytes' \subseteq Bytes
  BY <1>2, <1>4, NoFile, Zenon
<1>6. /\ IsFiniteSet(Bytes') /\ Cardinality(Bytes') <= Cardinality(Bytes)
      /\ Cardinality(Bytes) \in Nat /\ Cardinality(Bytes') \in Nat
  BY <1>5, FS_Subset, FS_CardinalityType, Zenon DEF Room
<1>7. Cardinality(Bytes) <= Capacity /\ Capacity \in Nat
  BY LocalContentStoreAssumption, Zenon DEF Room, CapacityRespected, UsedSpace
<1>8. Cardinality(Bytes') <= Capacity
  BY <1>6, <1>7
<1> QED
  BY <1>6, <1>8, Zenon DEF CapacityRespected, UsedSpace

-----------------------------------------------------------------------------
(* Steps *)

\* A step that leaves the files, and after which only who wrote before writes.
LEMMA RoomKept ==
  ASSUME StoreInv, Room, SameFiles,
         \A x \in Callers : pc'[x] = "write" => pc[x] = "write" /\ call'[x] = call[x]
  PROVE  Room'
<1>1. Bytes' = Bytes /\ \A c \in Contents : Others(c)' = Others(c)
  BY SameBytes, Zenon
<1>2. IsFiniteSet(Bytes') /\ CapacityRespected'
  BY <1>1, Zenon DEF Room, CapacityRespected, UsedSpace
<1>3. ASSUME NEW x \in Callers, pc'[x] = "write"
      PROVE  Reserved(x)'
  <2>1. /\ pc[x] = "write" /\ call'[x] = call[x] /\ pc[x] \in Locked
        /\ Cardinality(Others(call[x].content)) + Size[call[x].content] <= Capacity
    BY <1>3, Zenon DEF Room, Reserved, Locked
  <2>2. PICK c \in Contents : c = call[x].content
    BY <2>1, CallTyped, Zenon
  <2>3. Cardinality(Others(c)') + Size[c] <= Capacity /\ call'[x].content = c
    BY <1>1, <2>1, <2>2, Zenon
  <2> QED
    BY <2>3, Zenon DEF Reserved
<1>4. \A x \in Callers : Reserved(x)'
  BY <1>3, Zenon DEF Reserved
<1> QED
  BY <1>2, <1>4, Zenon DEF Room

\* One caller moves and leaves the files; it does not begin to write.
LEMMA MoverKeepsRoom ==
  ASSUME StoreInv, Room, NEW x \in Callers, NEW l, NEW r, l # "write",
         pc' = [pc EXCEPT ![x] = l], call' = [call EXCEPT ![x] = r],
         blob' = blob, temporary' = temporary
  PROVE  Room'
<1>1. SameFiles
  BY Zenon DEF SameFiles
<1>2. pc'[x] = l /\ \A y \in Callers \ {x} : pc'[y] = pc[y] /\ call'[y] = call[y]
  BY Zenon DEF StoreInv, StoreTyped
<1>3. \A y \in Callers : pc'[y] = "write" => pc[y] = "write" /\ call'[y] = call[y]
  BY <1>2, Zenon
<1> QED
  BY <1>1, <1>3, RoomKept, Zenon

\* The holder of the lock changes the file of one content.
LEMMA HolderKeepsRoom ==
  ASSUME StoreInv, Room, NEW x \in Callers, NEW l, NEW r, pc[x] \in Locked,
         pc' = [pc EXCEPT ![x] = l], call' = [call EXCEPT ![x] = r],
         IsFiniteSet(Bytes'), CapacityRespected', Reserved(x)'
  PROVE  Room'
<1>1. \A y \in Callers \ {x} : pc'[y] = pc[y]
  BY Zenon DEF StoreInv, StoreTyped
<1>2. \A y \in Callers \ {x} : pc[y] \notin Locked
  BY OneInside, Zenon DEF StoreInv
<1>3. \A y \in Callers \ {x} : pc'[y] # "write"
  BY <1>1, <1>2, Zenon DEF Locked
<1>4. \A y \in Callers : Reserved(y)'
  BY <1>3, Zenon DEF Reserved
<1> QED
  BY <1>4, Zenon DEF Room

LEMMA ReturnKeepsRoom ==
  ASSUME StoreInv, Room, NEW x \in Callers, NEW l, l # "write", Return(x, l),
         blob' = blob, temporary' = temporary
  PROVE  Room'
<1>1. pc' = [pc EXCEPT ![x] = l] /\ call' = [call EXCEPT ![x] = NoCall]
  BY Zenon DEF Return, Goto
<1> QED
  BY <1>1, MoverKeepsRoom, Zenon

LEMMA InspectKeepsRoom ==
  ASSUME StoreInv, Room, NEW x \in Callers, Inspect(x)
  PROVE  Room'
<1>1. pc[x] = "inspect" /\ pc[x] \in Locked /\ call[x].content \in Contents
  BY CallTyped, Zenon DEF Inspect, Locked
<1>2. CASE Return(x, "ok") /\ UNCHANGED <<blob, temporary, faults>>
  <2>1. "ok" # "write" /\ blob' = blob /\ temporary' = temporary
    BY <1>2, Zenon
  <2> QED
    BY <1>2, <2>1, ReturnKeepsRoom, Zenon
<1>3. CASE /\ blob' = [blob EXCEPT ![call[x].content] = "absent"] /\ Goto(x, "reserve")
           /\ UNCHANGED <<temporary, mutex, lockFile, call, faults>>
  <2>1. /\ pc' = [pc EXCEPT ![x] = "reserve"] /\ call' = [call EXCEPT ![x] = call[x]]
        /\ temporary' = temporary
    BY <1>3, Zenon DEF Goto, StoreInv, StoreTyped
  <2>2. IsFiniteSet(Bytes') /\ CapacityRespected'
    BY <1>1, <1>3, <2>1, BlobRemoved, Zenon
  <2>3. pc'[x] = "reserve"
    BY <2>1, Zenon DEF StoreInv, StoreTyped
  <2>4. Reserved(x)'
    BY <2>3, Zenon DEF Reserved
  <2> QED
    BY <1>1, <2>1, <2>2, <2>4, HolderKeepsRoom, Zenon
<1> QED
  BY <1>2, <1>3, Zenon DEF Inspect

LEMMA ReserveKeepsRoom ==
  ASSUME StoreInv, Room, NEW x \in Callers, Reserve(x)
  PROVE  Room'
<1>1. /\ pc[x] = "reserve" /\ pc[x] \in Locked /\ CallSound(x) /\ call[x].content \in Contents
  BY CallTyped, Zenon DEF Reserve, Locked
<1>2. PICK c \in Contents : c = call[x].content
  BY <1>1, Zenon
<1>3. CASE Return(x, "no_space") /\ UNCHANGED <<blob, temporary, faults>>
  <2>1. "no_space" # "write" /\ blob' = blob /\ temporary' = temporary
    BY <1>3, Zenon
  <2> QED
    BY <1>3, <2>1, ReturnKeepsRoom, Zenon
<1>4. CASE /\ UsedSpace + Size[c] <= Capacity /\ temporary' = [temporary EXCEPT ![c] = 0]
           /\ Goto(x, "write") /\ UNCHANGED <<blob, mutex, lockFile, call, faults>>
  <2>1. /\ pc' = [pc EXCEPT ![x] = "write"] /\ call' = [call EXCEPT ![x] = call[x]]
        /\ call' = call /\ blob' = blob
    BY <1>4, Zenon DEF Goto, StoreInv, StoreTyped
  <2>2. blob[c] = "absent" /\ blob' = [blob EXCEPT ![c] = "absent"]
    BY <1>1, <1>2, <2>1, Zenon DEF StoreInv, StoreTyped, CallSound
  <2>3. "absent" \in Blobs /\ 0 \in Nat \cup {NoTemporary} /\ Capacity \in Nat
    BY LocalContentStoreAssumption, Zenon DEF Blobs
  <2>4. /\ Others(c)' = Others(c) /\ Cardinality(Others(c)) \in Nat /\ UsedSpace \in Nat
        /\ Cardinality(Others(c)) <= UsedSpace /\ Size[c] \in Nat
    BY <1>4, <2>2, <2>3, HolderBytes, Zenon
  <2>5. Cardinality(Others(c)) + Size[c] <= Capacity /\ Cardinality(Others(c)) <= Capacity
    BY <1>4, <2>3, <2>4
  <2>6. Reserved(x)'
    BY <1>2, <2>1, <2>4, <2>5, Zenon DEF Reserved
  <2>7. IsFiniteSet(Bytes') /\ CapacityRespected'
    <3>1. Cardinality(Others(c)) + (IF "absent" = "absent" THEN 0 ELSE Size[c])
            + (IF 0 = NoTemporary THEN 0 ELSE 0) <= Capacity
      BY <2>4, <2>5
    <3> QED
      BY <1>4, <2>2, <2>3, <3>1, HolderFits, Zenon
  <2> QED
    BY <1>1, <2>1, <2>6, <2>7, HolderKeepsRoom, Zenon
<1> QED
  BY <1>2, <1>3, <1>4, Zenon DEF Reserve

LEMMA WriteTemporaryKeepsRoom ==
  ASSUME StoreInv, Room, NEW x \in Callers, WriteTemporary(x)
  PROVE  Room'
<1>1. /\ pc[x] = "write" /\ pc[x] \in Locked /\ CallSound(x) /\ call[x] \in Calls
      /\ call[x].content \in Contents /\ call[x].written \in Nat
  BY CallTyped, Zenon DEF WriteTemporary, Locked
<1>2. PICK c \in Contents : c = call[x].content
  BY <1>1, Zenon
<1>3. Size[c] \in Nat /\ Capacity \in Nat
  BY LocalContentStoreAssumption, Zenon
<1>4. PICK n \in call[x].written + 1 .. Size[c] :
         temporary' = [temporary EXCEPT ![c] = n] /\ call' = [call EXCEPT ![x].written = n]
  BY <1>2, Zenon DEF WriteTemporary
<1>5. n \in Nat /\ n <= Size[c] /\ n # NoTemporary
  BY <1>1, <1>3, <1>4 DEF NoTemporary
<1> DEFINE r == [call[x] EXCEPT !.written = n]
<1>6. call' = [call EXCEPT ![x] = r] /\ call'[x] = r /\ r.content = c
  BY <1>1, <1>2, <1>4, Zenon DEF StoreInv, StoreTyped, Calls
<1>7. /\ blob[c] = "absent" /\ blob' = [blob EXCEPT ![c] = "absent"]
      /\ pc' = [pc EXCEPT ![x] = "write"]
  BY <1>1, <1>2 DEF WriteTemporary, StoreInv, StoreTyped, CallSound
<1> HIDE DEF r
<1>8. "absent" \in Blobs
  BY Zenon DEF Blobs
<1>9. Others(c)' = Others(c) /\ Cardinality(Others(c)) \in Nat
  BY <1>4, <1>5, <1>7, <1>8, HolderBytes, Zenon
<1>10. Cardinality(Others(c)) + Size[c] <= Capacity
  BY <1>1, <1>2, Zenon DEF Room, Reserved
<1>11. Reserved(x)'
  BY <1>6, <1>9, <1>10, Zenon DEF Reserved
<1>12. IsFiniteSet(Bytes') /\ CapacityRespected'
  <2>1. Cardinality(Others(c)) + (IF "absent" = "absent" THEN 0 ELSE Size[c])
          + (IF n = NoTemporary THEN 0 ELSE n) <= Capacity
    BY <1>3, <1>5, <1>9, <1>10
  <2> QED
    BY <1>4, <1>5, <1>7, <1>8, <2>1, HolderFits, Zenon
<1> QED
  BY <1>1, <1>6, <1>7, <1>11, <1>12, HolderKeepsRoom, Zenon

LEMMA RenameKeepsRoom ==
  ASSUME StoreInv, Room, NEW x \in Callers, Rename(x)
  PROVE  Room'
<1>1. /\ pc[x] = "write" /\ pc[x] \in Locked /\ CallSound(x) /\ call[x].content \in Contents
  BY CallTyped, Zenon DEF Rename, Locked
<1>2. PICK c \in Contents : c = call[x].content
  BY <1>1, Zenon
<1>3. temporary[c] = Size[c] /\ Size[c] \in Nat /\ Capacity \in Nat
  BY <1>1, <1>2, LocalContentStoreAssumption, Zenon DEF Rename, CallSound
<1>4. /\ blob' = [blob EXCEPT ![c] = "whole"] /\ temporary' = [temporary EXCEPT ![c] = NoTemporary]
      /\ pc' = [pc EXCEPT ![x] = "ok"] /\ call' = [call EXCEPT ![x] = NoCall]
  BY <1>2, <1>3, Zenon DEF Rename, Publish, Return, Goto
<1>5. pc'[x] = "ok"
  BY <1>4, Zenon DEF StoreInv, StoreTyped
<1>6. Reserved(x)'
  BY <1>5, Zenon DEF Reserved
<1>7. "whole" \in Blobs /\ NoTemporary \in Nat \cup {NoTemporary}
  BY Zenon DEF Blobs
<1>8. Cardinality(Others(c)) \in Nat
  BY <1>4, <1>7, HolderBytes, Zenon
<1>9. Cardinality(Others(c)) + Size[c] <= Capacity
  BY <1>1, <1>2, Zenon DEF Room, Reserved
<1>10. Cardinality(Others(c)) + (IF "whole" = "absent" THEN 0 ELSE Size[c])
          + (IF NoTemporary = NoTemporary THEN 0 ELSE NoTemporary) <= Capacity
  BY <1>3, <1>8, <1>9
<1>11. IsFiniteSet(Bytes') /\ CapacityRespected'
  BY <1>4, <1>7, <1>10, HolderFits, Zenon
<1> QED
  BY <1>1, <1>4, <1>6, <1>11, HolderKeepsRoom, Zenon

LEMMA UnlinkKeepsRoom ==
  ASSUME StoreInv, Room, NEW x \in Callers, Unlink(x)
  PROVE  Room'
<1>1. pc[x] = "unlink" /\ pc[x] \in Locked /\ call[x].content \in Contents
  BY CallTyped, Zenon DEF Unlink, Locked
<1>2. /\ blob' = [blob EXCEPT ![call[x].content] = "absent"] /\ temporary' = temporary
      /\ pc' = [pc EXCEPT ![x] = "ok"] /\ call' = [call EXCEPT ![x] = NoCall]
  BY Zenon DEF Unlink, Return, Goto
<1>3. IsFiniteSet(Bytes') /\ CapacityRespected'
  BY <1>1, <1>2, BlobRemoved, Zenon
<1>4. pc'[x] = "ok"
  BY <1>2, Zenon DEF StoreInv, StoreTyped
<1>5. Reserved(x)'
  BY <1>4, Zenon DEF Reserved
<1> QED
  BY <1>1, <1>2, <1>3, <1>5, HolderKeepsRoom, Zenon

\* Steps of callers that leave the files alone.
LEMMA CallerKeepsRoom ==
  ASSUME StoreInv, Room, NEW x \in Callers,
         (\E op, c : Begin(x, op, c)) \/ Take(x) \/ LockMutex(x) \/ LockFile(x) \/ Fail(x)
  PROVE  Room'
<1>1. CASE Fail(x)
  <2>1. Return(x, "failed") /\ "failed" # "write" /\ blob' = blob /\ temporary' = temporary
    BY <1>1, Zenon DEF Fail
  <2> QED
    BY <2>1, ReturnKeepsRoom, Zenon
<1>2. CASE (\E op, c : Begin(x, op, c)) \/ Take(x) \/ LockMutex(x) \/ LockFile(x)
  <2>1. call = [call EXCEPT ![x] = call[x]]
    BY Zenon DEF StoreInv, StoreTyped
  <2>2. /\ blob' = blob /\ temporary' = temporary
        /\ \E l \in {"mutex", "idle", "lock", "inspect", "unlink"} : pc' = [pc EXCEPT ![x] = l]
        /\ \E r : call' = [call EXCEPT ![x] = r]
    BY <1>2, <2>1, Zenon DEF Begin, Take, LockMutex, LockFile, Goto
  <2>3. PICK l \in {"mutex", "idle", "lock", "inspect", "unlink"} : pc' = [pc EXCEPT ![x] = l]
    BY <2>2, Zenon
  <2>4. PICK r : call' = [call EXCEPT ![x] = r]
    BY <2>2, Zenon
  <2>5. l # "write"
    BY <2>3, Zenon
  <2> QED
    BY <2>2, <2>3, <2>4, <2>5, MoverKeepsRoom, Zenon
<1> QED
  BY <1>1, <1>2, Zenon

LEMMA CrashKeepsRoom ==
  ASSUME StoreInv, Room, NEW p \in Processes, Crash(p)
  PROVE  Room'
<1>1. SameFiles
  BY Zenon DEF SameFiles, Crash
<1>2. \A x \in Callers : pc'[x] = "write" => pc[x] = "write" /\ call'[x] = call[x]
  BY Zenon DEF Crash
<1> QED
  BY <1>1, <1>2, RoomKept, Zenon

LEMMA DamageKeepsRoom ==
  ASSUME StoreInv, Room, NEW c \in Contents, Damage(c)
  PROVE  Room'
<1>1. SameFiles
  BY Zenon DEF SameFiles, Damage, StoreInv, StoreTyped
<1>2. pc' = pc /\ call' = call
  BY Zenon DEF Damage
<1> QED
  BY <1>1, <1>2, RoomKept, Zenon

\* The store in the midst of the transfers does nothing but its own steps.
LEMMA StoreSteps ==
  ASSUME [Next]_vars
  PROVE  \/ UNCHANGED store
         \/ \E x \in Callers :
              \/ (\E op, c : Begin(x, op, c)) \/ Take(x) \/ LockMutex(x) \/ LockFile(x) \/ Fail(x)
              \/ Inspect(x) \/ Reserve(x) \/ WriteTemporary(x) \/ Rename(x) \/ Unlink(x)
         \/ \E p \in Processes : Crash(p)
         \/ \E c \in Contents : Damage(c)
<1>1. ASSUME NEW k \in Clients, ClientStep(k)
      PROVE  UNCHANGED store
  BY <1>1, Zenon DEF ClientStep, SendPayload, ExpectPayload, FetchPayload, Fetched, TakeAnswer,
     GiveUp, Finish
<1>2. ASSUME NEW k \in Clients,
             \/ \E op \in {"put", "get", "exists"}, c \in Contents : CallPeer(k, op, c)
             \/ Accept(k) \/ ConnectFails(k) \/ Disconnect(k)
      PROVE  UNCHANGED store
  BY <1>2, Zenon DEF CallPeer, Accept, ConnectFails, Disconnect
<1>3. ASSUME ListenerStep \/ ReadFails
      PROVE  UNCHANGED store \/ (\E op, c : Begin(Listener, op, c)) \/ Take(Listener)
  BY <1>3, Zenon DEF ListenerStep, Refuse, ServeExists, ServeGet, SendFrame, PayloadSent, ServePut,
     ReceivePayload, StorePayload, AnswerPut, SessionEnds, ReadFails, Conclude
<1>4. Listener \in Callers /\ Local \subseteq Callers
  BY ContentTransferAssumption, Zenon DEF Local
<1>5. UNCHANGED vars => UNCHANGED store
  BY Zenon DEF vars
<1> QED
  BY <1>1, <1>2, <1>3, <1>4, <1>5, Zenon
     DEF Next, CallerStep, StoreFails, CallStore, ProcessEnds, FileSpoils

-----------------------------------------------------------------------------
(* The theorem *)

LEMMA RoomAtFirst ==
  ASSUME Init
  PROVE  Room
<1>1. /\ blob = [c \in Contents |-> "absent"] /\ temporary = [c \in Contents |-> NoTemporary]
      /\ pc = [x \in Callers |-> "idle"]
  BY Zenon DEF Init, StoreInit
<1>2. \A c \in Contents : BlobLength(c) = 0 /\ temporary[c] = NoTemporary
  BY <1>1, Zenon DEF BlobLength
<1>3. Bytes = {}
  BY <1>2, NoFile, Zenon DEF Bytes
<1>4. IsFiniteSet(Bytes) /\ Cardinality(Bytes) = 0
  BY <1>3, FS_EmptySet, Zenon
<1>5. CapacityRespected
  BY <1>4, LocalContentStoreAssumption DEF CapacityRespected, UsedSpace
<1>6. \A x \in Callers : Reserved(x)
  BY <1>1, Zenon DEF Reserved
<1> QED
  BY <1>4, <1>5, <1>6, Zenon DEF Room

LEMMA RoomStays ==
  ASSUME IInv, Room, [Next]_vars
  PROVE  Room'
<1>1. StoreInv
  BY Zenon DEF IInv
<1>2. CASE UNCHANGED store
  <2>1. UNCHANGED <<blob, temporary, pc, call>>
    BY <1>2, Zenon DEF store
  <2>2. SameFiles
    BY <2>1, Zenon DEF SameFiles
  <2> QED
    BY <1>1, <2>1, <2>2, RoomKept, Zenon
<1> QED
  BY <1>1, <1>2, StoreSteps, CallerKeepsRoom, InspectKeepsRoom, ReserveKeepsRoom,
     WriteTemporaryKeepsRoom, RenameKeepsRoom, UnlinkKeepsRoom, CrashKeepsRoom, DamageKeepsRoom,
     Zenon

\* The directory stays within the capacity it was opened with, temporary files of
\* puts under way, failed or interrupted included, for any number of processes,
\* threads and contents of any length: used_space, compared with the capacity once,
\* before the first byte is written, is enough under the lock of the directory.
THEOREM CapacityIsRespected == Spec => []CapacityRespected
<1>1. Init => Room
  BY RoomAtFirst, Zenon
<1>2. IInv /\ Room /\ [Next]_vars => Room'
  BY RoomStays, Zenon
<1>3. Room => CapacityRespected
  BY Zenon DEF Room
<1> QED
  BY <1>1, <1>2, <1>3, Always, PTL DEF Spec
=============================================================================
