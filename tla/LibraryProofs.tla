---------------------------- MODULE LibraryProofs ----------------------------
(* Proofs about Library, for every value of its constants that meets the   *)
(* assumptions: key files and the texts of grants (GrantTransit), lists of *)
(* scopes (ScopeLists), the walk over a Go value (CanonicalWalk), the      *)
(* search for broken text in a JSON string (JsonStrings), contexts from    *)
(* any peer (RouteBoundary), the metadata of peers (PeerMetadata), and the *)
(* texts of JSON (CanonicalJson).  Each part is proved by itself first.    *)
EXTENDS Library, OperatorProofs, FiniteSetTheorems, WellFoundedInduction

(* A set of natural numbers has a least one.                               *)
LEMMA LeastNatural ==
  ASSUME NEW S, S \subseteq Nat, S # {}
  PROVE  \E n \in S : \A m \in S : n <= m
<1>1. \E n \in S : \A m \in S : <<m, n>> \notin OpToRel(<, Nat)
  BY NatLessThanWellFounded, WFMin
<1>2. \A m, n \in Nat : m < n => <<m, n>> \in OpToRel(<, Nat)
  BY DEF OpToRel
<1>3. \E n \in S : \A m \in S : ~ (m < n)
  BY <1>1, <1>2, Zenon
<1> QED
  BY <1>3

-----------------------------------------------------------------------------
(* Key files *)

(* A file that begins with a block is taken exactly if that block is whole *)
(* and nothing but space follows it.                                       *)
LEMMA OneBlock ==
  ASSUME NEW file \in KeyFile, file.form = "text"
  PROVE  /\ DecodeKeyPEM(file) = "block"
              => /\ file.opens = "begin" /\ file.ends = "space"
                 /\ FirstWhole(file) = Len(file.blocks)
                 /\ FirstWhole(file) \in DOMAIN file.blocks
         /\ DecodeKeyPEM(file) = "no PEM" => file.opens # "begin"
         /\ Len(file.blocks) = 1 =>
              /\ DecodeKeyPEM(file) = "block"
                   <=> /\ file.opens = "begin" /\ file.ends = "space"
                       /\ file.blocks[1].whole
              /\ DecodeKeyPEM(file) = "block" => FirstWhole(file) = 1
              /\ DecodeKeyPEM(file) # "no PEM"
<1>1. file.blocks \in Seq(KeyBlock)
  BY DEF KeyFile
<1>2. DOMAIN file.blocks = 1..Len(file.blocks) /\ Len(file.blocks) \in Nat
  BY <1>1
<1>3. WholeBlocks(file) # {} /\ FirstWhole(file) = Len(file.blocks)
        => FirstWhole(file) \in DOMAIN file.blocks
  BY <1>2 DEF WholeBlocks
<1>4. ASSUME Len(file.blocks) = 1
      PROVE  /\ file.blocks # <<>>
             /\ WholeBlocks(file) # {} <=> file.blocks[1].whole
             /\ WholeBlocks(file) # {} => FirstWhole(file) = 1
  <2>1. DOMAIN file.blocks = {1}
    BY <1>2, <1>4
  <2>2. WholeBlocks(file) # {} => WholeBlocks(file) = {1}
    BY <2>1 DEF WholeBlocks
  <2>3. WholeBlocks(file) # {} <=> file.blocks[1].whole
    BY <2>1 DEF WholeBlocks
  <2>4. WholeBlocks(file) = {1} => FirstWhole(file) = 1
    BY DEF FirstWhole
  <2> QED
    BY <1>4, <2>2, <2>3, <2>4
<1> QED
  BY <1>2, <1>3, <1>4 DEF DecodeKeyPEM, NotPEM

(* The key in key material is of its pairs, or there is none.              *)
LEMMA KeysOfPairs ==
  ASSUME Missing \notin KeyPair, NEW file \in KeyFile
  PROVE  /\ ParseGrantPrivateKey(file) \in KeyType \cup {NoKey}
         /\ ParseGrantPublicKey(file) \in KeyPair \cup {Missing}
<1> DEFINE block == file.blocks[FirstWhole(file)]
<1>1. CASE file.form = "raw"
  <2>1. DecodeKeyPEM(file) = "no PEM"
    BY <1>1 DEF DecodeKeyPEM, NotPEM
  <2>2. file.half \in KeyPair /\ (file.size = 64 => file.seed \in KeyPair)
    BY <1>1 DEF KeyFile
  <2>3. ParseGrantPrivateKey(file)
          = IF file.size = 64 THEN [seed |-> file.seed, half |-> file.half] ELSE NoKey
    BY <1>1, <2>1 DEF ParseGrantPrivateKey
  <2>4. ParseGrantPublicKey(file) = IF file.size = 32 THEN file.half ELSE Missing
    BY <1>1, <2>1 DEF ParseGrantPublicKey
  <2> QED
    BY <2>2, <2>3, <2>4 DEF KeyType
<1>2. CASE file.form = "text"
  <2>1. CASE DecodeKeyPEM(file) = "block"
    <3>1. file.blocks \in Seq(KeyBlock)
      BY <1>2 DEF KeyFile
    <3>2. block \in KeyBlock
      <4>1. FirstWhole(file) \in DOMAIN file.blocks
        BY <1>2, <2>1, OneBlock
      <4>2. \A s \in Seq(KeyBlock) : \A i \in DOMAIN s : s[i] \in KeyBlock
        OBVIOUS
      <4> QED
        BY <3>1, <4>1, <4>2
    <3>3. block.pair \in KeyPair
      BY <3>2 DEF KeyBlock
    <3>4. \A type : PemKey(file, type) \in {[seed |-> block.pair, half |-> block.pair],
                                            NoKey}
      BY DEF PemKey
    <3>5. \A type : /\ PemKey(file, type) \in KeyType \cup {NoKey}
                    /\ PemKey(file, type).half \in KeyPair \cup {Missing}
      BY <3>3, <3>4 DEF KeyType, NoKey
    <3> QED
      BY <2>1, <3>5 DEF ParseGrantPrivateKey, ParseGrantPublicKey
  <2>2. CASE DecodeKeyPEM(file) # "block"
    BY <1>2, <2>2 DEF ParseGrantPrivateKey, ParseGrantPublicKey
  <2> QED
    BY <2>1, <2>2
<1> QED
  BY <1>1, <1>2 DEF KeyFile

LEMMA BothHalves ==
  \A pair, key : key = [seed |-> pair, half |-> pair]
                    => key.seed = pair /\ key.half = pair
  OBVIOUS

LEMMA OneItem ==
  \A S : \A x \in S : <<x>> \in Seq(S) /\ Len(<<x>>) = 1 /\ <<x>>[1] = x
  OBVIOUS

(* A text of one block.                                                    *)
LEMMA TextFile ==
  ASSUME NEW s \in Seq(KeyBlock), NEW opens \in {"begin", "other"},
         NEW ends \in {"space", "other"}, NEW file,
         file = [form |-> "text", opens |-> opens, blocks |-> s, ends |-> ends]
  PROVE  /\ file \in KeyFile
         /\ file.form = "text" /\ file.opens = opens /\ file.blocks = s
         /\ file.ends = ends
  BY DEF KeyFile

(* What is stored as PEM is read as what it was made of.                   *)
LEMMA StoredIsRead ==
  ASSUME NEW pair \in KeyPair
  PROVE  /\ PemFile(Block("PRIVATE KEY", pair)) \in KeyFile
         /\ PemFile(Block("PUBLIC KEY", pair)) \in KeyFile
         /\ ParseGrantPrivateKey(PemFile(Block("PRIVATE KEY", pair)))
              = [seed |-> pair, half |-> pair]
         /\ ParseGrantPublicKey(PemFile(Block("PUBLIC KEY", pair))) = pair
<1>1. ASSUME NEW type \in {"PRIVATE KEY", "PUBLIC KEY"}
      PROVE  /\ PemFile(Block(type, pair)) \in KeyFile
             /\ DecodeKeyPEM(PemFile(Block(type, pair))) = "block"
             /\ PemKey(PemFile(Block(type, pair)), type)
                  = [seed |-> pair, half |-> pair]
  <2> DEFINE b == Block(type, pair)
             file == PemFile(b)
  <2>1. b \in KeyBlock /\ b.whole /\ b.type = type /\ b.algorithm = "ed25519"
        /\ b.pair = pair
    BY DEF Block, KeyBlock
  <2> HIDE DEF b
  <2> DEFINE s == <<b>>
  <2>2. s \in Seq(KeyBlock) /\ Len(s) = 1 /\ s[1] = b
    BY <2>1, OneItem, Zenon
  <2>3. file = [form |-> "text", opens |-> "begin", blocks |-> s, ends |-> "space"]
    BY DEF PemFile
  <2> HIDE DEF s, file
  <2>4. /\ file \in KeyFile
        /\ file.form = "text" /\ file.opens = "begin" /\ file.ends = "space"
        /\ file.blocks = s
    BY <2>2, <2>3, TextFile
  <2>5. DecodeKeyPEM(file) = "block" /\ FirstWhole(file) = 1
    BY <2>1, <2>2, <2>4, OneBlock
  <2>6. PemKey(file, type) = [seed |-> pair, half |-> pair]
    BY <2>1, <2>2, <2>4, <2>5 DEF PemKey
  <2> QED
    BY <2>4, <2>5, <2>6 DEF file, b
<1>2. ASSUME NEW file, DecodeKeyPEM(file) = "block",
             PemKey(file, "PRIVATE KEY") = [seed |-> pair, half |-> pair]
      PROVE  ParseGrantPrivateKey(file) = [seed |-> pair, half |-> pair]
  BY <1>2 DEF ParseGrantPrivateKey
<1>3. ASSUME NEW file, DecodeKeyPEM(file) = "block",
             PemKey(file, "PUBLIC KEY") = [seed |-> pair, half |-> pair]
      PROVE  ParseGrantPublicKey(file) = pair
  <2>1. PemKey(file, "PUBLIC KEY").half = pair
    BY <1>3, BothHalves, Zenon
  <2> QED
    BY <1>3, <2>1 DEF ParseGrantPublicKey
<1> QED
  BY <1>1, <1>2, <1>3

(* A text that yields a key has one whole block, which is of that key.     *)
OneWhole(file, key) ==
  /\ \E i \in DOMAIN file.blocks : file.blocks[i].pair = key
  /\ \A i \in DOMAIN file.blocks :
       file.blocks[i].whole => file.blocks[i].pair = key

LEMMA KeyIsOfTheWholeBlock ==
  ASSUME NEW file \in KeyFile, file.form = "text"
  PROVE  /\ ParseGrantPrivateKey(file).seed # Missing
              => OneWhole(file, ParseGrantPrivateKey(file).seed)
         /\ ParseGrantPublicKey(file) # Missing
              => OneWhole(file, ParseGrantPublicKey(file))
<1> DEFINE n == FirstWhole(file)
           block == file.blocks[n]
<1>1. DOMAIN file.blocks = 1..Len(file.blocks) /\ Len(file.blocks) \in Nat
  <2>1. file.blocks \in Seq(KeyBlock)
    BY DEF KeyFile
  <2> QED
    BY <2>1
<1>2. ASSUME DecodeKeyPEM(file) = "block"
      PROVE  OneWhole(file, block.pair)
  <2>1. n = Len(file.blocks) /\ n \in DOMAIN file.blocks /\ WholeBlocks(file) # {}
    BY <1>2, OneBlock DEF DecodeKeyPEM
  <2>2. WholeBlocks(file) \subseteq Nat
    BY <1>1 DEF WholeBlocks
  <2>3. \E i \in WholeBlocks(file) : \A j \in WholeBlocks(file) : i <= j
    BY <2>1, <2>2, LeastNatural
  <2>4. \A j \in WholeBlocks(file) : n <= j
    BY <2>3 DEF FirstWhole
  <2>5. ASSUME NEW i \in DOMAIN file.blocks, file.blocks[i].whole
        PROVE  i = n
    <3>1. n <= i
      BY <2>4, <2>5 DEF WholeBlocks
    <3> HIDE DEF n
    <3> QED
      BY <1>1, <2>1, <3>1
  <2> HIDE DEF n
  <2> QED
    BY <2>1, <2>5 DEF OneWhole
<1>3. NoKey.seed = Missing /\ NoKey.half = Missing
  BY DEF NoKey
<1>4. \A type : /\ PemKey(file, type).seed \in {block.pair, Missing}
                /\ PemKey(file, type).half \in {block.pair, Missing}
  <2>1. \A type : PemKey(file, type) \in {[seed |-> block.pair, half |-> block.pair],
                                          NoKey}
    BY DEF PemKey
  <2> HIDE DEF block
  <2> QED
    BY <1>3, <2>1, BothHalves
<1>5. /\ ParseGrantPrivateKey(file).seed # Missing
           => /\ DecodeKeyPEM(file) = "block"
              /\ ParseGrantPrivateKey(file).seed = block.pair
      /\ ParseGrantPublicKey(file) # Missing
           => DecodeKeyPEM(file) = "block" /\ ParseGrantPublicKey(file) = block.pair
  <2> HIDE DEF block
  <2> QED
    BY <1>3, <1>4 DEF ParseGrantPrivateKey, ParseGrantPublicKey
<1> HIDE DEF block
<1> QED
  BY <1>2, <1>5

(* The blocks that an edit leaves or makes: whatever it does, a block of   *)
(* each pair is still there.                                               *)
KeepsPairs(blocks, s) ==
  /\ s \in Seq(KeyBlock)
  /\ \A i \in DOMAIN blocks : \E j \in DOMAIN s : s[j].pair = blocks[i].pair

LEMMA PairsAreKept ==
  ASSUME EditedAssumption, setting \in Setting,
         NEW blocks \in Seq(KeyBlock), blocks # <<>>, NEW s \in OtherBlocks(blocks)
  PROVE  KeepsPairs(blocks, s)
<1>1. /\ DOMAIN blocks = 1..Len(blocks) /\ Len(blocks) \in Nat \ {0}
      /\ \A i \in DOMAIN blocks : blocks[i] \in KeyBlock
  OBVIOUS
<1>2. ASSUME NEW b \in KeyBlock, s = <<b>> \o blocks \/ s = Append(blocks, b)
      PROVE  KeepsPairs(blocks, s)
  <2>1. CASE s = Append(blocks, b)
    <3>1. s \in Seq(KeyBlock) /\ \A i \in DOMAIN blocks : i \in DOMAIN s /\ s[i] = blocks[i]
      BY <1>1, <2>1
    <3> QED
      BY <3>1 DEF KeepsPairs
  <2>2. CASE s = <<b>> \o blocks
    <3>1. <<b>> \in Seq(KeyBlock) /\ Len(<<b>>) = 1
      BY OneItem
    <3>2. s \in Seq(KeyBlock) /\ Len(s) = Len(blocks) + 1
      BY <2>2, <3>1
    <3>3. \A i \in DOMAIN blocks : i + 1 \in DOMAIN s /\ s[i + 1] = blocks[i]
      BY <1>1, <2>2, <3>1, <3>2
    <3> QED
      BY <3>2, <3>3 DEF KeepsPairs
  <2> QED
    BY <1>2, <2>1, <2>2
<1>3. ASSUME NEW i \in DOMAIN blocks, NEW b \in KeyBlock, b.pair = blocks[i].pair,
             s = [blocks EXCEPT ![i] = b]
      PROVE  KeepsPairs(blocks, s)
  <2>1. s \in Seq(KeyBlock) /\ DOMAIN s = DOMAIN blocks
    BY <1>1, <1>3
  <2>2. \A j \in DOMAIN blocks : s[j] = IF j = i THEN b ELSE blocks[j]
    BY <1>1, <1>3
  <2> QED
    BY <1>3, <2>1, <2>2 DEF KeepsPairs
<1>4. \A k \in Edited : Block(blocks[1].type, k) \in KeyBlock
  <2>1. blocks[1] \in KeyBlock
    BY <1>1
  <2> QED
    BY <2>1 DEF EditedAssumption, Edited, Block, KeyBlock
<1>5. \A block \in KeyBlock : \A b \in DamagedBlock(block) :
        b \in KeyBlock /\ b.pair = block.pair
  BY DEF DamagedBlock, KeyBlock
<1>6. CASE s \in OneMoreBlock(blocks)
  <2>1. \E b \in {Block(blocks[1].type, k) : k \in Edited} :
          s = <<b>> \o blocks \/ s = Append(blocks, b)
    BY <1>6, Zenon DEF OneMoreBlock
  <2> QED
    BY <1>2, <1>4, <2>1
<1>7. CASE \E i \in DOMAIN blocks : \E b \in DamagedBlock(blocks[i]) :
             s = [blocks EXCEPT ![i] = b]
  BY <1>1, <1>3, <1>5, <1>7
<1> QED
  BY <1>6, <1>7, Zenon DEF OtherBlocks

(* An edited file is a text, still, with a block of each pair it had.      *)
EditedTo(file, new) ==
  /\ file.form = "text" /\ new.form = "text" /\ new \in KeyFile
  /\ \A i \in DOMAIN file.blocks :
       \E j \in DOMAIN new.blocks : new.blocks[j].pair = file.blocks[i].pair

LEMMA EditsKeepPairs ==
  ASSUME EditedAssumption, setting \in Setting,
         NEW file \in KeyFile, NEW new \in Edits(file)
  PROVE  EditedTo(file, new)
<1>1. file.form = "text" /\ file.blocks # <<>> /\ file.blocks \in Seq(KeyBlock)
  <2>1. file.form # "raw" /\ file.blocks # <<>>
    BY DEF Edits
  <2> QED
    BY <2>1 DEF KeyFile
<1> DEFINE Opened(opens, s, ends) ==
             [form |-> "text", opens |-> opens, blocks |-> s, ends |-> ends]
<1>2. /\ file.opens \in {"begin", "other"} /\ file.ends \in {"space", "other"}
      /\ file = Opened(file.opens, file.blocks, file.ends)
  BY <1>1 DEF KeyFile
<1>3. /\ \A s : [file EXCEPT !.blocks = s] = Opened(file.opens, s, file.ends)
      /\ [file EXCEPT !.opens = "other"] = Opened("other", file.blocks, file.ends)
      /\ [file EXCEPT !.ends = "other"] = Opened(file.opens, file.blocks, "other")
  BY <1>2
<1>4. \/ \E s \in OtherBlocks(file.blocks) : new = Opened(file.opens, s, file.ends)
      \/ new = Opened("other", file.blocks, file.ends)
      \/ new = Opened(file.opens, file.blocks, "other")
  <2> HIDE DEF Opened
  <2>1. new \in {[file EXCEPT !.blocks = s] : s \in OtherBlocks(file.blocks)}
          \cup {[file EXCEPT !.opens = "other"], [file EXCEPT !.ends = "other"]}
    BY Zenon DEF Edits
  <2> QED
    BY <1>3, <2>1, Zenon
<1>5. KeepsPairs(file.blocks, file.blocks)
  BY <1>1 DEF KeepsPairs
<1>6. \E s, opens, ends :
        /\ KeepsPairs(file.blocks, s)
        /\ opens \in {"begin", "other"} /\ ends \in {"space", "other"}
        /\ new = Opened(opens, s, ends)
  <2>1. \A s \in OtherBlocks(file.blocks) : KeepsPairs(file.blocks, s)
    BY <1>1, PairsAreKept
  <2> HIDE DEF Opened
  <2> QED
    BY <1>2, <1>4, <1>5, <2>1
<1>7. PICK s, opens, ends :
        /\ KeepsPairs(file.blocks, s)
        /\ opens \in {"begin", "other"} /\ ends \in {"space", "other"}
        /\ new = Opened(opens, s, ends)
  BY <1>6
<1>8. s \in Seq(KeyBlock)
  BY <1>7 DEF KeepsPairs
<1>9. new \in KeyFile /\ new.form = "text" /\ new.blocks = s
  BY <1>7, <1>8, TextFile
<1> QED
  BY <1>1, <1>7, <1>9 DEF KeepsPairs, EditedTo

(* Of two blocks the second is taken if only that is whole.                *)
LEMMA SecondBlock ==
  ASSUME NEW a, NEW b, ~a.whole, b.whole,
         NEW file, file.form = "text", file.opens = "begin", file.ends = "space",
         file.blocks = <<a, b>>
  PROVE  DecodeKeyPEM(file) = "block" /\ FirstWhole(file) = 2 /\ file.blocks[2] = b
<1>1. /\ DOMAIN file.blocks = {1, 2} /\ Len(file.blocks) = 2 /\ file.blocks # <<>>
      /\ file.blocks[1] = a /\ file.blocks[2] = b
  OBVIOUS
<1>2. WholeBlocks(file) = {2}
  BY <1>1 DEF WholeBlocks
<1>3. FirstWhole(file) = 2
  BY <1>2 DEF FirstWhole
<1> QED
  BY <1>1, <1>2, <1>3 DEF DecodeKeyPEM, NotPEM

(* A file of two blocks, of which the first was damaged.                   *)
Damaged(type, pair) ==
  [whole |-> FALSE, type |-> type, algorithm |-> "ed25519", pair |-> pair]

DamagedFile(type, first, second) ==
  [form |-> "text", opens |-> "begin",
   blocks |-> <<Damaged(type, first), Block(type, second)>>, ends |-> "space"]

(* pem.Decode passes over a damaged block: a file with a damaged block of  *)
(* one key and then a whole block of another yields the other key, though  *)
(* material is said to be a single block (grant.go:380, :411, :462-474).   *)
THEOREM DamagedBlockIsSkipped ==
  ASSUME NEW first \in KeyPair, NEW second \in KeyPair
  PROVE  /\ ParseGrantPrivateKey(DamagedFile("PRIVATE KEY", first, second))
              = [seed |-> second, half |-> second]
         /\ ParseGrantPublicKey(DamagedFile("PUBLIC KEY", first, second)) = second
<1>1. ASSUME NEW type
      PROVE  LET file == DamagedFile(type, first, second) IN
             /\ DecodeKeyPEM(file) = "block"
             /\ PemKey(file, type) = [seed |-> second, half |-> second]
  <2> DEFINE a == Damaged(type, first)
             b == Block(type, second)
             file == DamagedFile(type, first, second)
  <2>1. /\ ~a.whole
        /\ b.whole /\ b.type = type /\ b.algorithm = "ed25519" /\ b.pair = second
    BY DEF Damaged, Block
  <2>2. file = [form |-> "text", opens |-> "begin", blocks |-> <<a, b>>, ends |-> "space"]
    BY Zenon DEF DamagedFile
  <2> HIDE DEF a, b, file
  <2>3. /\ file.form = "text" /\ file.opens = "begin" /\ file.ends = "space"
        /\ file.blocks = <<a, b>>
    BY <2>2
  <2>4. DecodeKeyPEM(file) = "block" /\ FirstWhole(file) = 2 /\ file.blocks[2] = b
    BY <2>1, <2>3, SecondBlock
  <2>5. PemKey(file, type) = [seed |-> second, half |-> second]
    BY <2>1, <2>4 DEF PemKey
  <2> QED
    BY <2>4, <2>5 DEF file
<1>2. ASSUME NEW file, DecodeKeyPEM(file) = "block",
             PemKey(file, "PRIVATE KEY") = [seed |-> second, half |-> second]
      PROVE  ParseGrantPrivateKey(file) = [seed |-> second, half |-> second]
  BY <1>2 DEF ParseGrantPrivateKey
<1>3. ASSUME NEW file, DecodeKeyPEM(file) = "block",
             PemKey(file, "PUBLIC KEY") = [seed |-> second, half |-> second]
      PROVE  ParseGrantPublicKey(file) = second
  <2>1. PemKey(file, "PUBLIC KEY").half = second
    BY <1>3, BothHalves, Zenon
  <2> QED
    BY <1>3, <2>1 DEF ParseGrantPublicKey
<1> QED
  BY <1>1, <1>2, <1>3

-----------------------------------------------------------------------------
(* The inductive invariant: the files are key material, the last key read  *)
(* out of a file is still in it, and a text holds what was signed with the *)
(* signer's key, under a signature of just that, unless a time in its      *)
(* payload was damaged.                                                    *)

Files ==
  setting \in Setting /\ signerFile \in KeyFile /\ readerFile \in KeyFile

(* A file yields the key that it yielded last or none; that key is one of  *)
(* its blocks', if it does not yield it.                                   *)
KeyIsHeld(file, key, last) ==
  /\ last \in KeyPair \cup {Missing}
  /\ key \in {last, Missing}
  /\ \/ last \in {key, Missing}
     \/ /\ file.form = "text"
        /\ \E i \in DOMAIN file.blocks : file.blocks[i].pair = last

KeysHeld ==
  /\ KeyIsHeld(signerFile, ParseGrantPrivateKey(signerFile).seed, signerKey)
  /\ KeyIsHeld(readerFile, ParseGrantPublicKey(readerFile), readerKey)

Zero(kind) == IF kind = "grant" THEN NoGrant ELSE NoControlGrant

(* Two claims that the other kind of grant does not have.                  *)
Own(kind) == IF kind = "grant" THEN {"scopes", "maxHop"}
             ELSE {"controlAction", "controlScope"}

(* What the validator has seen of the claims that are signed.              *)
Shaped(kind, c) ==
  /\ c = [f \in DOMAIN Zero(kind) |-> c[f]]
  /\ c # Zero(kind)
  /\ kind = "grant" => c.rootRequestDigest \in RootDigest /\ c.descriptor \in Descriptor

Holds(t, s) ==
  /\ s = [kind |-> s.kind, release |-> s.release, field |-> s.field, key |-> s.key]
  /\ t = [prefix |-> t.prefix, payload |-> t.payload, signature |-> t.signature,
          spelled |-> t.spelled]
  /\ s.kind \in {"grant", "control"} /\ s.release \in {"this", "other"}
  /\ s.key = ParseGrantPrivateKey(signerFile) /\ s.key # NoKey
  /\ DOMAIN t.spelled = {"payload", "signature"}
  /\ t.payload = [canonical |-> t.payload.canonical, field |-> t.payload.field]
  /\ DOMAIN t.payload.field = DOMAIN s.field /\ "v" \in DOMAIN s.field
  /\ t.signature = Signature(s.key, [canonical |-> t.payload.canonical,
                                     field |-> s.field])
  /\ Own(s.kind) \cap DOMAIN s.field # {}
  /\ s.release = "this" =>
       /\ t.payload.canonical
       /\ \E c : Shaped(s.kind, c) /\ s.field = Marshal(c).field

NothingSigned == signed = None /\ text = None /\ read = None

TransitInv ==
  /\ Files
  /\ KeysHeld
  /\ NothingSigned \/ Holds(text, signed)
  /\ ReadAsSigned

-----------------------------------------------------------------------------
(* Signing *)

(* The names of the claims.                                                *)
LEMMA NamesOfClaims ==
  /\ "v" \notin DOMAIN NoGrant /\ "v" \notin DOMAIN NoControlGrant
  /\ {"scopes", "maxHop"} \subseteq DOMAIN NoGrant
  /\ {"scopes", "maxHop"} \cap ({"v"} \cup DOMAIN NoControlGrant) = {}
  /\ {"controlAction", "controlScope"} \subseteq DOMAIN NoControlGrant
  /\ {"controlAction", "controlScope"} \cap ({"v"} \cup DOMAIN NoGrant) = {}
BY DEF NoGrant, NoControlGrant

(* What is signed has the names of its claims, and has passed the validator. *)
LEMMA SignedIsShaped ==
  ASSUME NEW codec, NEW claims, NEW now
  PROVE  /\ LET c == Sign(codec, claims, now) IN
            DOMAIN claims = DOMAIN NoGrant /\ c # NoGrant => Shaped("grant", c)
         /\ LET c == SignOperationControlGrant(codec, claims, now) IN
            DOMAIN claims = DOMAIN NoControlGrant /\ c # NoControlGrant
              => Shaped("control", c)
<1>1. ASSUME DOMAIN claims = DOMAIN NoGrant, Sign(codec, claims, now) # NoGrant
      PROVE  Shaped("grant", Sign(codec, claims, now))
  <2> DEFINE c == Sign(codec, claims, now)
  <2>1. c = [f \in DOMAIN claims |-> c[f]] /\ \E ttl : ValidateGrantClaims(c, ttl)
    BY <1>1 DEF Sign
  <2>2. c.rootRequestDigest \in RootDigest /\ c.descriptor \in Descriptor
    BY <2>1 DEF ValidateGrantClaims
  <2> HIDE DEF c
  <2>3. Shaped("grant", c)
    BY <1>1, <2>1, <2>2 DEF Shaped, Zero, c
  <2> QED
    BY <2>3 DEF c
<1>2. ASSUME DOMAIN claims = DOMAIN NoControlGrant,
             SignOperationControlGrant(codec, claims, now) # NoControlGrant
      PROVE  Shaped("control", SignOperationControlGrant(codec, claims, now))
  <2> DEFINE c == SignOperationControlGrant(codec, claims, now)
  <2>1. c = [f \in DOMAIN claims |-> c[f]]
    BY <1>2 DEF SignOperationControlGrant
  <2> HIDE DEF c
  <2>2. Shaped("control", c)
    BY <1>2, <2>1 DEF Shaped, Zero, c
  <2> QED
    BY <2>2 DEF c
<1> QED
  BY <1>1, <1>2

Prefix(kind) == IF kind = "grant" THEN "grant-v1" ELSE "control-grant-v1"

(* A text that this release signs holds claims that have passed.           *)
LEMMA SignedText ==
  ASSUME ClaimsAssumption, setting \in Setting, NEW codec, NEW now
  PROVE  /\ \A claims \in RootClaims :
              LET t == SignText(codec, claims, signerFile, now) IN
              t # None =>
                /\ ParseGrantPrivateKey(signerFile) # NoKey
                /\ \E c : /\ Shaped("grant", c)
                          /\ t = GrantText(Prefix("grant"), Marshal(c),
                                           ParseGrantPrivateKey(signerFile))
         /\ \A claims \in ControlClaims :
              LET t == SignControlText(codec, claims, signerFile, now) IN
              t # None =>
                /\ ParseGrantPrivateKey(signerFile) # NoKey
                /\ \E c : /\ Shaped("control", c)
                          /\ t = GrantText(Prefix("control"), Marshal(c),
                                           ParseGrantPrivateKey(signerFile))
<1>1. ASSUME NEW claims \in RootClaims,
             SignText(codec, claims, signerFile, now) # None
      PROVE  /\ ParseGrantPrivateKey(signerFile) # NoKey
             /\ Sign(codec, claims, now) # NoGrant
             /\ SignText(codec, claims, signerFile, now)
                  = GrantText("grant-v1", Marshal(Sign(codec, claims, now)),
                              ParseGrantPrivateKey(signerFile))
  BY <1>1, Zenon DEF SignText, Fitting, MarshalGrantClaims
<1>2. ASSUME NEW claims \in ControlClaims,
             SignControlText(codec, claims, signerFile, now) # None
      PROVE  /\ ParseGrantPrivateKey(signerFile) # NoKey
             /\ SignOperationControlGrant(codec, claims, now) # NoControlGrant
             /\ SignControlText(codec, claims, signerFile, now)
                  = GrantText("control-grant-v1",
                              Marshal(SignOperationControlGrant(codec, claims, now)),
                              ParseGrantPrivateKey(signerFile))
  BY <1>2, Zenon DEF SignControlText, Fitting
<1>3. Prefix("grant") = "grant-v1" /\ Prefix("control") = "control-grant-v1"
  BY DEF Prefix
<1> QED
  BY <1>1, <1>2, <1>3, SignedIsShaped, Zenon
     DEF ClaimsAssumption, RootClaims, ControlClaims

(* The fields of marshalled claims.                                        *)
LEMMA MarshalledFields ==
  ASSUME NEW kind \in {"grant", "control"}, NEW c, Shaped(kind, c)
  PROVE  LET p == Marshal(c) IN
         /\ p = [canonical |-> TRUE, field |-> p.field]
         /\ DOMAIN p.field = {"v"} \cup DOMAIN Zero(kind)
         /\ p.field["v"] = 1
         /\ [f \in DOMAIN Zero(kind) |-> p.field[f]] = c
<1> DEFINE field == [f \in {"v"} \cup DOMAIN c |-> IF f = "v" THEN 1 ELSE c[f]]
<1>1. c = [f \in DOMAIN Zero(kind) |-> c[f]] /\ "v" \notin DOMAIN Zero(kind)
  BY NamesOfClaims DEF Shaped, Zero
<1>2. DOMAIN c = DOMAIN Zero(kind)
  BY <1>1
<1>3. DOMAIN field = {"v"} \cup DOMAIN Zero(kind) /\ field["v"] = 1
  BY <1>2
<1>4. \A f \in DOMAIN Zero(kind) : field[f] = c[f]
  BY <1>1, <1>2
<1>5. Marshal(c) = [canonical |-> TRUE, field |-> field]
  BY DEF Marshal
<1> HIDE DEF field
<1>6. [f \in DOMAIN Zero(kind) |-> field[f]] = c
  BY <1>1, <1>4
<1> QED
  BY <1>3, <1>5, <1>6

(* A payload that may be signed.                                           *)
Signable(kind, payload) ==
  /\ payload = [canonical |-> payload.canonical, field |-> payload.field]
  /\ "v" \in DOMAIN payload.field
  /\ Own(kind) \cap DOMAIN payload.field # {}

LEMMA NewTextHolds ==
  ASSUME NEW kind \in {"grant", "control"}, NEW release \in {"this", "other"},
         NEW payload, Signable(kind, payload),
         release = "this" =>
           /\ payload.canonical
           /\ \E c : Shaped(kind, c) /\ payload.field = Marshal(c).field,
         ParseGrantPrivateKey(signerFile) # NoKey,
         Signed(kind, release,
                GrantText(Prefix(kind), payload, ParseGrantPrivateKey(signerFile)))
  PROVE  Holds(text, signed)' /\ read' = None
<1> DEFINE key == ParseGrantPrivateKey(signerFile)
           new == GrantText(Prefix(kind), payload, key)
<1>1. new = [prefix |-> Prefix(kind), payload |-> payload,
             signature |-> Signature(key, payload),
             spelled |-> [p \in {"payload", "signature"} |-> "exact"]]
  BY DEF GrantText
<1>2. /\ text' = new /\ read' = None /\ signerFile' = signerFile
      /\ signed' = [kind |-> kind, release |-> release, field |-> new.payload.field,
                    key |-> key]
  BY DEF Signed
<1>3. key = ParseGrantPrivateKey(signerFile)' /\ key # NoKey
  BY <1>2
<1> HIDE DEF new, key
<1>4. /\ text' = [prefix |-> text'.prefix, payload |-> text'.payload,
                  signature |-> text'.signature, spelled |-> text'.spelled]
      /\ text'.payload = payload /\ text'.signature = Signature(key, payload)
      /\ DOMAIN text'.spelled = {"payload", "signature"}
  BY <1>1, <1>2
<1>5. /\ signed' = [kind |-> signed'.kind, release |-> signed'.release,
                    field |-> signed'.field, key |-> signed'.key]
      /\ signed'.kind = kind /\ signed'.release = release
      /\ signed'.field = payload.field /\ signed'.key = key
  BY <1>1, <1>2
<1> QED
  BY <1>2, <1>3, <1>4, <1>5 DEF Holds, Signable

(* What this and other releases make of claims may be signed.              *)
LEMMA OtherPayloadsSignable ==
  ASSUME NEW kind \in {"grant", "control"}, NEW c, Shaped(kind, c)
  PROVE  /\ Signable(kind, Marshal(c)) /\ Marshal(c).canonical
         /\ \A payload \in OtherPayloads(Marshal(c)) : Signable(kind, payload)
<1> DEFINE p == Marshal(c)
<1>1. /\ p = [canonical |-> TRUE, field |-> p.field]
      /\ DOMAIN p.field = {"v"} \cup DOMAIN Zero(kind)
  BY MarshalledFields
<1>2. Own(kind) \subseteq DOMAIN p.field /\ "v" \notin Own(kind)
  BY <1>1, NamesOfClaims DEF Own, Zero
<1>3. Own(kind) # {} /\ \A x : Own(kind) \ {x} # {}
  BY DEF Own
<1> HIDE DEF p
<1>4. ASSUME NEW payload \in OtherPayloads(p)
      PROVE  /\ payload = [canonical |-> payload.canonical, field |-> payload.field]
             /\ "v" \in DOMAIN payload.field
             /\ \E x : Own(kind) \ {x} \subseteq DOMAIN payload.field
  <2> DEFINE known == DOMAIN p.field
             Noted == [f \in known \cup {"note"} |->
                         IF f = "note" THEN Missing ELSE p.field[f]]
             Without(absent) == [f \in known \ {absent} |-> p.field[f]]
  <2>1. \/ payload = [p EXCEPT !.field["v"] = @ + 1]
        \/ payload = [p EXCEPT !.canonical = FALSE]
        \/ payload = [p EXCEPT !.field = Noted]
        \/ \E absent \in known \ {"v"} : payload = [p EXCEPT !.field = Without(absent)]
    BY <1>4, Zenon DEF OtherPayloads
  <2>2. \A field : [p EXCEPT !.field = field]
                     = [canonical |-> p.canonical, field |-> field]
    BY <1>1
  <2>3. \A field : /\ [canonical |-> p.canonical, field |-> field].canonical = p.canonical
                  /\ [canonical |-> p.canonical, field |-> field].field = field
    OBVIOUS
  <2>4. CASE payload = [p EXCEPT !.field["v"] = @ + 1]
    <3>1. payload = [p EXCEPT !.field = [p.field EXCEPT !["v"] = @ + 1]]
      BY <1>1, <2>4
    <3>2. DOMAIN [p.field EXCEPT !["v"] = @ + 1] = known
      OBVIOUS
    <3> HIDE DEF known
    <3>3. payload.field = [p.field EXCEPT !["v"] = @ + 1]
          /\ payload = [canonical |-> payload.canonical, field |-> payload.field]
      BY <2>2, <2>3, <3>1
    <3>4. DOMAIN payload.field = known
      BY <3>2, <3>3
    <3> QED
      BY <1>1, <1>2, <3>3, <3>4 DEF known
  <2>5. CASE payload = [p EXCEPT !.canonical = FALSE]
    BY <1>1, <1>2, <2>5
  <2>6. CASE payload = [p EXCEPT !.field = Noted]
    <3>1. DOMAIN Noted = known \cup {"note"}
      OBVIOUS
    <3> HIDE DEF Noted
    <3> QED
      BY <1>1, <1>2, <2>2, <2>3, <2>6, <3>1
  <2>7. ASSUME NEW absent \in known \ {"v"}, payload = [p EXCEPT !.field = Without(absent)]
        PROVE  /\ payload = [canonical |-> payload.canonical, field |-> payload.field]
               /\ DOMAIN payload.field = known \ {absent}
    <3>1. DOMAIN Without(absent) = known \ {absent}
      OBVIOUS
    <3> HIDE DEF Without
    <3> QED
      BY <2>2, <2>3, <2>7, <3>1
  <2>8. ASSUME NEW absent \in known \ {"v"}, payload = [p EXCEPT !.field = Without(absent)]
        PROVE  Own(kind) \ {absent} \subseteq DOMAIN payload.field
               /\ "v" \in DOMAIN payload.field
    BY <1>1, <1>2, <2>7, <2>8
  <2> HIDE DEF known, Noted, Without
  <2> QED
    BY <2>1, <2>4, <2>5, <2>6, <2>7, <2>8
<1>5. ASSUME NEW payload \in OtherPayloads(p)
      PROVE  Own(kind) \cap DOMAIN payload.field # {}
  BY <1>3, <1>4
<1> QED
  BY <1>1, <1>2, <1>3, <1>4, <1>5 DEF p, Signable

(* A text that is signed anew holds what was signed.                       *)
LEMMA SignedHolds ==
  ASSUME ClaimsAssumption, setting \in Setting,
         SignGrant \/ SignControlGrant \/ SignElsewhere
  PROVE  Holds(text, signed)' /\ read' = None
<1>1. CASE SignGrant
  <2>1. PICK codec \in SignerCodec, claims \in RootClaims, now \in SignTime :
          Signed("grant", "this", SignText(codec, claims, signerFile, now))
    BY <1>1 DEF SignGrant
  <2>2. SignText(codec, claims, signerFile, now) # None
    BY <2>1 DEF Signed
  <2>3. PICK c : /\ Shaped("grant", c)
                 /\ SignText(codec, claims, signerFile, now)
                      = GrantText(Prefix("grant"), Marshal(c),
                                  ParseGrantPrivateKey(signerFile))
    BY <2>2, SignedText
  <2>4. ParseGrantPrivateKey(signerFile) # NoKey
    BY <2>2, SignedText
  <2> QED
    BY <2>1, <2>3, <2>4, OtherPayloadsSignable, NewTextHolds
<1>2. CASE SignControlGrant
  <2>1. PICK codec \in SignerCodec, claims \in ControlClaims, now \in SignTime :
          Signed("control", "this", SignControlText(codec, claims, signerFile, now))
    BY <1>2 DEF SignControlGrant
  <2>2. SignControlText(codec, claims, signerFile, now) # None
    BY <2>1 DEF Signed
  <2>3. PICK c : /\ Shaped("control", c)
                 /\ SignControlText(codec, claims, signerFile, now)
                      = GrantText(Prefix("control"), Marshal(c),
                                  ParseGrantPrivateKey(signerFile))
    BY <2>2, SignedText
  <2>4. ParseGrantPrivateKey(signerFile) # NoKey
    BY <2>2, SignedText
  <2> QED
    BY <2>1, <2>3, <2>4, OtherPayloadsSignable, NewTextHolds
<1>3. ASSUME NEW kind \in {"grant", "control"}, NEW c, Shaped(kind, c), NEW t,
             ParseGrantPrivateKey(signerFile) # NoKey,
             t = GrantText(Prefix(kind), Marshal(c), ParseGrantPrivateKey(signerFile)),
             NEW payload \in OtherPayloads(t.payload),
             Signed(kind, "other",
                    GrantText(t.prefix, payload, ParseGrantPrivateKey(signerFile)))
      PROVE  Holds(text, signed)' /\ read' = None
  <2>1. t.payload = Marshal(c) /\ t.prefix = Prefix(kind)
    BY <1>3 DEF GrantText
  <2> QED
    BY <1>3, <2>1, OtherPayloadsSignable, NewTextHolds
<1>4. ASSUME NEW kind \in {"grant", "control"}, NEW t, t # None,
             ParseGrantPrivateKey(signerFile) # NoKey,
             \E c : /\ Shaped(kind, c)
                   /\ t = GrantText(Prefix(kind), Marshal(c),
                                    ParseGrantPrivateKey(signerFile)),
             \E payload \in OtherPayloads(t.payload) :
               Signed(kind, "other",
                      GrantText(t.prefix, payload, ParseGrantPrivateKey(signerFile)))
      PROVE  Holds(text, signed)' /\ read' = None
  BY <1>3, <1>4
<1>5. CASE SignElsewhere
  <2>1. PICK codec \in SignerCodec, now \in SignTime :
          \/ \E claims \in RootClaims :
               /\ SignText(codec, claims, signerFile, now) # None
               /\ \E payload \in
                      OtherPayloads(SignText(codec, claims, signerFile, now).payload) :
                    Signed("grant", "other",
                           GrantText(SignText(codec, claims, signerFile, now).prefix,
                                     payload, ParseGrantPrivateKey(signerFile)))
          \/ \E claims \in ControlClaims :
               /\ SignControlText(codec, claims, signerFile, now) # None
               /\ \E payload \in
                      OtherPayloads(SignControlText(codec, claims, signerFile, now).payload) :
                    Signed("control", "other",
                           GrantText(SignControlText(codec, claims, signerFile, now).prefix,
                                     payload, ParseGrantPrivateKey(signerFile)))
    BY <1>5, Zenon DEF SignElsewhere
  <2>2. ASSUME NEW claims \in RootClaims,
               SignText(codec, claims, signerFile, now) # None,
               \E payload \in
                 OtherPayloads(SignText(codec, claims, signerFile, now).payload) :
                 Signed("grant", "other",
                        GrantText(SignText(codec, claims, signerFile, now).prefix,
                                  payload, ParseGrantPrivateKey(signerFile)))
        PROVE  Holds(text, signed)' /\ read' = None
    BY <1>4, <2>2, SignedText
  <2>3. ASSUME NEW claims \in ControlClaims,
               SignControlText(codec, claims, signerFile, now) # None,
               \E payload \in
                 OtherPayloads(SignControlText(codec, claims, signerFile, now).payload) :
                 Signed("control", "other",
                        GrantText(SignControlText(codec, claims, signerFile, now).prefix,
                                  payload, ParseGrantPrivateKey(signerFile)))
        PROVE  Holds(text, signed)' /\ read' = None
    BY <1>4, <2>3, SignedText
  <2> QED
    BY <2>1, <2>2, <2>3
<1> QED
  BY <1>1, <1>2, <1>5

-----------------------------------------------------------------------------
(* On the way *)

(* However a text is respelled, relabelled or damaged, it holds what was   *)
(* signed under the signature it was given.                                *)
LEMMA CarriedHolds ==
  ASSUME Holds(text, signed), Respell \/ Relabel \/ Damage
  PROVE  Holds(text, signed)' /\ read' = None /\ UNCHANGED <<signerFile, readerFile>>
<1>1. /\ UNCHANGED <<signerFile, readerFile, signed>> /\ read' = None
      /\ \E spelled, prefix, field :
           /\ text' = [prefix |-> prefix, payload |-> [canonical |-> text.payload.canonical,
                                                       field |-> field],
                       signature |-> text.signature, spelled |-> spelled]
           /\ DOMAIN spelled = {"payload", "signature"}
           /\ DOMAIN field = DOMAIN text.payload.field
  <2>1. /\ text = [prefix |-> text.prefix, payload |-> text.payload,
                   signature |-> text.signature, spelled |-> text.spelled]
        /\ text.payload = [canonical |-> text.payload.canonical,
                           field |-> text.payload.field]
        /\ DOMAIN text.spelled = {"payload", "signature"}
    BY DEF Holds
  <2>2. CASE Respell
    <3>1. PICK p \in {"payload", "signature"}, spelling \in Spellings :
            Carried([text EXCEPT !.spelled[p] = spelling])
      BY <2>2 DEF Respell
    <3> DEFINE spelled == [text.spelled EXCEPT ![p] = spelling]
    <3>2. DOMAIN spelled = {"payload", "signature"}
      BY <2>1
    <3>3. [text EXCEPT !.spelled[p] = spelling]
            = [prefix |-> text.prefix, payload |-> text.payload,
               signature |-> text.signature, spelled |-> spelled]
      BY <2>1
    <3> HIDE DEF spelled
    <3>4. text' = [prefix |-> text.prefix,
                   payload |-> [canonical |-> text.payload.canonical,
                                field |-> text.payload.field],
                   signature |-> text.signature, spelled |-> spelled]
      BY <2>1, <3>1, <3>3 DEF Carried
    <3> QED
      BY <3>1, <3>2, <3>4 DEF Carried
  <2>3. CASE Relabel
    <3>1. PICK prefix \in {"grant-v1", "control-grant-v1"} :
            Carried([text EXCEPT !.prefix = prefix])
      BY <2>3 DEF Relabel
    <3>2. text' = [prefix |-> prefix,
                   payload |-> [canonical |-> text.payload.canonical,
                                field |-> text.payload.field],
                   signature |-> text.signature, spelled |-> text.spelled]
      BY <2>1, <3>1 DEF Carried
    <3> QED
      BY <2>1, <3>1, <3>2 DEF Carried
  <2>4. CASE Damage
    <3>1. PICK f \in {"issuedAt", "expiresAt"} \cap DOMAIN signed.field :
            Carried([text EXCEPT !.payload.field[f] = @ + 1])
      BY <2>4 DEF Damage
    <3> DEFINE field == [text.payload.field EXCEPT ![f] = @ + 1]
    <3>2. DOMAIN field = DOMAIN text.payload.field
      OBVIOUS
    <3>3. [text EXCEPT !.payload.field[f] = @ + 1]
            = [prefix |-> text.prefix,
               payload |-> [text.payload EXCEPT !.field = field],
               signature |-> text.signature, spelled |-> text.spelled]
      BY <2>1
    <3>4. [text.payload EXCEPT !.field = field]
            = [canonical |-> text.payload.canonical, field |-> field]
      BY <2>1
    <3> HIDE DEF field
    <3>5. text' = [prefix |-> text.prefix,
                   payload |-> [canonical |-> text.payload.canonical, field |-> field],
                   signature |-> text.signature, spelled |-> text.spelled]
      BY <3>1, <3>3, <3>4 DEF Carried
    <3> QED
      BY <2>1, <3>1, <3>2, <3>5 DEF Carried
  <2> QED
    BY <2>2, <2>3, <2>4
<1>2. PICK spelled, prefix, field :
           /\ text' = [prefix |-> prefix, payload |-> [canonical |-> text.payload.canonical,
                                                       field |-> field],
                       signature |-> text.signature, spelled |-> spelled]
           /\ DOMAIN spelled = {"payload", "signature"}
           /\ DOMAIN field = DOMAIN text.payload.field
  BY <1>1
<1>3. /\ text' = [prefix |-> text'.prefix, payload |-> text'.payload,
                  signature |-> text'.signature, spelled |-> text'.spelled]
      /\ text'.payload = [canonical |-> text.payload.canonical, field |-> field]
      /\ text'.payload = [canonical |-> text'.payload.canonical,
                          field |-> text'.payload.field]
      /\ text'.payload.canonical = text.payload.canonical
      /\ text'.payload.field = field
      /\ text'.signature = text.signature /\ text'.spelled = spelled
  BY <1>2
<1>4. ParseGrantPrivateKey(signerFile)' = ParseGrantPrivateKey(signerFile)
      /\ signed' = signed
  BY <1>1
<1> QED
  BY <1>1, <1>2, <1>3, <1>4, Zenon DEF Holds

-----------------------------------------------------------------------------
(* Reading *)

(* What is read out of a text under a key was signed with that key.        *)
LEMMA AuthenticHolds ==
  ASSUME NEW t, NEW s, Holds(t, s), NEW prefix, Authentic(t, readerFile, prefix)
  PROVE  LET pair == ParseGrantPublicKey(readerFile) IN
         /\ s.key = [seed |-> pair, half |-> pair]
         /\ t.payload.field = s.field
<1> DEFINE pair == ParseGrantPublicKey(readerFile)
           canonical == t.payload.canonical
<1>1. t.signature = Signature([seed |-> pair, half |-> pair], t.payload)
  BY DEF Authentic, SignatureVerifies
<1>2. /\ t.signature = Signature(s.key, [canonical |-> canonical, field |-> s.field])
      /\ t.payload = [canonical |-> canonical, field |-> t.payload.field]
  BY DEF Holds
<1>3. \A k1, k2, p1, p2 : Signature(k1, p1) = Signature(k2, p2) => k1 = k2 /\ p1 = p2
  BY DEF Signature
<1>4. /\ s.key = [seed |-> pair, half |-> pair]
      /\ t.payload = [canonical |-> canonical, field |-> s.field]
  <2> HIDE DEF pair, canonical
  <2>1. Signature([seed |-> pair, half |-> pair], t.payload)
          = Signature(s.key, [canonical |-> canonical, field |-> s.field])
    BY <1>1, <1>2
  <2> QED
    BY <1>3, <2>1
<1> QED
  BY <1>4

(* What is read is what was signed.                                        *)
LEMMA DecodedIsSigned ==
  ASSUME Holds(text, signed), NEW kind \in {"grant", "control"}, NEW prefix,
         Authentic(text, readerFile, prefix),
         OnlyKnownFields(Zero(kind), text.payload), text.payload.field["v"] = 1,
         UNCHANGED <<readerFile, signed>>,
         read' = [kind |-> kind, claims |-> Decoded(Zero(kind), text.payload)]
  PROVE  ReadAsSigned'
<1> DEFINE c == Decoded(Zero(kind), text.payload)
<1>1. text.payload.field = signed.field
      /\ signed.key = [seed |-> ParseGrantPublicKey(readerFile),
                       half |-> ParseGrantPublicKey(readerFile)]
  BY AuthenticHolds
<1>2. DOMAIN signed.field \subseteq {"v"} \cup DOMAIN Zero(kind)
  BY <1>1 DEF OnlyKnownFields
<1>3. signed.kind = kind
  <2>1. Own(signed.kind) \cap ({"v"} \cup DOMAIN Zero(kind)) # {}
    BY <1>2 DEF Holds
  <2>2. signed.kind \in {"grant", "control"}
    BY DEF Holds
  <2> QED
    BY <2>1, <2>2, NamesOfClaims DEF Own, Zero
<1>4. /\ DOMAIN c = DOMAIN Zero(kind)
      /\ \A f \in DOMAIN c : c[f] = IF f \in DOMAIN signed.field THEN signed.field[f]
                                   ELSE Zero(kind)[f]
  BY <1>1 DEF Decoded
<1>5. /\ signed' = signed /\ ParseGrantPublicKey(readerFile)' = ParseGrantPublicKey(readerFile)
      /\ read'.kind = kind /\ read'.claims = c
  OBVIOUS
<1>6. \A f : Zero(kind)[f] = IF kind = "grant" THEN NoGrant[f] ELSE NoControlGrant[f]
  BY DEF Zero
<1> HIDE DEF c
<1> QED
  BY <1>1, <1>2, <1>3, <1>4, <1>5, <1>6 DEF ReadAsSigned

LEMMA ReadIsSigned ==
  ASSUME NothingSigned \/ Holds(text, signed), ReadGrant \/ ReadControlGrant
  PROVE  ReadAsSigned'
<1>1. Holds(text, signed) /\ UNCHANGED <<readerFile, signed>>
  BY DEF ReadGrant, ReadControlGrant, NothingSigned
<1>2. CASE ReadGrant
  <2>1. PICK b \in AgentBinding, now \in ReadTime :
          read' = IF ReadRoot(text, readerFile, now, b) = NoGrant THEN None
                  ELSE [kind |-> "grant", claims |-> ReadRoot(text, readerFile, now, b)]
    BY <1>2 DEF ReadGrant
  <2>2. CASE ReadRoot(text, readerFile, now, b) = NoGrant
    BY <2>1, <2>2 DEF ReadAsSigned
  <2>3. CASE ReadRoot(text, readerFile, now, b) # NoGrant
    <3>1. /\ Authentic(text, readerFile, "grant-v1")
          /\ UnmarshalGrantClaims(text.payload) # NoGrant
          /\ ReadRoot(text, readerFile, now, b) = UnmarshalGrantClaims(text.payload)
      BY <2>3, Zenon DEF ReadRoot
    <3>2. /\ OnlyKnownFields(NoGrant, text.payload) /\ text.payload.field["v"] = 1
          /\ UnmarshalGrantClaims(text.payload) = Decoded(NoGrant, text.payload)
      BY <3>1, Zenon DEF UnmarshalGrantClaims, CapabilityGrantVersion
    <3>3. Zero("grant") = NoGrant
      BY DEF Zero
    <3> QED
      BY <1>1, <2>1, <2>3, <3>1, <3>2, <3>3, DecodedIsSigned
  <2> QED
    BY <2>2, <2>3
<1>3. CASE ReadControlGrant
  <2>1. PICK b \in AgentControl, now \in ReadTime :
          read' = IF ReadControl(text, readerFile, now, b) = NoControlGrant THEN None
                  ELSE [kind |-> "control",
                        claims |-> ReadControl(text, readerFile, now, b)]
    BY <1>3 DEF ReadControlGrant
  <2>2. CASE ReadControl(text, readerFile, now, b) = NoControlGrant
    BY <2>1, <2>2 DEF ReadAsSigned
  <2>3. CASE ReadControl(text, readerFile, now, b) # NoControlGrant
    <3>1. /\ Authentic(text, readerFile, "control-grant-v1")
          /\ UnmarshalControlGrant(text.payload) # NoControlGrant
          /\ ReadControl(text, readerFile, now, b) = UnmarshalControlGrant(text.payload)
      BY <2>3, Zenon DEF ReadControl
    <3>2. /\ OnlyKnownFields(NoControlGrant, text.payload)
          /\ text.payload.field["v"] = 1
          /\ UnmarshalControlGrant(text.payload) = Decoded(NoControlGrant, text.payload)
      BY <3>1, Zenon DEF UnmarshalControlGrant, OperationControlGrantVersion
    <3>3. Zero("control") = NoControlGrant
      BY DEF Zero
    <3> QED
      BY <1>1, <2>1, <2>3, <3>1, <3>2, <3>3, DecodedIsSigned
  <2> QED
    BY <2>2, <2>3
<1> QED
  BY <1>2, <1>3

LEMMA NewFile ==
  ASSUME Afresh
  PROVE  NothingSigned' /\ ReadAsSigned'
BY DEF Afresh, NothingSigned, ReadAsSigned

-----------------------------------------------------------------------------
(* The invariant *)

Assumptions == EditedAssumption /\ KeyAssumption /\ ClaimsAssumption

(* Key material stays key material.                                        *)
LEMMA FilesStay ==
  ASSUME Assumptions, Files, [Next]_vars
  PROVE  Files'
<1>0. setting' = setting
  BY DEF Next, vars
<1>1. CASE StoreSigner
  <2>1. ParseGrantPrivateKey(signerFile) \in KeyType
    BY <1>1, KeysOfPairs DEF Files, Assumptions, KeyAssumption, StoreSigner
  <2>2. ParseGrantPrivateKey(signerFile).seed \in KeyPair
    BY <2>1 DEF KeyType
  <2> QED
    BY <1>0, <1>1, <2>2, StoredIsRead DEF Files, StoreSigner, MarshalGrantPrivateKeyPEM
<1>2. CASE StoreReader
  <2>1. ParseGrantPublicKey(readerFile) \in KeyPair
    BY <1>2, KeysOfPairs DEF Files, Assumptions, KeyAssumption, StoreReader
  <2> QED
    BY <1>0, <1>2, <2>1, StoredIsRead DEF Files, StoreReader, MarshalGrantPublicKeyPEM
<1>3. CASE Publish
  <2>1. ParseGrantPrivateKey(signerFile) \in KeyType
    BY <1>3, KeysOfPairs DEF Files, Assumptions, KeyAssumption, Publish
  <2>2. ParseGrantPrivateKey(signerFile).half \in KeyPair
    BY <2>1 DEF KeyType
  <2>3. \A pair \in KeyPair : RawPublic(pair) \in KeyFile
    BY DEF RawPublic, KeyFile
  <2> QED
    BY <1>0, <1>3, <2>2, <2>3 DEF Files, Publish
<1>4. CASE EditSigner \/ EditReader
  BY <1>0, <1>4, EditsKeepPairs DEF Files, EditSigner, EditReader, EditedTo, Assumptions
<1>5. CASE UNCHANGED <<signerFile, readerFile>>
  BY <1>0, <1>5 DEF Files
<1>6. CASE SignGrant \/ SignControlGrant \/ SignElsewhere
  BY <1>5, <1>6 DEF SignGrant, SignControlGrant, SignElsewhere, Signed
<1>7. CASE Respell \/ Relabel \/ Damage
  BY <1>5, <1>7 DEF Respell, Relabel, Damage, Carried
<1>8. CASE ReadGrant \/ ReadControlGrant
  BY <1>5, <1>8 DEF ReadGrant, ReadControlGrant
<1>9. CASE UNCHANGED vars
  BY <1>5, <1>9 DEF vars
<1> QED
  BY <1>1, <1>2, <1>3, <1>4, <1>6, <1>7, <1>8, <1>9 DEF Next

(* A key that was read out of a file is held there.                        *)
LEMMA HeldAnew ==
  ASSUME Missing \notin KeyPair, NEW file, NEW key \in KeyPair, NEW last
  PROVE  KeyIsHeld(file, key, Latest(key, last))
BY DEF KeyIsHeld, Latest

LEMMA HeldOn ==
  ASSUME NEW file, NEW key, NEW last, KeyIsHeld(file, key, last)
  PROVE  Latest(key, last) = last
BY DEF KeyIsHeld, Latest

(* An edited file still holds its key: if it yields one, either its block  *)
(* is the one that is whole, or it was damaged.                            *)
LEMMA HeldThroughEdit ==
  ASSUME Missing \notin KeyPair, NEW file, NEW new, EditedTo(file, new),
         NEW key, NEW last, KeyIsHeld(file, key, last),
         key # Missing => OneWhole(file, key),
         NEW other \in KeyPair \cup {Missing}, other # Missing => OneWhole(new, other)
  PROVE  /\ KeyIsHeld(new, other, Latest(other, last))
         /\ other \in {last, Missing} \/ last = Missing \/ IsSkipped(new, last)
<1>1. last # Missing => /\ new.form = "text"
                        /\ \E j \in DOMAIN new.blocks : new.blocks[j].pair = last
  <2>1. SUFFICES ASSUME last # Missing
                 PROVE  /\ new.form = "text"
                        /\ \E j \in DOMAIN new.blocks : new.blocks[j].pair = last
    OBVIOUS
  <2>2. PICK i \in DOMAIN file.blocks : file.blocks[i].pair = last
    BY <2>1 DEF KeyIsHeld, OneWhole
  <2> QED
    BY <2>2 DEF EditedTo
<1>2. CASE other = Missing
  BY <1>1, <1>2 DEF KeyIsHeld, Latest
<1>3. CASE other # Missing
  <2>1. other \in KeyPair
    BY <1>3
  <2>2. KeyIsHeld(new, other, Latest(other, last))
    BY <2>1, HeldAnew
  <2>3. last # Missing /\ other # last => IsSkipped(new, last)
    BY <1>1, <1>3 DEF OneWhole, IsSkipped
  <2> QED
    BY <2>2, <2>3
<1> QED
  BY <1>2, <1>3

(* What is stored, published or edited holds its key, and keeps it unless  *)
(* its block is damaged or a file is published anew.                       *)
LEMMA KeysAreHeld ==
  ASSUME Assumptions, Files, KeysHeld, Next
  PROVE  KeysHeld' /\ KeyStays
<1> DEFINE private == ParseGrantPrivateKey(signerFile)
           public == ParseGrantPublicKey(readerFile)
           NewPrivate == ParseGrantPrivateKey(signerFile')
           NewPublic == ParseGrantPublicKey(readerFile')
<1>1. /\ Missing \notin KeyPair
      /\ signerFile \in KeyFile /\ readerFile \in KeyFile
      /\ signerFile' \in KeyFile /\ readerFile' \in KeyFile
  <2>1. Files'
    BY FilesStay
  <2> QED
    BY <2>1 DEF Files, Assumptions, KeyAssumption
<1>2. /\ private \in KeyType \cup {NoKey} /\ public \in KeyPair \cup {Missing}
      /\ NewPrivate \in KeyType \cup {NoKey} /\ NewPublic \in KeyPair \cup {Missing}
  BY <1>1, KeysOfPairs
<1>3. \A key \in KeyType \cup {NoKey} :
        key.seed \in KeyPair \cup {Missing} /\ (key # NoKey => key.seed \in KeyPair)
  BY DEF KeyType, NoKey
<1>4. /\ KeyIsHeld(signerFile, private.seed, signerKey)
      /\ KeyIsHeld(readerFile, public, readerKey)
      /\ private.seed \in {signerKey, Missing} /\ public \in {readerKey, Missing}
  BY DEF KeysHeld, KeyIsHeld
<1>5. /\ signerKey' = Latest(NewPrivate.seed, signerKey)
      /\ readerKey' = Latest(NewPublic, readerKey)
  BY DEF Next
<1>6. /\ KeysHeld' <=> /\ KeyIsHeld(signerFile', NewPrivate.seed, signerKey')
                       /\ KeyIsHeld(readerFile', NewPublic, readerKey')
      /\ KeyStays <=>
           /\ \/ NewPrivate.seed \in {signerKey, Missing}
              \/ signerKey = Missing
              \/ IsSkipped(signerFile', signerKey)
           /\ \/ NewPublic \in {readerKey, Missing}
              \/ readerKey = Missing
              \/ IsSkipped(readerFile', readerKey)
              \/ Publish
  BY DEF KeysHeld, KeyStays
<1>7. signerFile' = signerFile =>
        /\ KeyIsHeld(signerFile', NewPrivate.seed, signerKey')
        /\ NewPrivate.seed \in {signerKey, Missing}
  BY <1>4, <1>5, HeldOn
<1>8. readerFile' = readerFile =>
        /\ KeyIsHeld(readerFile', NewPublic, readerKey')
        /\ NewPublic \in {readerKey, Missing}
  BY <1>4, <1>5, HeldOn
<1>9. NewPrivate.seed \in KeyPair => KeyIsHeld(signerFile', NewPrivate.seed, signerKey')
  BY <1>1, <1>5, HeldAnew
<1>10. NewPublic \in KeyPair => KeyIsHeld(readerFile', NewPublic, readerKey')
  BY <1>1, <1>5, HeldAnew
<1>11. CASE StoreSigner
  <2>1. private.seed \in KeyPair
    BY <1>2, <1>3, <1>11 DEF StoreSigner
  <2>2. NewPrivate = [seed |-> private.seed, half |-> private.seed]
        /\ readerFile' = readerFile
    BY <1>11, <2>1, StoredIsRead DEF StoreSigner, MarshalGrantPrivateKeyPEM
  <2> HIDE DEF private, public, NewPrivate, NewPublic
  <2>3. NewPrivate.seed = private.seed
    BY <2>2, BothHalves
  <2> QED
    BY <1>4, <1>6, <1>8, <1>9, <2>1, <2>2, <2>3
<1>12. CASE StoreReader
  <2>1. public \in KeyPair
    BY <1>2, <1>12 DEF StoreReader
  <2>2. NewPublic = public /\ signerFile' = signerFile
    BY <1>12, <2>1, StoredIsRead DEF StoreReader, MarshalGrantPublicKeyPEM
  <2> HIDE DEF private, public, NewPrivate, NewPublic
  <2> QED
    BY <1>4, <1>6, <1>7, <1>10, <2>1, <2>2
<1>13. CASE Publish
  <2>1. private.half \in KeyPair /\ signerFile' = signerFile
    BY <1>2, <1>13 DEF Publish, KeyType
  <2>2. \A pair : ParseGrantPublicKey(RawPublic(pair)) = pair
    <3>1. ASSUME NEW pair, NEW file, file = RawPublic(pair)
          PROVE  file.form = "raw" /\ file.size = 32 /\ file.half = pair
      BY <3>1 DEF RawPublic
    <3>2. ASSUME NEW pair, NEW file, file.form = "raw", file.size = 32, file.half = pair
          PROVE  ParseGrantPublicKey(file) = pair
      BY <3>2 DEF ParseGrantPublicKey, DecodeKeyPEM, NotPEM
    <3> QED
      BY <3>1, <3>2
  <2>3. NewPublic = private.half
    BY <1>13, <2>2 DEF Publish
  <2> HIDE DEF private, public, NewPrivate, NewPublic
  <2> QED
    BY <1>6, <1>7, <1>10, <1>13, <2>1, <2>3
<1>14. CASE EditSigner
  <2>1. EditedTo(signerFile, signerFile') /\ readerFile' = readerFile
    BY <1>1, <1>14, EditsKeepPairs DEF EditSigner, Assumptions, Files
  <2>2. /\ private.seed # Missing => OneWhole(signerFile, private.seed)
        /\ NewPrivate.seed # Missing => OneWhole(signerFile', NewPrivate.seed)
    BY <1>1, <2>1, KeyIsOfTheWholeBlock DEF EditedTo
  <2>3. NewPrivate.seed \in KeyPair \cup {Missing}
    BY <1>2, <1>3
  <2> HIDE DEF private, public, NewPrivate, NewPublic
  <2>4. /\ KeyIsHeld(signerFile', NewPrivate.seed, Latest(NewPrivate.seed, signerKey))
        /\ \/ NewPrivate.seed \in {signerKey, Missing}
           \/ signerKey = Missing
           \/ IsSkipped(signerFile', signerKey)
    BY <1>1, <1>4, <2>1, <2>2, <2>3, HeldThroughEdit
  <2> QED
    BY <1>5, <1>6, <1>8, <2>1, <2>4
<1>15. CASE EditReader
  <2>1. EditedTo(readerFile, readerFile') /\ signerFile' = signerFile
    BY <1>1, <1>15, EditsKeepPairs DEF EditReader, Assumptions, Files
  <2>2. /\ public # Missing => OneWhole(readerFile, public)
        /\ NewPublic # Missing => OneWhole(readerFile', NewPublic)
    BY <1>1, <2>1, KeyIsOfTheWholeBlock DEF EditedTo
  <2> HIDE DEF private, public, NewPrivate, NewPublic
  <2>3. /\ KeyIsHeld(readerFile', NewPublic, Latest(NewPublic, readerKey))
        /\ \/ NewPublic \in {readerKey, Missing}
           \/ readerKey = Missing
           \/ IsSkipped(readerFile', readerKey)
    BY <1>1, <1>2, <1>4, <2>1, <2>2, HeldThroughEdit
  <2> QED
    BY <1>5, <1>6, <1>7, <2>1, <2>3
<1>16. CASE UNCHANGED <<signerFile, readerFile>>
  BY <1>6, <1>7, <1>8, <1>16
<1>17. CASE SignGrant \/ SignControlGrant \/ SignElsewhere
  BY <1>16, <1>17 DEF SignGrant, SignControlGrant, SignElsewhere, Signed
<1>18. CASE Respell \/ Relabel \/ Damage \/ ReadGrant \/ ReadControlGrant
  BY <1>16, <1>18 DEF Respell, Relabel, Damage, Carried, ReadGrant, ReadControlGrant
<1> QED
  BY <1>11, <1>12, <1>13, <1>14, <1>15, <1>17, <1>18 DEF Next

LEMMA TransitInvInductive ==
  /\ Assumptions /\ Init => TransitInv
  /\ Assumptions /\ TransitInv /\ [Next]_vars => TransitInv'
<1>1. ASSUME Assumptions, Init
      PROVE  TransitInv
  <2>1. Files
    BY <1>1 DEF Assumptions, KeyAssumption, GivenSigner, GivenReader, Init, Files
  <2>2. /\ ParseGrantPrivateKey(signerFile) \in KeyType \cup {NoKey}
        /\ ParseGrantPublicKey(readerFile) \in KeyPair \cup {Missing}
    BY <1>1, <2>1, KeysOfPairs DEF Files, Assumptions, KeyAssumption
  <2>3. ParseGrantPrivateKey(signerFile).seed \in KeyPair \cup {Missing}
    BY <2>2 DEF KeyType, NoKey
  <2>4. KeysHeld
    BY <1>1, <2>2, <2>3 DEF Init, KeysHeld, KeyIsHeld
  <2> QED
    BY <1>1, <2>1, <2>4 DEF Init, TransitInv, NothingSigned, ReadAsSigned
<1>2. ASSUME Assumptions, TransitInv, [Next]_vars
      PROVE  (NothingSigned \/ Holds(text, signed))' /\ ReadAsSigned'
  <2> USE <1>2 DEF TransitInv
  <2>1. CASE StoreSigner \/ StoreReader \/ Publish \/ EditSigner \/ EditReader
    BY <2>1, NewFile
       DEF StoreSigner, StoreReader, Publish, EditSigner, EditReader
  <2>2. CASE SignGrant \/ SignControlGrant \/ SignElsewhere
    BY <2>2, SignedHolds DEF Assumptions, Files, ReadAsSigned
  <2>3. CASE Respell \/ Relabel \/ Damage
    <3>1. text # None
      BY <2>3 DEF Respell, Relabel, Damage
    <3> QED
      BY <2>3, <3>1, CarriedHolds DEF NothingSigned, ReadAsSigned
  <2>4. CASE ReadGrant \/ ReadControlGrant
    <3>1. text # None /\ UNCHANGED <<signerFile, signed, text>>
      BY <2>4 DEF ReadGrant, ReadControlGrant
    <3>2. Holds(text, signed)'
      BY <3>1 DEF NothingSigned, Holds
    <3> QED
      BY <2>4, <3>2, ReadIsSigned
  <2>5. CASE UNCHANGED vars
    BY <2>5 DEF vars, NothingSigned, Holds, ReadAsSigned
  <2> QED
    BY <2>1, <2>2, <2>3, <2>4, <2>5 DEF Next
<1>3. ASSUME Assumptions, TransitInv, [Next]_vars
      PROVE  TransitInv'
  <2>1. KeysHeld'
    <3>1. CASE Next
      BY <1>3, <3>1, KeysAreHeld DEF TransitInv
    <3>2. CASE UNCHANGED vars
      BY <1>3, <3>2 DEF TransitInv, KeysHeld, vars
    <3> QED
      BY <1>3, <3>1, <3>2
  <2> QED
    BY <1>2, <1>3, <2>1, FilesStay DEF TransitInv
<1> QED
  BY <1>1, <1>3

LEMMA TransitInvHolds ==
  ASSUME Assumptions
  PROVE  Spec => []TransitInv
<1>1. Init => TransitInv
  BY TransitInvInductive
<1>2. TransitInv /\ [Next]_vars => TransitInv'
  BY TransitInvInductive
<1> QED
  BY <1>1, <1>2, PTL DEF Spec

(* Whatever the Agent accepts was signed, as a grant of that kind, with    *)
(* the key the Agent was given, and every field is read as it was signed,  *)
(* whatever key files, releases, respellings and damage there were         *)
(* (grant.go:238, :580, :797).                                             *)
LEMMA TextsReadAsSigned == Assumptions /\ Spec => []ReadAsSigned
<1> SUFFICES ASSUME Assumptions PROVE Spec => []ReadAsSigned
  OBVIOUS
<1>1. TransitInv => ReadAsSigned
  BY DEF TransitInv
<1> QED
  BY <1>1, TransitInvHolds, PTL

(* A key file that is stored, published or edited yields the key that it   *)
(* yielded last, or none, unless the block of that key was damaged:        *)
(* storing keeps the seed that grants are signed with, although the halves *)
(* of the key did not agree (grant.go:380, :409, :434, :458, :462-474).    *)
LEMMA FilesKeepKeys == Assumptions /\ Spec => [][KeyStays]_vars
<1> SUFFICES ASSUME Assumptions PROVE Spec => [][KeyStays]_vars
  OBVIOUS
<1>1. TransitInv /\ [Next]_vars => [KeyStays]_vars
  BY KeysAreHeld DEF TransitInv
<1> QED
  BY <1>1, TransitInvHolds, PTL DEF Spec

-----------------------------------------------------------------------------
(* Untouched texts *)

(* The claims that an untouched text holds are those that were signed.     *)
LEMMA IntactClaims ==
  ASSUME TransitInv, Intact
  PROVE  LET zero == Zero(signed.kind) IN
         /\ signed.kind \in {"grant", "control"}
         /\ text.prefix = Prefix(signed.kind)
         /\ \A p \in DOMAIN text.spelled : text.spelled[p] = "exact"
         /\ text.signature = Signature(signed.key, text.payload)
         /\ text.payload.canonical /\ text.payload.field["v"] = 1
         /\ OnlyKnownFields(zero, text.payload)
         /\ Shaped(signed.kind, SignedClaims(zero))
         /\ Decoded(zero, text.payload) = SignedClaims(zero)
<1> DEFINE zero == Zero(signed.kind)
<1>1. Holds(text, signed)
  BY DEF TransitInv, Intact, NothingSigned
<1>2. signed.kind \in {"grant", "control"} /\ text.payload.field = signed.field
      /\ text.payload.canonical
  BY <1>1 DEF Holds, Intact
<1>3. PICK c : Shaped(signed.kind, c) /\ signed.field = Marshal(c).field
  BY <1>1 DEF Holds, Intact
<1>4. /\ DOMAIN signed.field = {"v"} \cup DOMAIN zero
      /\ signed.field["v"] = 1
      /\ SignedClaims(zero) = c
  BY <1>2, <1>3, MarshalledFields DEF SignedClaims
<1>5. text.prefix = Prefix(signed.kind)
      /\ \A p \in DOMAIN text.spelled : text.spelled[p] = "exact"
  BY DEF Intact, Prefix
<1>6. text.signature = Signature(signed.key, text.payload)
  BY <1>1, <1>2 DEF Holds
<1>7. OnlyKnownFields(zero, text.payload)
      /\ Decoded(zero, text.payload) = SignedClaims(zero)
  BY <1>2, <1>4 DEF OnlyKnownFields, Decoded, SignedClaims
<1> QED
  BY <1>2, <1>3, <1>4, <1>5, <1>6, <1>7

LEMMA IntactAuthentic ==
  ASSUME Assumptions, TransitInv, Intact,
         ParseGrantPublicKey(readerFile) = signed.key.half
  PROVE  Authentic(text, readerFile, Prefix(signed.kind))
           <=> Length(text) <= DefaultGrantMaxSize /\ signed.key.seed = signed.key.half
<1> DEFINE pair == ParseGrantPublicKey(readerFile)
           key == signed.key
<1>1. key \in KeyType
  BY KeysOfPairs DEF TransitInv, Intact, NothingSigned, Holds, Files, Assumptions,
     KeyAssumption
<1>2. /\ key = [seed |-> key.seed, half |-> key.half] /\ key.half \in KeyPair
      /\ pair = key.half
  BY <1>1 DEF KeyType
<1>3. pair # Missing
  BY <1>2 DEF Assumptions, KeyAssumption
<1>4. SignatureVerifies(pair, text.payload, text.signature) <=> key.seed = key.half
  <2>1. text.signature = Signature(key, text.payload)
    BY IntactClaims
  <2>2. \A k1, k2, p : Signature(k1, p) = Signature(k2, p) <=> k1 = k2
    BY DEF Signature
  <2>3. key = [seed |-> pair, half |-> pair] <=> key.seed = key.half
    BY <1>2
  <2> HIDE DEF key, pair
  <2> QED
    BY <2>1, <2>2, <2>3 DEF SignatureVerifies
<1>5. /\ text.prefix = Prefix(signed.kind)
      /\ \A p \in DOMAIN text.spelled : text.spelled[p] \in ReadableSpelling
  BY IntactClaims DEF ReadableSpelling
<1> HIDE DEF pair, key
<1> QED
  BY <1>3, <1>4, <1>5 DEF Authentic, pair, key

(* An untouched text is accepted exactly when its claims are, if it fits   *)
(* and the halves of the signing key agree (grant.go:187, :220, :380).     *)
LEMMA IntactTexts == Assumptions /\ Spec => []TextIsItsClaims
<1> SUFFICES ASSUME Assumptions PROVE Spec => []TextIsItsClaims
  OBVIOUS
<1>1. ASSUME Assumptions, TransitInv, Intact,
             ParseGrantPublicKey(readerFile) = signed.key.half, NEW now, NEW b
      PROVE  LET fit == /\ Length(text) <= DefaultGrantMaxSize
                        /\ signed.key.seed = signed.key.half
             IN /\ signed.kind = "grant" =>
                     (ReadRoot(text, readerFile, now, b) # NoGrant
                        <=> fit /\ VerifyAgentRootBinding(SignedClaims(NoGrant), now, b))
                /\ signed.kind # "grant" =>
                     (ReadControl(text, readerFile, now, b) # NoControlGrant
                        <=> fit /\ VerifyOperationControlGrant(
                                     ZeroCodec, SignedClaims(NoControlGrant), now, b))
  <2> DEFINE fit == /\ Length(text) <= DefaultGrantMaxSize
                    /\ signed.key.seed = signed.key.half
  <2>1. Authentic(text, readerFile, Prefix(signed.kind)) <=> fit
    BY <1>1, IntactAuthentic
  <2> HIDE DEF fit
  <2>2. ASSUME signed.kind = "grant"
        PROVE  ReadRoot(text, readerFile, now, b) # NoGrant
                 <=> fit /\ VerifyAgentRootBinding(SignedClaims(NoGrant), now, b)
    <3> DEFINE c == SignedClaims(NoGrant)
    <3>1. Zero(signed.kind) = NoGrant /\ Prefix(signed.kind) = "grant-v1"
      BY <2>2 DEF Zero, Prefix
    <3>2. /\ text.payload.canonical /\ text.payload.field["v"] = 1
          /\ OnlyKnownFields(NoGrant, text.payload)
          /\ Decoded(NoGrant, text.payload) = c
          /\ Shaped("grant", c)
      BY <1>1, <2>2, <3>1, IntactClaims
    <3> HIDE DEF c
    <3>3. c # NoGrant /\ c.rootRequestDigest \in RootDigest /\ c.descriptor \in Descriptor
      BY <3>2 DEF Shaped, Zero
    <3>4. UnmarshalGrantClaims(text.payload) = c
      BY <3>2, <3>3 DEF UnmarshalGrantClaims, CapabilityGrantVersion
    <3> QED
      BY <2>1, <3>1, <3>3, <3>4 DEF ReadRoot, c
  <2>3. ASSUME signed.kind # "grant"
        PROVE  ReadControl(text, readerFile, now, b) # NoControlGrant
                 <=> fit /\ VerifyOperationControlGrant(
                              ZeroCodec, SignedClaims(NoControlGrant), now, b)
    <3> DEFINE c == SignedClaims(NoControlGrant)
    <3>1. Zero(signed.kind) = NoControlGrant /\ Prefix(signed.kind) = "control-grant-v1"
      BY <2>3 DEF Zero, Prefix
    <3>2. /\ text.payload.canonical /\ text.payload.field["v"] = 1
          /\ OnlyKnownFields(NoControlGrant, text.payload)
          /\ Decoded(NoControlGrant, text.payload) = c
          /\ Shaped(signed.kind, c)
      BY <1>1, <2>3, <3>1, IntactClaims
    <3> HIDE DEF c
    <3>3. c # NoControlGrant
      BY <3>1, <3>2 DEF Shaped
    <3>4. UnmarshalControlGrant(text.payload) = c
      BY <3>2, <3>3 DEF UnmarshalControlGrant, OperationControlGrantVersion
    <3> QED
      BY <2>1, <3>1, <3>3, <3>4 DEF ReadControl, c
  <2> QED
    BY <2>2, <2>3 DEF fit
<1>2. TransitInv => TextIsItsClaims
  BY <1>1 DEF TextIsItsClaims
<1> QED
  BY <1>2, TransitInvHolds, PTL

(* Absent things are no records.                                           *)
NoneAssumption ==
  /\ \A kind, release, field, key :
       None # [kind |-> kind, release |-> release, field |-> field, key |-> key]
  /\ \A prefix, payload, signature, spelled :
       None # [prefix |-> prefix, payload |-> payload, signature |-> signature,
               spelled |-> spelled]

(* The variables have their types: the keys read out of the files are of   *)
(* their pairs, and a text comes with what was signed.                     *)
LEMMA TransitTypes == Assumptions /\ NoneAssumption /\ Spec => []TypeOK
<1> SUFFICES ASSUME Assumptions, NoneAssumption PROVE Spec => []TypeOK
  OBVIOUS
<1>1. ASSUME Assumptions, NoneAssumption, TransitInv
      PROVE  TypeOK
  <2>1. /\ ParseGrantPrivateKey(signerFile) \in KeyType \cup {NoKey}
        /\ ParseGrantPublicKey(readerFile) \in KeyPair \cup {Missing}
    BY <1>1, KeysOfPairs DEF TransitInv, Files, Assumptions, KeyAssumption
  <2>2. {signerKey, readerKey} \subseteq KeyPair \cup {Missing}
    BY <1>1 DEF TransitInv, KeysHeld, KeyIsHeld
  <2>3. CASE NothingSigned
    BY <1>1, <2>1, <2>2, <2>3 DEF TypeOK, NothingSigned, TransitInv, ReadAsSigned
  <2>4. CASE Holds(text, signed)
    <3>1. signed # None /\ text # None
      <4>1. /\ signed = [kind |-> signed.kind, release |-> signed.release,
                         field |-> signed.field, key |-> signed.key]
            /\ text = [prefix |-> text.prefix, payload |-> text.payload,
                       signature |-> text.signature, spelled |-> text.spelled]
        BY <2>4, Zenon DEF Holds
      <4>2. \A k, r, f, s : None # [kind |-> k, release |-> r, field |-> f, key |-> s]
        BY <1>1, Zenon DEF NoneAssumption
      <4>3. \A p, q, s, w :
              None # [prefix |-> p, payload |-> q, signature |-> s, spelled |-> w]
        BY <1>1, Zenon DEF NoneAssumption
      <4>4. signed # None
        BY <4>1, <4>2
      <4>5. text # None
        BY <4>1, <4>3
      <4> QED
        BY <4>4, <4>5
    <3>2. /\ signed.kind \in {"grant", "control"} /\ signed.key \in KeyType
          /\ DOMAIN text.spelled = {"payload", "signature"}
      BY <2>1, <2>4 DEF Holds
    <3>3. read # None => read.kind = signed.kind
      BY <1>1 DEF TransitInv, ReadAsSigned
    <3> QED
      BY <2>1, <2>2, <3>1, <3>2, <3>3 DEF TypeOK
  <2> QED
    BY <1>1, <2>3, <2>4 DEF TransitInv
<1>2. TransitInv => TypeOK
  BY <1>1
<1> QED
  BY <1>2, TransitInvHolds, PTL

-----------------------------------------------------------------------------
(* Induction over the natural numbers: what holds of 0 and of every number *)
(* after one that it holds of, for no set without a least number is left   *)
(* for what it does not hold of.                                           *)

LEMMA NatSetInduction ==
  ASSUME NEW S, 0 \in S, \A n \in Nat : n \in S => n + 1 \in S
  PROVE  Nat \subseteq S
<1>1. SUFFICES ASSUME Nat \ S # {} PROVE FALSE
  OBVIOUS
<1>2. PICK n \in Nat \ S : \A m \in Nat \ S : n <= m
  BY <1>1, LeastNatural
<1>3. n # 0 /\ n - 1 \in Nat /\ n - 1 \notin Nat \ S
  BY <1>2
<1> QED
  BY <1>2, <1>3

(* Recursion over natural numbers has its values.                          *)
HasValues(V, c, step, n) ==
  \E f \in [0..n -> V] : f[0] = c /\ \A i \in 1..n : f[i] = step[<<i, f[i - 1]>>]

LEMMA Recursion ==
  ASSUME NEW V, NEW c \in V, NEW step \in [Nat \X V -> V]
  PROVE  \A n \in Nat : HasValues(V, c, step, n)
<1> DEFINE Fits(n, f) == /\ f[0] = c
                         /\ \A i \in 1..n : f[i] = step[<<i, f[i - 1]>>]
           P(n) == \E f \in [0..n -> V] : Fits(n, f)
           S == {n \in Nat : P(n)}
<1>1. P(0)
  <2> DEFINE f == [i \in 0..0 |-> c]
  <2>1. f \in [0..0 -> V] /\ Fits(0, f)
    OBVIOUS
  <2> QED
    BY <2>1
<1>2. ASSUME NEW n \in Nat, P(n) PROVE P(n + 1)
  <2>1. PICK f \in [0..n -> V] : Fits(n, f)
    BY <1>2
  <2> DEFINE v == step[<<n + 1, f[n]>>]
             g == [i \in 0..(n + 1) |-> IF i <= n THEN f[i] ELSE v]
  <2>2. f[n] \in V /\ v \in V
    OBVIOUS
  <2>3. g \in [0..(n + 1) -> V]
    <3> HIDE DEF v
    <3> QED
      BY <2>2
  <2>4. g[0] = c
    BY <2>1
  <2>5. ASSUME NEW i \in 1..(n + 1) PROVE g[i] = step[<<i, g[i - 1]>>]
    <3>1. CASE i <= n
      <4>1. g[i] = f[i] /\ g[i - 1] = f[i - 1] /\ f[i] = step[<<i, f[i - 1]>>]
        BY <2>1, <3>1
      <4> QED
        BY <4>1
    <3>2. CASE i = n + 1
      <4>1. g[i] = v /\ g[i - 1] = f[n]
        BY <3>2
      <4> HIDE DEF g
      <4> QED
        BY <3>2, <4>1
    <3> QED
      BY <3>1, <3>2
  <2>6. Fits(n + 1, g)
    BY <2>4, <2>5
  <2> HIDE DEF g, Fits
  <2> QED
    BY <2>3, <2>6
<1>3. Nat \subseteq S
  <2>1. 0 \in S /\ \A n \in Nat : n \in S => n + 1 \in S
    <3> HIDE DEF P
    <3> QED
      BY <1>1, <1>2
  <2> HIDE DEF S
  <2> QED
    BY <2>1, NatSetInduction
<1> HIDE DEF Fits
<1> QED
  BY <1>3 DEF HasValues, Fits

-----------------------------------------------------------------------------
(* ScopeLists: lists in order *)

LEMMA LessIsStrict ==
  ASSUME NEW a \in Seq(Nat)
  PROVE  ~ Scopes!Less(a, a)
<1>1. \A i \in DOMAIN a : a[i] \in Nat
  OBVIOUS
<1> QED
  BY <1>1 DEF Scopes!Less

LEMMA LessIsTransitive ==
  ASSUME NEW a \in Seq(Nat), NEW b \in Seq(Nat), NEW c \in Seq(Nat),
         Scopes!Less(a, b), Scopes!Less(b, c)
  PROVE  Scopes!Less(a, c)
<1> DEFINE Begins(l, s, m, t) == l < m /\ \A i \in 1..l : s[i] = t[i]
           Differs(l, s, m, t, i) == /\ i \in 1..l /\ i \in 1..m /\ s[i] < t[i]
                                     /\ \A j \in 1..(i - 1) : s[j] = t[j]
           Before(l, s, m, t) == Begins(l, s, m, t) \/ \E i : Differs(l, s, m, t, i)
<1>1. ASSUME NEW s \in Seq(Nat), NEW t \in Seq(Nat)
      PROVE  Scopes!Less(s, t) <=> Before(Len(s), s, Len(t), t)
  <2>1. DOMAIN s = 1..Len(s) /\ DOMAIN t = 1..Len(t)
    OBVIOUS
  <2> QED
    BY <2>1 DEF Scopes!Less
<1>2. ASSUME NEW l \in Nat, NEW m \in Nat, NEW n \in Nat, NEW s, NEW t, NEW u,
             \A i \in 1..l : s[i] \in Nat, \A i \in 1..m : t[i] \in Nat,
             \A i \in 1..n : u[i] \in Nat,
             Before(l, s, m, t), Before(m, t, n, u)
      PROVE  Before(l, s, n, u)
  <2>1. CASE Begins(l, s, m, t) /\ Begins(m, t, n, u)
    BY <1>2, <2>1
  <2>2. ASSUME Begins(l, s, m, t), NEW i, Differs(m, t, n, u, i)
        PROVE  Begins(l, s, n, u) \/ Differs(l, s, n, u, i)
    <3>1. /\ l < m /\ i \in 1..m /\ i \in 1..n
          /\ \A k \in 1..l : s[k] = t[k]
          /\ \A k \in 1..(i - 1) : t[k] = u[k]
      BY <2>2
    <3>2. CASE i <= l
      <4>1. i \in 1..l /\ \A k \in 1..(i - 1) : k \in 1..l
        BY <1>2, <3>1, <3>2
      <4>2. s[i] = t[i] /\ t[i] < u[i]
        BY <2>2, <3>1, <4>1
      <4>3. \A k \in 1..(i - 1) : s[k] = u[k]
        BY <3>1, <4>1
      <4> QED
        BY <3>1, <4>1, <4>2, <4>3
    <3>3. CASE ~(i <= l)
      <4>1. l < n /\ \A k \in 1..l : k \in 1..(i - 1)
        BY <1>2, <3>1, <3>3
      <4> QED
        BY <3>1, <4>1
    <3> QED
      BY <3>2, <3>3
  <2>3. ASSUME NEW i, Differs(l, s, m, t, i), Begins(m, t, n, u)
        PROVE  Differs(l, s, n, u, i)
    BY <1>2, <2>3
  <2>4. ASSUME NEW i, Differs(l, s, m, t, i), NEW j, Differs(m, t, n, u, j)
        PROVE  Differs(l, s, n, u, i) \/ Differs(l, s, n, u, j)
    <3>1. i \in 1..l /\ i \in 1..m /\ j \in 1..m /\ j \in 1..n
      BY <2>4
    <3>2. CASE i < j
      BY <1>2, <2>4, <3>1, <3>2
    <3>3. CASE i = j
      <4>1. /\ s[i] \in Nat /\ t[i] \in Nat /\ u[i] \in Nat
            /\ s[i] < t[i] /\ t[i] < u[i]
        BY <1>2, <2>4, <3>1, <3>3
      <4>2. \A k \in 1..(i - 1) : s[k] = t[k] /\ t[k] = u[k]
        BY <2>4, <3>3
      <4> QED
        BY <3>1, <3>3, <4>1, <4>2
    <3>4. CASE j < i
      BY <1>2, <2>4, <3>1, <3>4
    <3> QED
      BY <3>1, <3>2, <3>3, <3>4
  <2>5. Before(l, s, m, t) /\ Before(m, t, n, u)
    BY <1>2
  <2> HIDE DEF Begins, Differs
  <2> QED
    BY <2>1, <2>2, <2>3, <2>4, <2>5
<1>3. \A s \in Seq(Nat) : Len(s) \in Nat /\ \A i \in 1..Len(s) : s[i] \in Nat
  OBVIOUS
<1> HIDE DEF Before
<1> QED
  BY <1>1, <1>2, <1>3

(* Neighbours in order are all in order.                                   *)
LEMMA NeighboursInOrder ==
  ASSUME NEW l \in Nat, NEW f, NEW R,
         \A i \in 1..l : i > 1 => <<f[i - 1], f[i]>> \in R,
         \A i, j, k \in 1..l :
           <<f[i], f[j]>> \in R /\ <<f[j], f[k]>> \in R => <<f[i], f[k]>> \in R,
         NEW i \in 1..l, NEW j \in 1..l, i < j
  PROVE  <<f[i], f[j]>> \in R
<1> DEFINE P(n) == i + n + 1 \in 1..l => <<f[i], f[i + n + 1]>> \in R
           S == {n \in Nat : P(n)}
<1>1. P(0)
  <2>1. i + 0 + 1 = i + 1 /\ i + 1 - 1 = i /\ i + 1 > 1
    OBVIOUS
  <2> QED
    BY <2>1
<1>2. ASSUME NEW n \in Nat, P(n) PROVE P(n + 1)
  <2> DEFINE k == i + n + 1
  <2>1. SUFFICES ASSUME k + 1 \in 1..l PROVE <<f[i], f[k + 1]>> \in R
    <3>1. i + (n + 1) + 1 = k + 1
      OBVIOUS
    <3> QED
      BY <3>1
  <2>2. k \in 1..l /\ k + 1 > 1 /\ k + 1 - 1 = k
    BY <2>1
  <2>3. <<f[i], f[k]>> \in R
    BY <1>2, <2>2
  <2> HIDE DEF k
  <2>4. <<f[k], f[k + 1]>> \in R
    BY <2>1, <2>2
  <2> QED
    BY <2>1, <2>2, <2>3, <2>4
<1>3. Nat \subseteq S
  <2>1. 0 \in S /\ \A n \in Nat : n \in S => n + 1 \in S
    <3> HIDE DEF P
    <3> QED
      BY <1>1, <1>2
  <2> HIDE DEF S
  <2> QED
    BY <2>1, NatSetInduction
<1>4. P(j - i - 1) /\ i + (j - i - 1) + 1 = j
  <2>1. j - i - 1 \in Nat
    OBVIOUS
  <2>2. \A n \in Nat : P(n)
    <3> HIDE DEF P
    <3> QED
      BY <1>3
  <2> HIDE DEF P
  <2> QED
    BY <2>1, <2>2
<1> QED
  BY <1>4

(* Two lists in a strict order that hold the same items are the same.      *)
AllInOrder(l, f, R) == \A i, j \in 1..l : i < j => <<f[i], f[j]>> \in R

IsStrict(R) == \A x, y : ~ (<<x, y>> \in R /\ <<y, x>> \in R)

SameItems(l, f, m, g) ==
  /\ \A i \in 1..l : \E j \in 1..m : g[j] = f[i]
  /\ \A j \in 1..m : \E i \in 1..l : f[i] = g[j]

Agree(l, f, g) == \A i \in 1..l : f[i] = g[i]

LEMMA OrderedIsOne ==
  ASSUME NEW l \in Nat, NEW m \in Nat, NEW f, NEW g, NEW R, IsStrict(R),
         AllInOrder(l, f, R), AllInOrder(m, g, R), SameItems(l, f, m, g)
  PROVE  l = m /\ Agree(l, f, g)
<1> USE DEF IsStrict, AllInOrder, SameItems, Agree
<1> DEFINE Same(k) == /\ k \in 1..l <=> k \in 1..m
                      /\ k \in 1..l => f[k] = g[k]
           S == {k \in Nat : k > 0 /\ ~ Same(k)}
<1>1. ASSUME NEW k \in Nat, k > 0, \A i \in 1..(k - 1) : Same(i)
      PROVE  Same(k)
  <2>1. ASSUME k \in 1..l
        PROVE  /\ \E j \in 1..m : g[j] = f[k] /\ ~ (j < k)
               /\ k \in 1..m
    <3>1. PICK j \in 1..m : g[j] = f[k]
      BY <2>1
    <3>2. ASSUME j < k PROVE FALSE
      <4>1. j \in 1..l /\ f[j] = f[k]
        BY <1>1, <3>1, <3>2
      <4> QED
        BY <2>1, <3>2, <4>1
    <3> QED
      BY <1>1, <3>1, <3>2
  <2>2. ASSUME k \in 1..m
        PROVE  /\ \E j \in 1..l : f[j] = g[k] /\ ~ (j < k)
               /\ k \in 1..l
    <3>1. PICK j \in 1..l : f[j] = g[k]
      BY <2>2
    <3>2. ASSUME j < k PROVE FALSE
      <4>1. j \in 1..m /\ g[j] = g[k]
        BY <1>1, <3>1, <3>2
      <4> QED
        BY <2>2, <3>2, <4>1
    <3> QED
      BY <1>1, <3>1, <3>2
  <2>3. ASSUME k \in 1..l, k \in 1..m, f[k] # g[k] PROVE FALSE
    <3>1. PICK j \in 1..m : g[j] = f[k] /\ ~ (j < k)
      BY <2>1, <2>3
    <3>2. PICK i \in 1..l : f[i] = g[k] /\ ~ (i < k)
      BY <2>2, <2>3
    <3>3. j # k /\ i # k
      BY <2>3, <3>1, <3>2
    <3>4. k < j /\ k < i
      BY <3>1, <3>2, <3>3
    <3>5. <<g[k], f[k]>> \in R /\ <<f[k], g[k]>> \in R
      BY <2>3, <3>1, <3>2, <3>4
    <3> QED
      BY <2>3, <3>5
  <2> QED
    BY <2>1, <2>2, <2>3
<1>2. \A k \in Nat : k > 0 => Same(k)
  <2>1. SUFFICES ASSUME S # {} PROVE FALSE
    OBVIOUS
  <2> HIDE DEF Same
  <2>2. S \subseteq Nat
    OBVIOUS
  <2>3. PICK k \in S : \A n \in S : k <= n
    <3> HIDE DEF S
    <3> QED
      BY <2>1, <2>2, LeastNatural
  <2>4. k \in Nat /\ k > 0 /\ ~ Same(k) /\ \A i \in 1..(k - 1) : Same(i)
    BY <2>3
  <2> QED
    BY <1>1, <2>4
<1>3. l = m
  <2>1. l > 0 => l <= m
    BY <1>2
  <2>2. m > 0 => m <= l
    BY <1>2
  <2> QED
    BY <2>1, <2>2
<1> QED
  BY <1>2, <1>3

-----------------------------------------------------------------------------
(* Accepted lists *)

(* What is in order, as a relation.                                        *)
Ordered == {p \in Seq(Nat) \X Seq(Nat) : Scopes!Less(p[1], p[2])}

LEMMA InOrder ==
  ASSUME NEW list \in Seq(Seq(Nat)), Scopes!isSortedUnique(list)
  PROVE  AllInOrder(Len(list), list, Ordered)
<1>1. \A i \in 1..Len(list) : list[i] \in Seq(Nat)
  OBVIOUS
<1>2. \A i \in 1..Len(list) : i > 1 => Scopes!Less(list[i - 1], list[i])
  <2>1. DOMAIN list = 1..Len(list)
    OBVIOUS
  <2> QED
    BY <2>1 DEF Scopes!isSortedUnique
<1>3. \A i \in 1..Len(list) : i > 1 => <<list[i - 1], list[i]>> \in Ordered
  BY <1>1, <1>2 DEF Ordered
<1>4. \A a, b, c : <<a, b>> \in Ordered /\ <<b, c>> \in Ordered => <<a, c>> \in Ordered
  BY LessIsTransitive DEF Ordered
<1>5. Len(list) \in Nat
  OBVIOUS
<1> QED
  BY <1>3, <1>4, <1>5, NeighboursInOrder DEF AllInOrder

LEMMA SameScopesSameList ==
  ASSUME NEW a \in Seq(Seq(Nat)), NEW b \in Seq(Seq(Nat)),
         Scopes!isSortedUnique(a), Scopes!isSortedUnique(b)
  PROVE  Scopes!sameStringSlice(a, b) <=> Scopes!ScopesOf(a) = Scopes!ScopesOf(b)
<1>1. /\ Len(a) \in Nat /\ DOMAIN a = 1..Len(a)
      /\ Len(b) \in Nat /\ DOMAIN b = 1..Len(b)
  OBVIOUS
<1>2. CASE Scopes!sameStringSlice(a, b)
  BY <1>1, <1>2 DEF Scopes!sameStringSlice, Scopes!ScopesOf
<1>3. CASE Scopes!ScopesOf(a) = Scopes!ScopesOf(b)
  <2>1. SameItems(Len(a), a, Len(b), b)
    BY <1>1, <1>3 DEF Scopes!ScopesOf, SameItems
  <2>2. IsStrict(Ordered)
    BY LessIsStrict, LessIsTransitive DEF Ordered, IsStrict
  <2>3. AllInOrder(Len(a), a, Ordered) /\ AllInOrder(Len(b), b, Ordered)
    BY InOrder
  <2>4. Len(a) \in Nat /\ Len(b) \in Nat
    BY <1>1
  <2>5. Len(a) = Len(b)
    BY <2>1, <2>2, <2>3, <2>4, OrderedIsOne, Zenon
  <2>6. Agree(Len(a), a, b)
    BY <2>1, <2>2, <2>3, <2>4, OrderedIsOne, Zenon
  <2> QED
    BY <1>1, <2>5, <2>6 DEF Scopes!sameStringSlice, Agree
<1> QED
  BY <1>2, <1>3

(* A list in order repeats nothing.                                        *)
LEMMA OrderedHasSize ==
  ASSUME NEW a \in Seq(Seq(Nat)), Scopes!isSortedUnique(a)
  PROVE  Scopes!Cardinality(Scopes!ScopesOf(a)) = Len(a)
<1> DEFINE f == [i \in 1..Len(a) |-> a[i]]
<1>1. Len(a) \in Nat /\ DOMAIN a = 1..Len(a)
  OBVIOUS
<1>2. \A i, j \in 1..Len(a) : i < j => a[i] # a[j]
  <2>1. AllInOrder(Len(a), a, Ordered)
    BY InOrder
  <2>2. \A s : <<s, s>> \notin Ordered
    BY LessIsStrict DEF Ordered
  <2> QED
    BY <2>1, <2>2 DEF AllInOrder
<1>3. f \in Bijection(1..Len(a), Scopes!ScopesOf(a))
  <2>1. \A i, j \in 1..Len(a) : a[i] = a[j] => i = j
    BY <1>1, <1>2
  <2>2. Scopes!ScopesOf(a) = {a[i] : i \in 1..Len(a)}
    BY <1>1 DEF Scopes!ScopesOf
  <2>3. f \in Surjection(1..Len(a), Scopes!ScopesOf(a))
    BY <2>2 DEF Surjection
  <2>4. f \in Injection(1..Len(a), Scopes!ScopesOf(a))
    BY <2>1, <2>2 DEF Injection, IsInjective
  <2> QED
    BY <2>3, <2>4 DEF Bijection
<1>4. IsFiniteSet(1..Len(a)) /\ Cardinality(1..Len(a)) = Len(a)
  <2>1. Cardinality(1..Len(a)) = IF 1 > Len(a) THEN 0 ELSE Len(a) - 1 + 1
    BY <1>1, FS_Interval
  <2>2. Cardinality(1..Len(a)) = Len(a)
    BY <1>1, <2>1
  <2>3. IsFiniteSet(1..Len(a))
    BY <1>1, FS_Interval
  <2> QED
    BY <2>2, <2>3
<1>5. Cardinality(Scopes!ScopesOf(a)) = Len(a)
  BY <1>3, <1>4, FS_Bijection DEF ExistsBijection
<1> QED
  BY <1>5 DEF Cardinality, Scopes!Cardinality

-----------------------------------------------------------------------------
(* What is judged and compared *)

(* What a verdict says, and of which lists.                                *)
ListInv ==
  /\ name \in Names \cup {<<>>}
  /\ left \in Lists /\ right \in Lists
  /\ verdict \subseteq {"grant", "replay", "subset", "same", "compared"}
  /\ "grant" \in verdict => "replay" \in verdict
  /\ "compared" \in verdict =>
       /\ Scopes!isSortedUnique(left) /\ Scopes!isSortedUnique(right)
       /\ "same" \in verdict <=> Scopes!sameStringSlice(right, left)
       /\ "subset" \in verdict <=> Scopes!scopesSubset(right, left)

LEMMA ListInvHolds ==
  ASSUME Scopes!ItemAssumption
  PROVE  Scopes!Spec => []ListInv
<1>1. Scopes!Init => ListInv
  BY DEF Scopes!ItemAssumption, Scopes!Init, ListInv
<1>2. ASSUME ListInv, Scopes!JudgeName
      PROVE  ListInv'
  <2>1. name \in Seq(Nat)
    BY <1>2 DEF Scopes!ItemAssumption, ListInv, Scopes!JudgeName
  <2>2. Scopes!validateGrantToken(name, MaxName) => Scopes!validateReplayToken(name)
    <3>1. \A i \in DOMAIN name : name[i] \in Nat
      BY <2>1
    <3>2. \A c \in Nat : ~ Scopes!IsControl(c) => c >= 32
      BY DEF Scopes!IsControl
    <3> QED
      BY <3>1, <3>2 DEF Scopes!validateGrantToken, Scopes!validateReplayToken
  <2> QED
    BY <1>2, <2>2 DEF ListInv, Scopes!JudgeName
<1>3. ASSUME ListInv, Scopes!CompareLists
      PROVE  ListInv'
  BY <1>3 DEF ListInv, Scopes!CompareLists
<1>4. ASSUME ListInv, UNCHANGED Scopes!vars
      PROVE  ListInv'
  BY <1>4 DEF ListInv, Scopes!vars
<1>5. ListInv /\ [Scopes!Next]_(Scopes!vars) => ListInv'
  BY <1>2, <1>3, <1>4 DEF Scopes!Next
<1> QED
  BY <1>1, <1>5, PTL DEF Scopes!Spec

(* Lists of scopes that were accepted compare as sets, and a name that a   *)
(* grant may hold has a replay key (replay.go:256, :284,                   *)
(* product_delegation.go:354).                                             *)
LEMMA OrderedLists ==
  Scopes!ItemAssumption /\ Scopes!Spec
    => [](Scopes!ListsAreSets /\ Scopes!GrantedNameHasKey)
<1> SUFFICES ASSUME Scopes!ItemAssumption
             PROVE  Scopes!Spec => [](Scopes!ListsAreSets /\ Scopes!GrantedNameHasKey)
  OBVIOUS
<1>2. ASSUME ListInv PROVE Scopes!ListsAreSets
  <2>1. SUFFICES ASSUME "compared" \in verdict
                 PROVE  /\ "same" \in verdict
                             <=> Scopes!ScopesOf(left) = Scopes!ScopesOf(right)
                        /\ "subset" \in verdict
                             <=> Scopes!ScopesOf(right) \subseteq Scopes!ScopesOf(left)
    BY DEF Scopes!ListsAreSets
  <2>2. left \in Seq(Seq(Nat)) /\ right \in Seq(Seq(Nat))
    BY <1>2 DEF Scopes!ItemAssumption, ListInv
  <2>3. /\ Scopes!isSortedUnique(left) /\ Scopes!isSortedUnique(right)
        /\ "same" \in verdict <=> Scopes!sameStringSlice(right, left)
        /\ "subset" \in verdict <=> Scopes!scopesSubset(right, left)
    BY <1>2, <2>1 DEF ListInv
  <2>4. Scopes!sameStringSlice(right, left)
          <=> Scopes!ScopesOf(left) = Scopes!ScopesOf(right)
    BY <2>2, <2>3, SameScopesSameList
  <2>5. Scopes!scopesSubset(right, left)
          <=> Scopes!ScopesOf(right) \subseteq Scopes!ScopesOf(left)
    BY DEF Scopes!scopesSubset, Scopes!containsScope, Scopes!ScopesOf
  <2> QED
    BY <2>3, <2>4, <2>5
<1>3. ListInv => Scopes!GrantedNameHasKey
  BY DEF ListInv, Scopes!GrantedNameHasKey
<1>4. Scopes!Spec => []ListInv
  BY ListInvHolds
<1> QED
  BY <1>2, <1>3, <1>4, PTL

(* Lists that are compared repeat nothing.                                 *)
LEMMA ListTypes == Scopes!ItemAssumption /\ Scopes!Spec => []Scopes!TypeOK
<1> SUFFICES ASSUME Scopes!ItemAssumption PROVE Scopes!Spec => []Scopes!TypeOK
  OBVIOUS
<1>2. ListInv => Scopes!TypeOK
  <2>1. ListInv => left \in Seq(Seq(Nat)) /\ right \in Seq(Seq(Nat))
    BY DEF Scopes!ItemAssumption, ListInv
  <2> QED
    BY <2>1, OrderedHasSize DEF ListInv, Scopes!TypeOK
<1>4. Scopes!Spec => []ListInv
  BY ListInvHolds
<1> QED
  BY <1>2, <1>4, PTL

-----------------------------------------------------------------------------
(* CanonicalWalk: what lies below a location *)

(* What CanonicalWalk says of its heap, for any heap.                      *)
AddressIn(h, l) == IF h[l].kind \in {"prefix", "first"} THEN h[l].of ELSE l

ItemsIn(h, l) ==
  CASE h[l].kind = "slice" -> h[l].items
    [] h[l].kind = "pointer" -> <<h[l].to>>
    [] h[l].kind = "prefix" -> SubSeq(h[h[l].of].items, 1, h[l].length)
    [] h[l].kind = "first" -> <<h[h[l].of].items[1]>>

Contents(h, l) == {ItemsIn(h, l)[i] : i \in DOMAIN ItemsIn(h, l)}

Depth == Walk!Cardinality(Location)

(* What is one, two and more steps below a location.                       *)
IsLevels(h, l, f) ==
  f = [n \in 0..Depth |->
         IF n = 0 THEN Contents(h, l)
         ELSE f[n - 1] \cup UNION {Contents(h, m) : m \in f[n - 1] \cap Location}]

Levels(h, l) == CHOOSE f : IsLevels(h, l, f)

BelowIn(h, l) == Levels(h, l)[Depth]

LEMMA AnyHeap ==
  ASSUME NEW l
  PROVE  /\ Walk!Address(l) = AddressIn(heap, l)
         /\ Walk!Items(l) = ItemsIn(heap, l)
         /\ Walk!Below(l) = BelowIn(heap, l)
         /\ Walk!Address(l)' = AddressIn(heap', l)
         /\ Walk!Items(l)' = ItemsIn(heap', l)
         /\ Walk!Below(l)' = BelowIn(heap', l)
BY DEF Walk!Address, Walk!Items, Walk!Below, Walk!ItemsOf, AddressIn, ItemsIn, BelowIn,
   Levels, IsLevels, Contents, Depth

(* A heap as the walk may find it.                                         *)
IsGoHeap(h) ==
  /\ Walk!HeapAssumption
  /\ h \in [Location -> Walk!Holding] /\ Walk!IsHeap(h)

LEMMA DepthIsNat ==
  ASSUME Walk!HeapAssumption
  PROVE  Depth \in Nat /\ Depth = Cardinality(Location)
<1>1. IsFiniteSet(Location)
  BY DEF Walk!HeapAssumption, Walk!IsFiniteSet, IsFiniteSet
<1>2. Cardinality(Location) \in Nat
  BY <1>1, FS_CardinalityType
<1> QED
  BY <1>2 DEF Depth, Walk!Cardinality, Cardinality

LEMMA HeapItems ==
  ASSUME NEW h, IsGoHeap(h), NEW l \in Location
  PROVE  /\ ItemsIn(h, l) \in Seq(Walk!Value)
         /\ AddressIn(h, l) \in Location
<1> DEFINE V == Walk!Value
<1>1. \A m \in Location : h[m].kind = "slice" => h[m].items \in Seq(V)
  <2>1. \A m \in Location : h[m] \in Walk!Holding
    BY DEF IsGoHeap
  <2>2. ASSUME NEW r \in Walk!Holding, r.kind = "slice"
        PROVE  r.items \in Walk!BoundedSeq(V, MaxItems)
    BY <2>2 DEF Walk!Holding
  <2>3. Walk!BoundedSeq(V, MaxItems) \subseteq Seq(V)
    <3>1. \A n \in Nat : [1..n -> V] \subseteq Seq(V)
      OBVIOUS
    <3> HIDE DEF V
    <3> QED
      BY <3>1 DEF Walk!BoundedSeq, Walk!SeqOf
  <2> QED
    BY <2>1, <2>2, <2>3
<1>2. h[l] \in Walk!Holding
  BY DEF IsGoHeap
<1>3. CASE h[l].kind = "slice"
  BY <1>1, <1>3 DEF ItemsIn, AddressIn
<1>4. CASE h[l].kind = "pointer"
  <2>1. h[l].to \in V
    BY <1>2, <1>4 DEF Walk!Holding
  <2>2. \A x \in V : <<x>> \in Seq(V)
    OBVIOUS
  <2> QED
    BY <1>4, <2>1, <2>2 DEF ItemsIn, AddressIn
<1>5. CASE h[l].kind = "prefix"
  <2>1. /\ h[l].of \in Location /\ h[l].length \in Nat
    BY <1>2, <1>5 DEF Walk!Holding
  <2>2. /\ h[h[l].of].kind = "slice" /\ h[l].length <= Len(h[h[l].of].items)
    BY <1>5 DEF IsGoHeap, Walk!IsHeap
  <2>3. \A s \in Seq(V), n \in Nat : n <= Len(s) => SubSeq(s, 1, n) \in Seq(V)
    OBVIOUS
  <2>4. h[h[l].of].items \in Seq(V)
    BY <1>1, <2>1, <2>2
  <2>5. SubSeq(h[h[l].of].items, 1, h[l].length) \in Seq(V)
    BY <2>1, <2>2, <2>3, <2>4
  <2> QED
    BY <1>5, <2>1, <2>5 DEF ItemsIn, AddressIn
<1>6. CASE h[l].kind = "first"
  <2>1. h[l].of \in Location
    BY <1>2, <1>6 DEF Walk!Holding
  <2>2. h[h[l].of].kind = "slice" /\ Len(h[h[l].of].items) > 0
    BY <1>6 DEF IsGoHeap, Walk!IsHeap
  <2>3. \A s \in Seq(V) : Len(s) > 0 => s[1] \in V /\ <<s[1]>> \in Seq(V)
    OBVIOUS
  <2>4. h[h[l].of].items \in Seq(V)
    BY <1>1, <2>1, <2>2
  <2>5. <<h[h[l].of].items[1]>> \in Seq(V)
    BY <2>2, <2>3, <2>4
  <2> QED
    BY <1>6, <2>1, <2>5 DEF ItemsIn, AddressIn
<1>7. h[l].kind \in {"slice", "pointer", "prefix", "first"}
  BY <1>2 DEF Walk!Holding
<1> QED
  BY <1>3, <1>4, <1>5, <1>6, <1>7

LEMMA LevelsAre ==
  ASSUME NEW h, IsGoHeap(h), NEW l \in Location
  PROVE  /\ Levels(h, l) \in [0..Depth -> SUBSET Walk!Value]
         /\ Levels(h, l)[0] = Contents(h, l)
         /\ \A n \in 1..Depth :
              Levels(h, l)[n] = Levels(h, l)[n - 1] \cup
                UNION {Contents(h, m) : m \in Levels(h, l)[n - 1] \cap Location}
<1> DEFINE V == SUBSET Walk!Value
           next(s) == s \cup UNION {Contents(h, m) : m \in s \cap Location}
           step == [p \in Nat \X V |-> next(p[2])]
<1>1. \A m \in Location : Contents(h, m) \in V
  <2>1. \A m \in Location : ItemsIn(h, m) \in Seq(Walk!Value)
    BY HeapItems
  <2> QED
    BY <2>1 DEF Contents
<1>2. \A s \in V : next(s) \in V
  BY <1>1
<1>3. step \in [Nat \X V -> V] /\ \A i \in Nat, s \in V : step[<<i, s>>] = next(s)
  <2> HIDE DEF next, V
  <2> QED
    BY <1>2
<1>4. Depth \in Nat
  BY DepthIsNat DEF IsGoHeap
<1>5. PICK f \in [0..Depth -> V] :
        f[0] = Contents(h, l) /\ \A i \in 1..Depth : f[i] = step[<<i, f[i - 1]>>]
  <2>1. Contents(h, l) \in V /\ step \in [Nat \X V -> V]
    BY <1>1, <1>3
  <2>2. \A n \in Nat : HasValues(V, Contents(h, l), step, n)
    <3> HIDE DEF step, V
    <3> QED
      BY <2>1, Recursion
  <2>3. HasValues(V, Contents(h, l), step, Depth)
    BY <1>4, <2>2
  <2> QED
    BY <2>3 DEF HasValues
<1>6. \A i \in 1..Depth : f[i] = next(f[i - 1])
  <2>1. \A i \in 1..Depth : f[i - 1] \in V /\ i \in Nat
    BY <1>4
  <2> HIDE DEF step, V, next
  <2> QED
    BY <1>3, <1>5, <2>1
<1>7. IsLevels(h, l, f)
  <2> DEFINE g == [n \in 0..Depth |-> IF n = 0 THEN Contents(h, l) ELSE next(f[n - 1])]
  <2>1. ASSUME NEW n \in 0..Depth PROVE f[n] = g[n]
    <3>1. n # 0 => n \in 1..Depth
      BY <1>4
    <3> HIDE DEF next
    <3> QED
      BY <1>5, <1>6, <3>1
  <2>2. f = g
    <3> HIDE DEF next, V
    <3> QED
      BY <2>1
  <2> QED
    BY <2>2 DEF IsLevels
<1>8. IsLevels(h, l, Levels(h, l))
  BY <1>7 DEF Levels
<1> DEFINE w == Levels(h, l)
<1>9. /\ DOMAIN w = 0..Depth
      /\ \A n \in 0..Depth : w[n] = IF n = 0 THEN Contents(h, l) ELSE next(w[n - 1])
  <2> HIDE DEF w
  <2>1. IsLevels(h, l, w)
    BY <1>8 DEF w
  <2> QED
    BY <2>1 DEF IsLevels
<1>10. w[0] = Contents(h, l) /\ \A n \in 1..Depth : w[n] = next(w[n - 1])
  <2> HIDE DEF w, next
  <2> QED
    BY <1>4, <1>9
<1>11. \A n \in Nat : n \in 0..Depth => w[n] \in V
  <2> DEFINE S == {n \in Nat : n \in 0..Depth => w[n] \in V}
  <2>1. 0 \in S
    BY <1>1, <1>10
  <2>2. ASSUME NEW n \in Nat, n \in S PROVE n + 1 \in S
    <3>1. n + 1 \in 0..Depth => n \in 0..Depth /\ n + 1 \in 1..Depth /\ (n + 1) - 1 = n
      BY <1>4
    <3> HIDE DEF w, next, V
    <3> QED
      BY <1>2, <1>10, <2>2, <3>1
  <2> HIDE DEF S
  <2>3. Nat \subseteq S
    BY <2>1, <2>2, NatSetInduction
  <2> QED
    BY <2>3 DEF S
<1>12. w \in [0..Depth -> V]
  <2>1. w = [n \in 0..Depth |-> w[n]]
    <3> HIDE DEF w
    <3>1. IsLevels(h, l, w)
      BY <1>8 DEF w
    <3> QED
      BY <3>1 DEF IsLevels
  <2> HIDE DEF w, V
  <2> QED
    BY <1>4, <1>11, <2>1
<1> QED
  BY <1>10, <1>12

(* The levels grow, up to all that is below.                               *)
LEMMA LevelsGrow ==
  ASSUME NEW h, IsGoHeap(h), NEW l \in Location
  PROVE  \A n \in 0..Depth : \A k \in 0..n : Levels(h, l)[k] \subseteq Levels(h, l)[n]
<1> DEFINE w == Levels(h, l)
           S == {n \in Nat : n \in 0..Depth => \A k \in 0..n : w[k] \subseteq w[n]}
<1>1. Depth \in Nat
  BY DepthIsNat DEF IsGoHeap
<1>2. \A n \in 1..Depth : w[n - 1] \subseteq w[n]
  BY LevelsAre
<1> HIDE DEF w
<1>3. 0 \in S
  OBVIOUS
<1>4. ASSUME NEW n \in Nat, n \in S PROVE n + 1 \in S
  <2>1. n + 1 \in 0..Depth => n \in 0..Depth /\ w[n] \subseteq w[n + 1]
    <3>1. n + 1 \in 0..Depth => n \in 0..Depth /\ n + 1 \in 1..Depth /\ (n + 1) - 1 = n
      BY <1>1
    <3> QED
      BY <1>2, <3>1
  <2>2. \A k \in 0..(n + 1) : k \in 0..n \/ k = n + 1
    OBVIOUS
  <2> QED
    BY <1>4, <2>1, <2>2
<1>5. Nat \subseteq S
  <2> HIDE DEF S
  <2> QED
    BY <1>3, <1>4, NatSetInduction
<1> QED
  BY <1>1, <1>5 DEF w

LEMMA LevelIsBelow ==
  ASSUME NEW h, IsGoHeap(h), NEW l \in Location
  PROVE  /\ \A n \in 0..Depth : Levels(h, l)[n] \subseteq BelowIn(h, l)
         /\ Contents(h, l) \subseteq BelowIn(h, l)
         /\ BelowIn(h, l) \subseteq Walk!Value
<1>1. Depth \in Nat /\ Depth \in 0..Depth /\ 0 \in 0..Depth
  BY DepthIsNat DEF IsGoHeap
<1>2. \A n \in 0..Depth : Levels(h, l)[n] \subseteq Levels(h, l)[Depth]
  BY <1>1, LevelsGrow
<1>3. Levels(h, l)[0] = Contents(h, l) /\ Levels(h, l)[Depth] \subseteq Walk!Value
  BY <1>1, LevelsAre
<1> QED
  BY <1>1, <1>2, <1>3 DEF BelowIn

(* One step further down.                                                  *)
LEMMA StepDown ==
  ASSUME NEW h, IsGoHeap(h), NEW l \in Location, NEW m \in Location,
         NEW n \in Nat, n < Depth, m \in Levels(h, l)[n], NEW x \in Contents(h, m)
  PROVE  x \in Levels(h, l)[n + 1]
<1>1. n + 1 \in 1..Depth /\ (n + 1) - 1 = n
  BY DepthIsNat DEF IsGoHeap
<1>2. Levels(h, l)[n + 1] = Levels(h, l)[n] \cup
        UNION {Contents(h, k) : k \in Levels(h, l)[n] \cap Location}
  BY <1>1, LevelsAre
<1> QED
  BY <1>2

(* What is below a value is in it, or below something in it.               *)
LEMMA BelowIsInContents ==
  ASSUME NEW h, IsGoHeap(h), NEW l \in Location
  PROVE  BelowIn(h, l) \subseteq
           Contents(h, l) \cup UNION {BelowIn(h, m) : m \in Contents(h, l) \cap Location}
<1> DEFINE C == Contents(h, l) \cap Location
           In(n) == Contents(h, l) \cup UNION {Levels(h, m)[n] : m \in C}
           S == {n \in Nat : n \in 0..Depth => Levels(h, l)[n] \subseteq In(n)}
<1>1. Depth \in Nat
  BY DepthIsNat DEF IsGoHeap
<1>2. 0 \in S
  BY LevelsAre
<1>3. ASSUME NEW n \in Nat, n \in S PROVE n + 1 \in S
  <2>1. SUFFICES ASSUME n + 1 \in 0..Depth, NEW x \in Levels(h, l)[n + 1] PROVE x \in In(n + 1)
    OBVIOUS
  <2>2. n + 1 \in 1..Depth /\ (n + 1) - 1 = n /\ n \in 0..Depth /\ n < Depth
    BY <1>1, <2>1
  <2>3. Levels(h, l)[n + 1] = Levels(h, l)[n] \cup
          UNION {Contents(h, k) : k \in Levels(h, l)[n] \cap Location}
    BY <2>2, LevelsAre
  <2>4. \A m \in C : Levels(h, m)[n] \subseteq Levels(h, m)[n + 1]
    BY <2>1, <2>2, LevelsGrow
  <2>5. Levels(h, l)[n] \subseteq In(n)
    BY <1>3, <2>2
  <2>6. In(n) \subseteq In(n + 1)
    BY <2>4
  <2>7. CASE x \in Levels(h, l)[n]
    BY <2>5, <2>6, <2>7
  <2>8. ASSUME NEW k \in Levels(h, l)[n] \cap Location, x \in Contents(h, k)
        PROVE  x \in In(n + 1)
    <3>1. CASE k \in C
      <4>1. Contents(h, k) \subseteq Levels(h, k)[n + 1]
        <5>1. Levels(h, k)[0] = Contents(h, k)
          BY LevelsAre
        <5>2. Levels(h, k)[0] \subseteq Levels(h, k)[n + 1]
          BY <2>1, <2>2, LevelsGrow
        <5> QED
          BY <5>1, <5>2
      <4> QED
        BY <2>8, <3>1, <4>1
    <3>2. CASE k \notin C
      <4>1. PICK m \in C : k \in Levels(h, m)[n]
        BY <2>5, <2>8, <3>2
      <4>2. x \in Levels(h, m)[n + 1]
        BY <2>2, <2>8, <4>1, StepDown
      <4> QED
        BY <4>1, <4>2
    <3> QED
      BY <3>1, <3>2
  <2> QED
    BY <2>1, <2>3, <2>7, <2>8
<1>4. Nat \subseteq S
  <2> HIDE DEF S
  <2> QED
    BY <1>2, <1>3, NatSetInduction
<1>5. Levels(h, l)[Depth] \subseteq In(Depth)
  BY <1>1, <1>4
<1> QED
  BY <1>5 DEF BelowIn

-----------------------------------------------------------------------------
(* The calls that are under way *)

Frame == [at : Location, done : Nat]

ItemsAt(h, f) == ItemsIn(h, f.at)
AddressAt(h, f) == AddressIn(h, f.at)

(* Each call is for the item that the one before it has come to.           *)
IsPath(h, st) ==
  /\ st \in Seq(Frame)
  /\ \A i \in 1..Len(st) : st[i].done <= Len(ItemsAt(h, st[i]))
  /\ Len(st) > 0 => st[1].at = Root
  /\ \A i \in 1..(Len(st) - 1) :
       st[i].done < Len(ItemsAt(h, st[i])) /\ ItemsAt(h, st[i])[st[i].done + 1] = st[i + 1].at

(* No address is entered twice.                                            *)
NoAddressTwice(h, st) ==
  \A i, j \in 1..Len(st) : i < j => AddressAt(h, st[i]) # AddressAt(h, st[j])

AddressesTo(h, st, n) == {AddressAt(h, st[i]) : i \in 1..n}

(* Everything that a value is or contains.                                 *)
Within(h, l) == ({l} \cup BelowIn(h, l)) \cap Location

(* Nothing in it is inside of what has the same address.                   *)
NothingNested(h, l) ==
  \A x \in Within(h, l) : \A y \in BelowIn(h, x) \cap Location : AddressIn(h, x) # AddressIn(h, y)

(* None of its addresses are in A.                                         *)
Apart(h, l, A) == \A x \in Within(h, l) : AddressIn(h, x) \notin A

(* What a call has done holds nothing nested, and none of the addresses    *)
(* that the walk is inside of.                                             *)
DoneIsSafe(h, st) ==
  \A i \in 1..Len(st) : \A k \in 1..st[i].done :
    LET item == ItemsAt(h, st[i])[k]
    IN item \in Location =>
         NothingNested(h, item) /\ Apart(h, item, AddressesTo(h, st, i))

(* Why the walk has stopped, if it has.                                    *)
StopsRight(h, st, vis, s) ==
  /\ s \in {"walking", "written", "cyclic", "unsupported"}
  /\ s = "written" <=> Len(st) = 0
  /\ s = "written" => NothingNested(h, Root)
  /\ s = "cyclic" =>
       LET top == st[Len(st)]
           item == ItemsAt(h, top)[top.done + 1]
       IN top.done < Len(ItemsAt(h, top)) /\ item \in Location /\ AddressIn(h, item) \in vis

(* The inductive invariant.                                                *)
WalkInvIn(h, st, vis, s) ==
  /\ IsGoHeap(h)
  /\ IsPath(h, st) /\ NoAddressTwice(h, st)
  /\ vis = AddressesTo(h, st, Len(st))
  /\ DoneIsSafe(h, st)
  /\ StopsRight(h, st, vis, s)

WalkInv == WalkInvIn(heap, stack, visiting, state)

LEMMA ItemIsIn ==
  ASSUME NEW h, IsGoHeap(h), NEW l \in Location
  PROVE  /\ \A k \in 1..Len(ItemsIn(h, l)) :
              ItemsIn(h, l)[k] \in Walk!Value /\ ItemsIn(h, l)[k] \in Contents(h, l)
         /\ Contents(h, l) = {ItemsIn(h, l)[k] : k \in 1..Len(ItemsIn(h, l))}
         /\ Len(ItemsIn(h, l)) \in Nat
<1>1. ItemsIn(h, l) \in Seq(Walk!Value)
  BY HeapItems
<1>2. \A V, q : q \in Seq(V) => /\ Len(q) \in Nat /\ DOMAIN q = 1..Len(q)
                              /\ \A k \in 1..Len(q) : q[k] \in V
  OBVIOUS
<1> QED
  BY <1>1, <1>2 DEF Contents

(* The item that a call has come to. *)
LEMMA AppendFrame ==
  ASSUME NEW q \in Seq(Frame), NEW f \in Frame
  PROVE  /\ Append(q, f) \in Seq(Frame) /\ Len(Append(q, f)) = Len(q) + 1
         /\ \A i \in 1..Len(q) : Append(q, f)[i] = q[i]
         /\ Append(q, f)[Len(q) + 1] = f
OBVIOUS

LEMMA FrontFrames ==
  ASSUME NEW q \in Seq(Frame), Len(q) > 0
  PROVE  /\ Walk!Front(q) \in Seq(Frame) /\ Len(Walk!Front(q)) = Len(q) - 1
         /\ \A i \in 1..(Len(q) - 1) : Walk!Front(q)[i] = q[i]
         /\ Walk!Last(q) = q[Len(q)]
<1>1. \A i \in 1..(Len(q) - 1) : q[i] \in Frame /\ 1 + i - 1 = i
  OBVIOUS
<1>2. Len(q) \in Nat /\ Len(q) - 1 \in Int /\ 1 \in Int
  OBVIOUS
<1>3. /\ SubSeq(q, 1, Len(q) - 1) \in Seq(Frame)
      /\ Len(SubSeq(q, 1, Len(q) - 1)) = IF 1 <= Len(q) - 1 THEN (Len(q) - 1) - 1 + 1 ELSE 0
      /\ \A i \in 1..((Len(q) - 1) - 1 + 1) : SubSeq(q, 1, Len(q) - 1)[i] = q[1 + i - 1]
  BY <1>1, <1>2, SubSeqProperties
<1>4. Len(SubSeq(q, 1, Len(q) - 1)) = Len(q) - 1
  <2> DEFINE r == SubSeq(q, 1, Len(q) - 1)
             n == Len(q)
  <2>1. n \in Nat /\ n > 0 /\ Len(r) = IF 1 <= n - 1 THEN (n - 1) - 1 + 1 ELSE 0
    BY <1>2, <1>3
  <2> HIDE DEF r, n
  <2>2. Len(r) = n - 1
    BY <2>1
  <2> QED
    BY <2>2 DEF r, n
<1> QED
  BY <1>1, <1>2, <1>3, <1>4 DEF Walk!Front, Walk!Last

LEMMA SameAddresses ==
  ASSUME NEW h, NEW a, NEW b, NEW n \in Nat,
         \A i \in 1..n : AddressAt(h, a[i]) = AddressAt(h, b[i])
  PROVE  \A k \in 1..n : AddressesTo(h, a, k) = AddressesTo(h, b, k)
BY DEF AddressesTo

AddsItsAddress(h, st, n) ==
  AddressesTo(h, st, n) = AddressesTo(h, st, n - 1) \cup {AddressAt(h, st[n])}

LEMMA OneMoreAddress ==
  ASSUME NEW h, NEW a, NEW m \in Nat, m > 0
  PROVE  AddsItsAddress(h, a, m)
<1>1. 1..m = 1..(m - 1) \cup {m}
  OBVIOUS
<1> QED
  BY <1>1 DEF AddressesTo, AddsItsAddress

(* The first call is made for Root.                                        *)
LEMMA WalkStarts ==
  ASSUME NEW h, IsGoHeap(h), NEW st, st = <<[at |-> Root, done |-> 0]>>
  PROVE  WalkInvIn(h, st, {AddressIn(h, Root)}, "walking")
<1>1. Root \in Location
  BY DEF IsGoHeap, Walk!HeapAssumption
<1>2. st \in Seq(Frame) /\ Len(st) = 1 /\ st[1] = [at |-> Root, done |-> 0]
  BY <1>1 DEF Frame
<1>3. Len(ItemsIn(h, Root)) \in Nat
  BY <1>1, ItemIsIn
<1>4. IsPath(h, st)
  BY <1>2, <1>3 DEF IsPath, ItemsAt
<1>5. NoAddressTwice(h, st)
  BY <1>2 DEF NoAddressTwice
<1>6. {AddressIn(h, Root)} = AddressesTo(h, st, Len(st))
  BY <1>2 DEF AddressesTo, AddressAt
<1>7. DoneIsSafe(h, st)
  BY <1>2 DEF DoneIsSafe
<1>8. StopsRight(h, st, {AddressIn(h, Root)}, "walking")
  BY <1>2 DEF StopsRight
<1> QED
  BY <1>4, <1>5, <1>6, <1>7, <1>8 DEF WalkInvIn

(* A leaf is written: one item more is done.                               *)
LEMMA LeafIsDone ==
  ASSUME NEW h, NEW st, NEW vis, NEW st2,
         WalkInvIn(h, st, vis, "walking"), Len(st) > 0,
         st[Len(st)].done < Len(ItemsAt(h, st[Len(st)])),
         ItemsAt(h, st[Len(st)])[st[Len(st)].done + 1] \in Leaf,
         st2 \in Seq(Frame), Len(st2) = Len(st),
         \A i \in 1..(Len(st) - 1) : st2[i] = st[i],
         st2[Len(st)] = [at |-> st[Len(st)].at, done |-> st[Len(st)].done + 1]
  PROVE  WalkInvIn(h, st2, vis, "walking")
<1> DEFINE n == Len(st)
<1>1. n \in Nat /\ n >= 1 /\ st \in Seq(Frame)
  BY DEF WalkInvIn, IsPath
<1>2. \A i \in 1..n : st[i] \in Frame /\ (i = n \/ i \in 1..(n - 1))
  BY <1>1
<1>3. \A i \in 1..n : st2[i].at = st[i].at
  BY <1>2
<1>4. IsPath(h, st2)
  <2>1. \A i \in 1..n : ItemsAt(h, st2[i]) = ItemsAt(h, st[i])
    BY <1>3 DEF ItemsAt
  <2>2. \A i \in 1..n : Len(ItemsAt(h, st[i])) \in Nat
    BY <1>2, ItemIsIn DEF ItemsAt, Frame, WalkInvIn
  <2>3. \A i \in 1..n : st2[i].done <= Len(ItemsAt(h, st2[i]))
    <3>1. \A i \in 1..n : st[i].done <= Len(ItemsAt(h, st[i])) /\ st[i].done \in Nat
      BY <1>2 DEF WalkInvIn, IsPath, Frame
    <3> QED
      BY <1>1, <1>2, <2>1, <2>2, <3>1
  <2>4. st2[1].at = Root
    BY <1>1, <1>3 DEF WalkInvIn, IsPath
  <2>5. ASSUME NEW i \in 1..(n - 1)
        PROVE  /\ st2[i].done < Len(ItemsAt(h, st2[i]))
               /\ ItemsAt(h, st2[i])[st2[i].done + 1] = st2[i + 1].at
    <3>1. st2[i] = st[i] /\ i + 1 \in 1..n /\ i \in 1..n
      BY <1>1
    <3> QED
      BY <1>3, <2>1, <3>1 DEF WalkInvIn, IsPath
  <2> QED
    BY <2>3, <2>4, <2>5 DEF IsPath
<1>5. \A i \in 1..n : AddressAt(h, st2[i]) = AddressAt(h, st[i])
  BY <1>3 DEF AddressAt
<1>6. NoAddressTwice(h, st2)
  BY <1>5 DEF NoAddressTwice, WalkInvIn
<1>7. \A k \in 1..n : AddressesTo(h, st2, k) = AddressesTo(h, st, k)
  BY <1>1, <1>5, SameAddresses
<1>8. vis = AddressesTo(h, st2, n)
  BY <1>1, <1>7 DEF WalkInvIn
<1>9. DoneIsSafe(h, st2)
  <2>1. SUFFICES ASSUME NEW i \in 1..n, NEW k \in 1..st2[i].done,
                        ItemsAt(h, st2[i])[k] \in Location
                 PROVE  /\ NothingNested(h, ItemsAt(h, st2[i])[k])
                        /\ Apart(h, ItemsAt(h, st2[i])[k], AddressesTo(h, st2, i))
    BY DEF DoneIsSafe
  <2>2. ItemsAt(h, st2[i]) = ItemsAt(h, st[i])
    BY <1>3 DEF ItemsAt
  <2>3. k \in 1..st[i].done
    <3>1. Location \cap Leaf = {}
      BY DEF WalkInvIn, IsGoHeap, Walk!HeapAssumption
    <3>2. CASE i = n
      <4>1. k # st[n].done + 1
        BY <2>1, <2>2, <3>1, <3>2
      <4>2. st[n].done \in Nat
        BY <1>1, <1>2 DEF Frame
      <4> QED
        BY <3>2, <4>1, <4>2
    <3>3. CASE i \in 1..(n - 1)
      BY <3>3
    <3> QED
      BY <1>2, <3>2, <3>3
  <2> QED
    BY <1>7, <2>1, <2>2, <2>3 DEF WalkInvIn, DoneIsSafe
<1>10. StopsRight(h, st2, vis, "walking")
  BY <1>1 DEF StopsRight
<1> QED
  BY <1>4, <1>6, <1>8, <1>9, <1>10 DEF WalkInvIn

(* A location is entered.                                                  *)
LEMMA LocationIsEntered ==
  ASSUME NEW h, NEW st, NEW vis, NEW st2, NEW m \in Location,
         WalkInvIn(h, st, vis, "walking"), Len(st) > 0,
         st[Len(st)].done < Len(ItemsAt(h, st[Len(st)])),
         ItemsAt(h, st[Len(st)])[st[Len(st)].done + 1] = m,
         AddressIn(h, m) \notin vis,
         st2 \in Seq(Frame), Len(st2) = Len(st) + 1,
         \A i \in 1..Len(st) : st2[i] = st[i],
         st2[Len(st) + 1] = [at |-> m, done |-> 0]
  PROVE  WalkInvIn(h, st2, vis \cup {AddressIn(h, m)}, "walking")
<1> DEFINE n == Len(st)
<1>1. n \in Nat /\ n >= 1 /\ st \in Seq(Frame)
  BY DEF WalkInvIn, IsPath
<1>2. \A i \in 1..(n + 1) : i = n + 1 \/ i \in 1..n
  BY <1>1
<1>3. IsPath(h, st2)
  <2>1. Len(ItemsIn(h, m)) \in Nat
    BY ItemIsIn DEF WalkInvIn
  <2>2. \A i \in 1..(n + 1) : st2[i].done <= Len(ItemsAt(h, st2[i]))
    <3>1. st2[n + 1].done = 0 /\ ItemsAt(h, st2[n + 1]) = ItemsIn(h, m)
      BY DEF ItemsAt
    <3>2. \A i \in 1..n : st[i].done <= Len(ItemsAt(h, st[i]))
      BY DEF WalkInvIn, IsPath
    <3> QED
      BY <1>2, <2>1, <3>1, <3>2
  <2>3. st2[1].at = Root
    BY <1>1 DEF WalkInvIn, IsPath
  <2>4. ASSUME NEW i \in 1..n
        PROVE  /\ st2[i].done < Len(ItemsAt(h, st2[i]))
               /\ ItemsAt(h, st2[i])[st2[i].done + 1] = st2[i + 1].at
    <3>1. CASE i = n
      BY <3>1, <1>1
    <3>2. CASE i # n
      <4>1. i \in 1..(n - 1) /\ i + 1 \in 1..n
        BY <1>1, <3>2
      <4> QED
        BY <4>1 DEF WalkInvIn, IsPath
    <3> QED
      BY <3>1, <3>2
  <2>5. Len(st2) = n + 1 /\ Len(st2) - 1 = n
    BY <1>1
  <2> HIDE DEF n
  <2> QED
    BY <2>2, <2>3, <2>4, <2>5 DEF IsPath
<1>4. AddressAt(h, st2[n + 1]) = AddressIn(h, m)
  BY DEF AddressAt
<1>5. \A i \in 1..n : AddressAt(h, st2[i]) = AddressAt(h, st[i]) /\ AddressAt(h, st[i]) \in vis
  BY DEF AddressesTo, WalkInvIn
<1>6. NoAddressTwice(h, st2)
  <2>1. \A i, j \in 1..n : i < j => AddressAt(h, st[i]) # AddressAt(h, st[j])
    BY DEF NoAddressTwice, WalkInvIn
  <2>2. SUFFICES ASSUME NEW i \in 1..(n + 1), NEW j \in 1..(n + 1), i < j
                 PROVE  AddressAt(h, st2[i]) # AddressAt(h, st2[j])
    BY DEF NoAddressTwice
  <2>3. i \in 1..n
    BY <1>1, <2>2
  <2> QED
    BY <1>2, <1>4, <1>5, <2>1, <2>2, <2>3
<1>7. \A k \in 1..n : AddressesTo(h, st2, k) = AddressesTo(h, st, k)
  BY <1>1, <1>5, SameAddresses
<1>8. vis \cup {AddressIn(h, m)} = AddressesTo(h, st2, n + 1)
  <2>1. vis = AddressesTo(h, st, n) /\ AddressesTo(h, st, n) = AddressesTo(h, st2, n)
    BY <1>1, <1>7 DEF WalkInvIn
  <2>2. AddressesTo(h, st2, n + 1) = AddressesTo(h, st2, n) \cup {AddressAt(h, st2[n + 1])}
    <3>1. AddsItsAddress(h, st2, n + 1) /\ (n + 1) - 1 = n
      BY <1>1, OneMoreAddress
    <3> QED
      BY <3>1 DEF AddsItsAddress
  <2> QED
    BY <1>4, <2>1, <2>2
<1>9. DoneIsSafe(h, st2)
  BY <1>1, <1>2, <1>7 DEF DoneIsSafe, WalkInvIn
<1>10. StopsRight(h, st2, vis \cup {AddressIn(h, m)}, "walking")
  BY <1>1 DEF StopsRight
<1> QED
  BY <1>3, <1>6, <1>8, <1>9, <1>10 DEF WalkInvIn

(* A location is left: nothing in it is nested, and nothing in it has an   *)
(* address that the calls before it are inside of.                         *)
LEMMA LocationIsSafe ==
  ASSUME NEW h, IsGoHeap(h), NEW l \in Location, NEW A,
         \A k \in 1..Len(ItemsIn(h, l)) : ItemsIn(h, l)[k] \in Location =>
           /\ NothingNested(h, ItemsIn(h, l)[k])
           /\ Apart(h, ItemsIn(h, l)[k], A \cup {AddressIn(h, l)}),
         AddressIn(h, l) \notin A
  PROVE  NothingNested(h, l) /\ Apart(h, l, A)
<1>1. ASSUME NEW m \in Contents(h, l) \cap Location
      PROVE  NothingNested(h, m) /\ Apart(h, m, A \cup {AddressIn(h, l)})
  <2>1. Contents(h, l) = {ItemsIn(h, l)[k] : k \in 1..Len(ItemsIn(h, l))}
    BY ItemIsIn
  <2>2. PICK k \in 1..Len(ItemsIn(h, l)) : m = ItemsIn(h, l)[k]
    BY <2>1
  <2> QED
    BY <2>2
<1>2. ASSUME NEW x \in BelowIn(h, l) \cap Location
      PROVE  \E m \in Contents(h, l) \cap Location : x \in Within(h, m)
  <2>1. BelowIn(h, l) \subseteq
          Contents(h, l) \cup UNION {BelowIn(h, m) : m \in Contents(h, l) \cap Location}
    BY BelowIsInContents
  <2> QED
    BY <2>1 DEF Within
<1>3. ASSUME NEW x \in BelowIn(h, l) \cap Location
      PROVE  AddressIn(h, x) \notin A \cup {AddressIn(h, l)}
  BY <1>1, <1>2 DEF Apart
<1>4. Within(h, l) = {l} \cup (BelowIn(h, l) \cap Location)
  BY DEF Within
<1>5. Apart(h, l, A)
  BY <1>3, <1>4 DEF Apart
<1>6. ASSUME NEW x \in Within(h, l), NEW y \in BelowIn(h, x) \cap Location
      PROVE  AddressIn(h, x) # AddressIn(h, y)
  <2>1. CASE x = l
    BY <1>3, <1>6, <2>1
  <2>2. CASE x # l
    <3>1. PICK m \in Contents(h, l) \cap Location : x \in Within(h, m)
      BY <1>2, <1>4, <1>6, <2>2
    <3> QED
      BY <1>1, <1>6, <3>1 DEF NothingNested
  <2> QED
    BY <2>1, <2>2
<1> QED
  BY <1>5, <1>6 DEF NothingNested

(* What a call knows of a location when it has done all its items.         *)
LeavesSafely(h, st, vis, n) ==
  /\ NothingNested(h, st[n].at)
  /\ Apart(h, st[n].at, AddressesTo(h, st, n - 1))
  /\ AddressesTo(h, st, n - 1) = vis \ {AddressAt(h, st[n])}

LEMMA TopIsSafe ==
  ASSUME NEW h, NEW st, NEW vis, NEW n, n = Len(st),
         WalkInvIn(h, st, vis, "walking"), n > 0,
         st[n].done = Len(ItemsAt(h, st[n]))
  PROVE  LeavesSafely(h, st, vis, n)
<1>1. n \in Nat /\ n >= 1 /\ n - 1 \in Nat /\ (n - 1) + 1 = n /\ n \in 1..n
  BY DEF WalkInvIn, IsPath
<1> DEFINE A == AddressesTo(h, st, n - 1)
           l == st[n].at
<1>2. l \in Location
  <2>1. st \in Seq(Frame)
    BY DEF WalkInvIn, IsPath
  <2>2. st[n] \in Frame
    BY <1>1, <2>1
  <2> QED
    BY <2>2 DEF Frame
<1>3. AddressesTo(h, st, n) = A \cup {AddressIn(h, l)}
  <2>1. AddressesTo(h, st, n) = A \cup {AddressAt(h, st[n])}
    <3>1. AddsItsAddress(h, st, n)
      BY <1>1, OneMoreAddress
    <3> QED
      BY <3>1 DEF AddsItsAddress
  <2> QED
    BY <1>1, <2>1 DEF AddressAt
<1>4. AddressIn(h, l) \notin A
  <2>1. \A i \in 1..(n - 1) : i \in 1..n /\ i < n
    BY <1>1
  <2>2. \A i \in 1..(n - 1) : AddressAt(h, st[i]) # AddressAt(h, st[n])
    BY <1>1, <2>1 DEF NoAddressTwice, WalkInvIn
  <2> QED
    BY <2>2 DEF AddressesTo, AddressAt
<1>5. ASSUME NEW k \in 1..Len(ItemsIn(h, l)), ItemsIn(h, l)[k] \in Location
      PROVE  /\ NothingNested(h, ItemsIn(h, l)[k])
             /\ Apart(h, ItemsIn(h, l)[k], A \cup {AddressIn(h, l)})
  <2>1. ItemsAt(h, st[n]) = ItemsIn(h, l)
    BY DEF ItemsAt
  <2>2. DoneIsSafe(h, st) /\ k \in 1..st[n].done
    BY <2>1 DEF WalkInvIn
  <2> HIDE DEF l, A
  <2> QED
    BY <1>1, <1>3, <1>5, <2>1, <2>2 DEF DoneIsSafe
<1>6. NothingNested(h, l) /\ Apart(h, l, A)
  <2> HIDE DEF l, A
  <2> QED
    BY <1>2, <1>4, <1>5, LocationIsSafe DEF WalkInvIn
<1>7. vis = AddressesTo(h, st, n)
  BY DEF WalkInvIn
<1>8. AddressAt(h, st[n]) = AddressIn(h, l)
  BY DEF AddressAt
<1> QED
  BY <1>3, <1>4, <1>6, <1>7, <1>8 DEF LeavesSafely

(* The location is left: the call before it has done one item more.        *)
LEMMA LocationIsLeft ==
  ASSUME NEW h, NEW st, NEW vis, NEW st2, NEW n, n = Len(st),
         WalkInvIn(h, st, vis, "walking"), n > 1,
         st[n].done = Len(ItemsAt(h, st[n])),
         st2 \in Seq(Frame), Len(st2) = n - 1,
         \A i \in 1..(n - 2) : st2[i] = st[i],
         st2[n - 1] = [at |-> st[n - 1].at, done |-> st[n - 1].done + 1]
  PROVE  WalkInvIn(h, st2, vis \ {AddressAt(h, st[n])}, "walking")
<1>1. n \in Nat /\ n - 1 \in Nat /\ n - 1 >= 1
  BY DEF WalkInvIn, IsPath
<1>2. st \in Seq(Frame) /\ \A i \in 1..n : st[i] \in Frame
  BY DEF WalkInvIn, IsPath
<1>3. \A i \in 1..(n - 1) : i \in 1..n /\ (i = n - 1 \/ i \in 1..(n - 2))
  BY <1>1
<1>4. \A i \in 1..(n - 1) : st2[i].at = st[i].at
  <2>1. st2[n - 1].at = st[n - 1].at
    OBVIOUS
  <2>2. \A i \in 1..(n - 2) : st2[i].at = st[i].at
    OBVIOUS
  <2> QED
    BY <1>3, <2>1, <2>2
<1>5. \A i \in 1..(n - 1) :
        ItemsAt(h, st2[i]) = ItemsAt(h, st[i]) /\ AddressAt(h, st2[i]) = AddressAt(h, st[i])
  BY <1>4 DEF ItemsAt, AddressAt
<1>6. /\ st[n - 1].done < Len(ItemsAt(h, st[n - 1]))
      /\ ItemsAt(h, st[n - 1])[st[n - 1].done + 1] = st[n].at
  <2>1. n - 1 \in 1..(Len(st) - 1) /\ (n - 1) + 1 = n
    BY <1>1
  <2> QED
    BY <2>1 DEF WalkInvIn, IsPath
<1>7. \A i \in 1..n : st[i].done \in Nat /\ st[i].at \in Location
  BY <1>2 DEF Frame
<1>8. \A i \in 1..n : Len(ItemsAt(h, st[i])) \in Nat /\ st[i].done <= Len(ItemsAt(h, st[i]))
  <2>1. \A i \in 1..n : Len(ItemsAt(h, st[i])) \in Nat
    BY <1>7, ItemIsIn DEF WalkInvIn, ItemsAt
  <2> QED
    BY <2>1 DEF WalkInvIn, IsPath
<1>9. IsPath(h, st2)
  <2>1. \A i \in 1..(n - 1) : st2[i].done <= Len(ItemsAt(h, st2[i]))
    <3>1. st2[n - 1].done <= Len(ItemsAt(h, st2[n - 1]))
      <4>1. n - 1 \in 1..n /\ n - 1 \in 1..(n - 1)
        BY <1>1
      <4>2. st2[n - 1].done = st[n - 1].done + 1
        OBVIOUS
      <4> QED
        BY <1>5, <1>6, <1>7, <1>8, <4>1, <4>2
    <3> QED
      BY <1>3, <1>5, <1>8, <3>1
  <2>2. st2[1].at = Root
    <3>1. 1 \in 1..(n - 1) /\ st[1].at = Root
      BY <1>1 DEF WalkInvIn, IsPath
    <3> QED
      BY <1>4, <3>1
  <2>3. ASSUME NEW i \in 1..((n - 1) - 1)
        PROVE  /\ st2[i].done < Len(ItemsAt(h, st2[i]))
               /\ ItemsAt(h, st2[i])[st2[i].done + 1] = st2[i + 1].at
    <3>1. i \in 1..(n - 2) /\ i \in 1..(Len(st) - 1) /\ i \in 1..(n - 1) /\ i + 1 \in 1..(n - 1)
      BY <1>1
    <3>2. /\ st[i].done < Len(ItemsAt(h, st[i]))
          /\ ItemsAt(h, st[i])[st[i].done + 1] = st[i + 1].at
      BY <3>1 DEF WalkInvIn, IsPath
    <3> QED
      BY <1>4, <1>5, <3>1, <3>2
  <2> QED
    BY <2>1, <2>2, <2>3 DEF IsPath
<1>10. NoAddressTwice(h, st2)
  <2>1. \A i, j \in 1..n : i < j => AddressAt(h, st[i]) # AddressAt(h, st[j])
    BY DEF NoAddressTwice, WalkInvIn
  <2> QED
    BY <1>3, <1>5, <2>1 DEF NoAddressTwice
<1>11. \A k \in 1..(n - 1) : AddressesTo(h, st2, k) = AddressesTo(h, st, k)
  BY <1>1, <1>5, SameAddresses
<1>12. /\ NothingNested(h, st[n].at)
       /\ Apart(h, st[n].at, AddressesTo(h, st, n - 1))
       /\ AddressesTo(h, st, n - 1) = vis \ {AddressAt(h, st[n])}
  <2>1. n > 0
    BY <1>1
  <2>2. LeavesSafely(h, st, vis, n)
    BY <2>1, TopIsSafe
  <2> QED
    BY <2>2 DEF LeavesSafely
<1>13. vis \ {AddressAt(h, st[n])} = AddressesTo(h, st2, Len(st2))
  <2>1. n - 1 \in 1..(n - 1)
    BY <1>1
  <2> QED
    BY <2>1, <1>11, <1>12
<1>14. DoneIsSafe(h, st2)
  <2>1. SUFFICES ASSUME NEW i \in 1..(n - 1), NEW k \in 1..st2[i].done,
                        ItemsAt(h, st2[i])[k] \in Location
                 PROVE  /\ NothingNested(h, ItemsAt(h, st2[i])[k])
                        /\ Apart(h, ItemsAt(h, st2[i])[k], AddressesTo(h, st2, i))
    BY DEF DoneIsSafe
  <2>2. CASE k \in 1..st[i].done
    <3>1. i \in 1..Len(st)
      BY <1>3
    <3> QED
      BY <1>5, <1>11, <2>1, <2>2, <3>1 DEF WalkInvIn, DoneIsSafe
  <2>3. CASE k \notin 1..st[i].done
    <3>1. i = n - 1
      BY <1>3, <2>3
    <3>2. k = st[n - 1].done + 1
      <4>1. st[n - 1].done \in Nat /\ st2[n - 1].done = st[n - 1].done + 1
        BY <1>1, <1>7
      <4> QED
        BY <2>3, <3>1, <4>1
    <3>3. ItemsAt(h, st2[i])[k] = st[n].at
      BY <1>5, <1>6, <3>1, <3>2
    <3> QED
      BY <1>11, <1>12, <3>1, <3>3
  <2> QED
    BY <2>2, <2>3
<1>15. StopsRight(h, st2, vis \ {AddressAt(h, st[n])}, "walking")
  BY <1>1 DEF StopsRight
<1> QED
  BY <1>9, <1>10, <1>13, <1>14, <1>15 DEF WalkInvIn

(* The first call returns.                                                 *)
LEMMA WalkReturns ==
  ASSUME NEW h, NEW st, NEW vis,
         WalkInvIn(h, st, vis, "walking"), Len(st) = 1,
         st[1].done = Len(ItemsAt(h, st[1]))
  PROVE  WalkInvIn(h, <<>>, vis \ {AddressAt(h, st[1])}, "written")
<1>1. /\ NothingNested(h, st[1].at)
      /\ AddressesTo(h, st, 0) = vis \ {AddressAt(h, st[1])}
  <2>1. 1 = Len(st) /\ 1 > 0 /\ 1 - 1 = 0
    OBVIOUS
  <2>2. LeavesSafely(h, st, vis, 1)
    BY <2>1, TopIsSafe
  <2> QED
    BY <2>1, <2>2 DEF LeavesSafely
<1>2. st[1].at = Root
  BY DEF WalkInvIn, IsPath
<1>3. <<>> \in Seq(Frame) /\ Len(<<>>) = 0 /\ 1..0 = {}
  OBVIOUS
<1>4. IsPath(h, <<>>) /\ NoAddressTwice(h, <<>>) /\ DoneIsSafe(h, <<>>)
  BY <1>3 DEF IsPath, NoAddressTwice, DoneIsSafe
<1>5. AddressesTo(h, <<>>, 0) = AddressesTo(h, st, 0)
  BY <1>3 DEF AddressesTo
<1>6. StopsRight(h, <<>>, vis \ {AddressAt(h, st[1])}, "written")
  BY <1>1, <1>2, <1>3 DEF StopsRight
<1> QED
  BY <1>1, <1>3, <1>4, <1>5, <1>6 DEF WalkInvIn

-----------------------------------------------------------------------------
(* What the invariant implies *)

LEMMA PathFrames ==
  ASSUME NEW h, NEW st, NEW vis, NEW s, WalkInvIn(h, st, vis, s)
  PROVE  /\ Len(st) \in Nat /\ Depth \in Nat /\ Depth = Cardinality(Location)
         /\ \A k \in 1..Len(st) : st[k].at \in Location /\ st[k].done \in Nat
<1>1. st \in Seq(Frame)
  BY DEF WalkInvIn, IsPath
<1>2. Len(st) \in Nat /\ \A k \in 1..Len(st) : st[k] \in Frame
  BY <1>1
<1>3. \A f \in Frame : f.at \in Location /\ f.done \in Nat
  BY DEF Frame
<1>4. Depth \in Nat /\ Depth = Cardinality(Location)
  BY DepthIsNat DEF WalkInvIn, IsGoHeap
<1> QED
  BY <1>2, <1>3, <1>4

LEMMA PathIsShort ==
  ASSUME NEW h, NEW st, NEW vis, NEW s, WalkInvIn(h, st, vis, s)
  PROVE  Len(st) <= Depth /\ Len(st) \in Nat
<1> DEFINE n == Len(st)
           f == [i \in 1..n |-> AddressAt(h, st[i])]
<1>1. n \in Nat
  BY PathFrames
<1>2. \A i \in 1..n : AddressAt(h, st[i]) \in Location
  <2>1. \A i \in 1..n : st[i].at \in Location
    BY PathFrames
  <2> QED
    BY <2>1, HeapItems DEF AddressAt, WalkInvIn
<1>3. \A i, j \in 1..n : AddressAt(h, st[i]) = AddressAt(h, st[j]) => i = j
  <2>1. \A i, j \in 1..n : i < j => AddressAt(h, st[i]) # AddressAt(h, st[j])
    BY DEF WalkInvIn, NoAddressTwice
  <2>2. \A i, j \in 1..n : i < j \/ i = j \/ j < i
    BY <1>1
  <2> QED
    BY <2>1, <2>2
<1>4. f \in [1..n -> Location] /\ \A i, j \in 1..n : f[i] = f[j] => i = j
  <2> HIDE DEF n
  <2> QED
    BY <1>2, <1>3
<1>5. IsFiniteSet(Location)
  BY DEF WalkInvIn, IsGoHeap, Walk!HeapAssumption, Walk!IsFiniteSet, IsFiniteSet
<1>6. f \in Injection(1..n, Location)
  <2> HIDE DEF f, n
  <2> QED
    BY <1>4 DEF Injection, IsInjective
<1>7. Cardinality(1..n) <= Cardinality(Location)
  <2> HIDE DEF f, n
  <2> QED
    BY <1>5, <1>6, FS_Injection
<1>8. Cardinality(1..n) = n
  <2> HIDE DEF n
  <2> QED
    BY <1>1, FS_Interval
<1>9. Depth = Cardinality(Location)
  BY DepthIsNat DEF WalkInvIn, IsGoHeap
<1> QED
  BY <1>1, <1>7, <1>8, <1>9

(* Each call is below those before it.                                     *)
LEMMA PathGoesDown ==
  ASSUME NEW h, NEW st, NEW vis, NEW s, WalkInvIn(h, st, vis, s),
         NEW i \in 1..Len(st)
  PROVE  \A d \in Nat : i + d + 1 <= Len(st) => st[i + d + 1].at \in Levels(h, st[i].at)[d]
<1> DEFINE n == Len(st)
           S == {d \in Nat : i + d + 1 <= n => st[i + d + 1].at \in Levels(h, st[i].at)[d]}
<1>1. /\ n \in Nat /\ Depth \in Nat /\ n <= Depth
      /\ \A k \in 1..n : st[k].at \in Location /\ st[k].done \in Nat
  BY PathFrames, PathIsShort
<1>2. ASSUME NEW k \in 1..(n - 1) PROVE st[k + 1].at \in Contents(h, st[k].at)
  <2>1. /\ st[k].done < Len(ItemsIn(h, st[k].at))
        /\ ItemsIn(h, st[k].at)[st[k].done + 1] = st[k + 1].at
    BY DEF WalkInvIn, IsPath, ItemsAt
  <2>2. k \in 1..n
    BY <1>1
  <2>3. st[k].at \in Location /\ Len(ItemsIn(h, st[k].at)) \in Nat
    BY <1>1, <2>2, ItemIsIn DEF WalkInvIn
  <2>4. st[k].done + 1 \in 1..Len(ItemsIn(h, st[k].at))
    BY <1>1, <2>1, <2>2, <2>3
  <2> QED
    BY <2>1, <2>3, <2>4, ItemIsIn DEF WalkInvIn
<1>3. 0 \in S
  <2>1. SUFFICES ASSUME i + 1 <= n PROVE st[i + 1].at \in Levels(h, st[i].at)[0]
    OBVIOUS
  <2>2. i \in 1..(n - 1)
    BY <1>1, <2>1
  <2>3. Levels(h, st[i].at)[0] = Contents(h, st[i].at)
    BY <1>1, LevelsAre DEF WalkInvIn
  <2> QED
    BY <1>2, <2>2, <2>3
<1>4. ASSUME NEW d \in Nat, d \in S PROVE d + 1 \in S
  <2>1. SUFFICES ASSUME i + (d + 1) + 1 <= n
                 PROVE  st[i + (d + 1) + 1].at \in Levels(h, st[i].at)[d + 1]
    OBVIOUS
  <2> DEFINE k == i + d + 1
  <2>2. k \in 1..(n - 1) /\ k \in 1..n /\ i + (d + 1) + 1 = k + 1 /\ d < Depth /\ i \in 1..n
    BY <1>1, <2>1
  <2>3. st[k].at \in Levels(h, st[i].at)[d]
    BY <1>4, <2>2
  <2> HIDE DEF k
  <2>4. st[k + 1].at \in Levels(h, st[i].at)[d + 1]
    <3>1. st[k + 1].at \in Contents(h, st[k].at)
      BY <1>2, <2>2
    <3>2. st[i].at \in Location /\ st[k].at \in Location
      BY <1>1, <2>2
    <3> QED
      BY <2>2, <2>3, <3>1, <3>2, StepDown DEF WalkInvIn
  <2> QED
    BY <2>2, <2>4
<1>5. Nat \subseteq S
  <2> HIDE DEF S
  <2> QED
    BY <1>3, <1>4, NatSetInduction
<1> QED
  BY <1>5

(* So is the item that the last call has come to.                          *)
LEMMA ItemGoesDown ==
  ASSUME NEW h, NEW st, NEW vis, NEW s, WalkInvIn(h, st, vis, s),
         NEW i \in 1..Len(st), NEW item \in Location,
         st[Len(st)].done < Len(ItemsAt(h, st[Len(st)])),
         item = ItemsAt(h, st[Len(st)])[st[Len(st)].done + 1]
  PROVE  item \in BelowIn(h, st[i].at)
<1> DEFINE n == Len(st)
           l == st[n].at
<1>1. /\ n \in Nat /\ Depth \in Nat /\ n <= Depth /\ n \in 1..n
      /\ \A k \in 1..n : st[k].at \in Location /\ st[k].done \in Nat
  <2>1. Len(st) \in Nat /\ \A k \in 1..Len(st) : k <= Len(st) /\ 1 <= Len(st)
    BY PathFrames
  <2>2. n \in 1..n
    BY <2>1
  <2> QED
    BY <2>2, PathFrames, PathIsShort
<1>2. item \in Contents(h, l)
  <2>1. st[n].done < Len(ItemsIn(h, l)) /\ ItemsIn(h, l)[st[n].done + 1] = item
    BY DEF ItemsAt
  <2>2. l \in Location /\ Len(ItemsIn(h, l)) \in Nat
    BY <1>1, ItemIsIn DEF WalkInvIn
  <2>3. st[n].done + 1 \in 1..Len(ItemsIn(h, l))
    BY <1>1, <2>1, <2>2
  <2> QED
    BY <2>1, <2>2, <2>3, ItemIsIn DEF WalkInvIn
<1>3. CASE i = n
  BY <1>1, <1>2, <1>3, LevelIsBelow DEF WalkInvIn
<1>4. CASE i < n
  <2> DEFINE d == n - i - 1
  <2>1. d \in Nat /\ i + d + 1 = n /\ d < Depth /\ d + 1 \in 0..Depth
    BY <1>1, <1>4
  <2>2. l \in Levels(h, st[i].at)[d]
    <3>1. i + d + 1 <= Len(st)
      BY <1>1, <2>1
    <3>2. st[i + d + 1].at \in Levels(h, st[i].at)[d]
      <4> HIDE DEF d
      <4> QED
        BY <2>1, <3>1, PathGoesDown
    <3> QED
      BY <2>1, <3>2
  <2>3. item \in Levels(h, st[i].at)[d + 1]
    <3>1. st[i].at \in Location /\ l \in Location
      BY <1>1
    <3> HIDE DEF d, l
    <3> QED
      BY <1>2, <2>1, <2>2, <3>1, StepDown DEF WalkInvIn
  <2> QED
    <3>1. st[i].at \in Location
      BY <1>1
    <3> HIDE DEF d
    <3> QED
      BY <2>1, <2>3, <3>1, LevelIsBelow DEF WalkInvIn
<1> QED
  BY <1>1, <1>3, <1>4

LEMMA PathIsReached ==
  ASSUME NEW h, NEW st, NEW vis, NEW s, WalkInvIn(h, st, vis, s), NEW i \in 1..Len(st)
  PROVE  st[i].at \in {Root} \cup BelowIn(h, Root)
<1>1. /\ Len(st) \in Nat /\ Depth \in Nat /\ Len(st) <= Depth
      /\ Len(st) > 0 /\ 1 \in 1..Len(st)
  BY PathFrames, PathIsShort
<1>2. st[1].at = Root
  BY <1>1 DEF WalkInvIn, IsPath
<1>3. Root \in Location
  BY DEF WalkInvIn, IsGoHeap, Walk!HeapAssumption
<1>4. CASE i > 1
  <2> DEFINE d == i - 2
  <2>1. d \in Nat /\ 1 + d + 1 = i /\ 1 + d + 1 <= Len(st) /\ d \in 0..Depth
    BY <1>1, <1>4
  <2>2. st[1 + d + 1].at \in Levels(h, st[1].at)[d]
    <3> HIDE DEF d
    <3> QED
      BY <1>1, <2>1, PathGoesDown
  <2>3. st[i].at \in Levels(h, Root)[d]
    BY <1>2, <2>1, <2>2
  <2> HIDE DEF d
  <2> QED
    BY <1>3, <2>1, <2>3, LevelIsBelow DEF WalkInvIn
<1>5. CASE i = 1
  BY <1>2, <1>5
<1> QED
  BY <1>1, <1>4, <1>5

LEMMA NestedIn ==
  ASSUME NEW h, NEW st, NEW vis, WalkInvIn(h, st, vis, "cyclic")
  PROVE  \E l \in ({Root} \cup BelowIn(h, Root)) \cap Location :
         \E m \in BelowIn(h, l) \cap Location :
           /\ AddressIn(h, l) = AddressIn(h, m)
           /\ m \in BelowIn(h, Root)
<1> DEFINE n == Len(st)
           item == ItemsAt(h, st[n])[st[n].done + 1]
<1>1. /\ st[n].done < Len(ItemsAt(h, st[n])) /\ item \in Location
      /\ AddressIn(h, item) \in vis
  BY DEF WalkInvIn, StopsRight
<1>2. vis = {AddressAt(h, st[k]) : k \in 1..n}
  BY DEF WalkInvIn, AddressesTo
<1>3. PICK i \in 1..n : AddressIn(h, item) = AddressAt(h, st[i])
  BY <1>1, <1>2
<1>4. n \in Nat /\ n > 0 /\ 1 \in 1..n /\ st[1].at = Root
  <2>1. n \in Nat /\ n > 0 /\ 1 \in 1..n
    BY PathFrames
  <2> QED
    BY <2>1 DEF WalkInvIn, IsPath
<1>5. item \in BelowIn(h, st[i].at) /\ item \in BelowIn(h, st[1].at)
  <2> HIDE DEF item
  <2>1. item = ItemsAt(h, st[n])[st[n].done + 1]
    BY DEF item
  <2> QED
    BY <1>1, <1>4, <2>1, ItemGoesDown
<1>6. st[i].at \in ({Root} \cup BelowIn(h, Root)) \cap Location
  BY PathIsReached, PathFrames
<1> HIDE DEF item, n
<1> QED
  BY <1>1, <1>3, <1>4, <1>5, <1>6 DEF AddressAt

LEMMA WalkIsRight ==
  ASSUME WalkInv
  PROVE  Walk!TypeOK /\ Walk!DepthIsBounded /\ Walk!RefusedOnlyIfNested
<1>1. WalkInvIn(heap, stack, visiting, state)
  BY DEF WalkInv
<1>2. \A l : Walk!Address(l) = AddressIn(heap, l) /\ Walk!Below(l) = BelowIn(heap, l)
  BY AnyHeap
<1>3. Walk!Reached = {Root} \cup BelowIn(heap, Root)
  BY <1>2 DEF Walk!Reached
<1>4. Walk!DepthIsBounded
  BY <1>1, PathIsShort, PathFrames DEF Walk!DepthIsBounded, Depth
<1>5. Walk!TypeOK
  <2>1. stack \in Seq(Frame)
    BY <1>1 DEF WalkInvIn, IsPath
  <2>2. DOMAIN stack = 1..Len(stack) /\ (stack = <<>> <=> Len(stack) = 0)
    BY <2>1
  <2>3. visiting = {AddressIn(heap, stack[i].at) : i \in 1..Len(stack)}
    BY <1>1 DEF WalkInvIn, AddressesTo, AddressAt
  <2>4. visiting = {Walk!Address(stack[i].at) : i \in DOMAIN stack}
    <3>1. \A i \in 1..Len(stack) : Walk!Address(stack[i].at) = AddressIn(heap, stack[i].at)
      BY <1>2
    <3> QED
      BY <2>2, <2>3, <3>1
  <2>5. /\ state \in {"walking", "written", "cyclic", "unsupported"}
        /\ state = "written" <=> Len(stack) = 0
    BY <1>1 DEF WalkInvIn, StopsRight
  <2> QED
    BY <2>2, <2>4, <2>5 DEF Walk!TypeOK
<1>6. ASSUME state = "cyclic"
      PROVE  /\ Walk!AddressRepeats
             /\ ~ Walk!ContainsItself =>
                  \E l \in Walk!Reached \cap Location : heap[l].kind \in {"prefix", "first"}
  <2>0. PICK l \in Walk!Reached \cap Location :
           \E m \in BelowIn(heap, l) \cap Location :
              AddressIn(heap, l) = AddressIn(heap, m) /\ m \in BelowIn(heap, Root)
    BY <1>1, <1>3, <1>6, NestedIn
  <2>1. PICK m \in BelowIn(heap, l) \cap Location :
           AddressIn(heap, l) = AddressIn(heap, m) /\ m \in BelowIn(heap, Root)
    BY <2>0
  <2>2. Walk!AddressRepeats
    BY <1>2, <2>1 DEF Walk!AddressRepeats
  <2>3. m \in Walk!Reached
    BY <1>3, <2>1
  <2>4. CASE heap[l].kind \in {"prefix", "first"} \/ heap[m].kind \in {"prefix", "first"}
    BY <2>1, <2>2, <2>3, <2>4
  <2>5. CASE heap[l].kind \notin {"prefix", "first"} /\ heap[m].kind \notin {"prefix", "first"}
    <3>1. l = m
      BY <2>1, <2>5 DEF AddressIn
    <3>2. l \in Walk!Below(l)
      BY <1>2, <2>1, <3>1
    <3> QED
      BY <2>1, <2>2, <3>2 DEF Walk!ContainsItself
  <2> QED
    BY <2>4, <2>5
<1>7. ASSUME state = "written" PROVE ~ Walk!AddressRepeats
  <2>1. NothingNested(heap, Root)
    BY <1>1, <1>7 DEF WalkInvIn, StopsRight
  <2>2. \A x \in Walk!Reached \cap Location : \A y \in Walk!Below(x) \cap Location :
          Walk!Address(x) # Walk!Address(y)
    BY <1>2, <1>3, <2>1 DEF NothingNested, Within
  <2> QED
    BY <2>2 DEF Walk!AddressRepeats
<1>8. Walk!RefusedOnlyIfNested
  BY <1>6, <1>7 DEF Walk!RefusedOnlyIfNested
<1> QED
  BY <1>4, <1>5, <1>8

(* The last of n calls has done one item more.                             *)
OneItemMore(st, n, st2) ==
  /\ st2 \in Seq(Frame) /\ Len(st2) = n
  /\ \A i \in 1..(n - 1) : st2[i] = st[i]
  /\ st2[n] = [at |-> st[n].at, done |-> st[n].done + 1]

LEMMA OneMoreIsDone ==
  ASSUME NEW st \in Seq(Frame), Len(st) > 0
  PROVE  OneItemMore(st, Len(st),
           Append(Walk!Front(st), [st[Len(st)] EXCEPT !.done = @ + 1]))
<1> DEFINE n == Len(st)
           f == st[n]
           st2 == Append(Walk!Front(st), [f EXCEPT !.done = @ + 1])
<1>1. n \in Nat /\ f \in Frame
  OBVIOUS
<1> HIDE DEF f
<1>2. /\ [f EXCEPT !.done = @ + 1] = [at |-> f.at, done |-> f.done + 1]
      /\ [f EXCEPT !.done = @ + 1] \in Frame
  BY <1>1 DEF Frame
<1> DEFINE g == [f EXCEPT !.done = @ + 1]
           q == Walk!Front(st)
<1> HIDE DEF g
<1>3. /\ q \in Seq(Frame) /\ Len(q) = n - 1 /\ \A i \in 1..(n - 1) : q[i] = st[i]
  BY FrontFrames
<1> HIDE DEF q
<1>4. g \in Frame
  BY <1>2 DEF g
<1>5. /\ Append(q, g) \in Seq(Frame) /\ Len(Append(q, g)) = Len(q) + 1
      /\ \A i \in 1..Len(q) : Append(q, g)[i] = q[i]
      /\ Append(q, g)[Len(q) + 1] = g
  BY <1>3, <1>4, AppendFrame
<1>6. st2 = Append(q, g)
  BY DEF q, g
<1>7. Len(q) + 1 = n
  BY <1>1, <1>3
<1>8. g = [at |-> st[n].at, done |-> st[n].done + 1]
  BY <1>2 DEF f, g
<1> HIDE DEF n, st2
<1>9. OneItemMore(st, n, st2)
  BY <1>1, <1>3, <1>5, <1>6, <1>7, <1>8 DEF OneItemMore
<1> QED
  BY <1>9 DEF n, st2, f

LEMMA CallerIsDone ==
  ASSUME NEW n \in Nat, n > 1, NEW st, \A i \in 1..n : st[i] \in Frame,
         NEW q \in Seq(Frame), Len(q) = n - 1, \A i \in 1..(n - 1) : q[i] = st[i],
         NEW st2, st2 = [q EXCEPT ![Len(q)].done = @ + 1]
  PROVE  OneItemMore(st, n - 1, st2)
<1> DEFINE k == n - 1
           f == q[k]
           g == [f EXCEPT !.done = @ + 1]
<1>1. k \in Nat /\ k >= 1 /\ Len(q) = k /\ k \in 1..k /\ n - 2 = k - 1
  OBVIOUS
<1>2. f = st[k] /\ f \in Frame
  BY <1>1
<1>3. g = [at |-> f.at, done |-> f.done + 1] /\ g \in Frame
  <2> HIDE DEF f
  <2> QED
    BY <1>2 DEF Frame
<1>4. st2 = [q EXCEPT ![k] = g]
  BY <1>1
<1> HIDE DEF g, k
<1>5. st2 \in Seq(Frame) /\ Len(st2) = k /\ st2[k] = g /\ \A i \in 1..(k - 1) : st2[i] = q[i]
  BY <1>1, <1>3, <1>4
<1>6. \A i \in 1..(k - 1) : q[i] = st[i]
  BY <1>1 DEF k
<1> QED
  BY <1>1, <1>2, <1>3, <1>5, <1>6 DEF k, OneItemMore

LEMMA WalkInvHolds ==
  ASSUME Walk!HeapAssumption
  PROVE  Walk!Spec => []WalkInv
<1>1. ASSUME Walk!Init PROVE WalkInv
  <2>1. IsGoHeap(heap)
    BY <1>1 DEF Walk!Init, IsGoHeap
  <2>2. stack = <<[at |-> Root, done |-> 0]>> /\ visiting = {AddressIn(heap, Root)} /\ state = "walking"
    BY <1>1, AnyHeap DEF Walk!Init, Walk!Call
  <2> QED
    BY <2>1, <2>2, WalkStarts DEF WalkInv
<1>2. ASSUME WalkInv, [Walk!Next]_(Walk!vars) PROVE WalkInv'
  <2> DEFINE n == Len(stack)
  <2>1. CASE UNCHANGED Walk!vars
    BY <1>2, <2>1 DEF Walk!vars, WalkInv
  <2>2. ASSUME state = "walking", stack # <<>>, heap' = heap
        PROVE  /\ WalkInvIn(heap, stack, visiting, "walking")
               /\ stack \in Seq(Frame) /\ n \in Nat /\ n > 0
               /\ \A i \in 1..n : stack[i] \in Frame
               /\ stack[n] \in Frame
               /\ Walk!Top = stack[n]
               /\ Walk!Items(Walk!Top.at) = ItemsAt(heap, stack[n])
               /\ Walk!NextItem = ItemsAt(heap, stack[n])[stack[n].done + 1]
    <3>1. WalkInvIn(heap, stack, visiting, "walking")
      BY <1>2, <2>2 DEF WalkInv
    <3>2. stack \in Seq(Frame)
      BY <3>1 DEF WalkInvIn, IsPath
    <3>3. n \in Nat /\ n > 0 /\ \A i \in 1..n : stack[i] \in Frame
      BY <2>2, <3>2
    <3>4. Walk!Top = stack[n]
      BY DEF Walk!Top, Walk!Last
    <3>5. Walk!Items(Walk!Top.at) = ItemsAt(heap, stack[n])
      BY <3>4, AnyHeap DEF ItemsAt
    <3> QED
      BY <3>1, <3>2, <3>3, <3>4, <3>5 DEF Walk!NextItem
  <2>3. CASE Walk!WriteLeaf
    <3>1. /\ state = "walking" /\ stack # <<>> /\ heap' = heap /\ visiting' = visiting
          /\ Walk!Top.done < Len(Walk!Items(Walk!Top.at)) /\ Walk!NextItem \in Leaf
      BY <2>3 DEF Walk!WriteLeaf
    <3>2. CASE /\ stack' = Append(Walk!Front(stack), [Walk!Top EXCEPT !.done = @ + 1])
               /\ state' = state
      <4>1. /\ stack' \in Seq(Frame) /\ Len(stack') = n
            /\ \A i \in 1..(n - 1) : stack'[i] = stack[i]
            /\ stack'[n] = [at |-> stack[n].at, done |-> stack[n].done + 1]
        <5>1. OneItemMore(stack, n, Append(Walk!Front(stack), [stack[n] EXCEPT !.done = @ + 1]))
          BY <2>2, <3>1, OneMoreIsDone
        <5>2. stack' = Append(Walk!Front(stack), [stack[n] EXCEPT !.done = @ + 1])
          BY <2>2, <3>1, <3>2
        <5> QED
          BY <5>1, <5>2 DEF OneItemMore
      <4>2. WalkInvIn(heap, stack', visiting, "walking")
        BY <2>2, <3>1, <4>1, LeafIsDone
      <4> QED
        BY <3>1, <3>2, <4>2 DEF WalkInv
    <3>3. CASE state' = "unsupported" /\ stack' = stack
      <4>1. WalkInvIn(heap, stack, visiting, "unsupported")
        BY <2>2, <3>1 DEF WalkInvIn, StopsRight
      <4> QED
        BY <3>1, <3>3, <4>1 DEF WalkInv
    <3> QED
      BY <2>3, <3>2, <3>3 DEF Walk!WriteLeaf
  <2>4. CASE Walk!Enter
    <3> DEFINE m == Walk!NextItem
    <3>1. /\ state = "walking" /\ stack # <<>> /\ heap' = heap
          /\ Walk!Top.done < Len(Walk!Items(Walk!Top.at)) /\ m \in Location
      BY <2>4 DEF Walk!Enter
    <3>2. Walk!Remembered(m) = {AddressIn(heap, m)}
      BY AnyHeap DEF Walk!Remembered
    <3>3. CASE AddressIn(heap, m) \in visiting
      <4>1. state' = "cyclic" /\ stack' = stack /\ visiting' = visiting
        BY <2>4, <3>2, <3>3 DEF Walk!Enter
      <4>2. WalkInvIn(heap, stack, visiting, "cyclic")
        BY <2>2, <3>1, <3>3 DEF WalkInvIn, StopsRight
      <4> QED
        BY <3>1, <4>1, <4>2 DEF WalkInv
    <3>4. CASE AddressIn(heap, m) \notin visiting
      <4>1. /\ state' = state /\ visiting' = visiting \cup {AddressIn(heap, m)}
            /\ stack' = Append(stack, Walk!Call(m))
        BY <2>4, <3>2, <3>4 DEF Walk!Enter
      <4>2. [at |-> m, done |-> 0] \in Frame
        BY <3>1 DEF Frame
      <4>3. /\ stack' \in Seq(Frame) /\ Len(stack') = n + 1
            /\ \A i \in 1..n : stack'[i] = stack[i]
            /\ stack'[n + 1] = [at |-> m, done |-> 0]
        <5> HIDE DEF m
        <5> QED
          BY <2>2, <3>1, <4>1, <4>2, AppendFrame DEF Walk!Call
      <4>4. WalkInvIn(heap, stack', visiting \cup {AddressIn(heap, m)}, "walking")
        <5> HIDE DEF m
        <5>1. ItemsAt(heap, stack[n])[stack[n].done + 1] = m
          BY <2>2, <3>1 DEF m
        <5> QED
          BY <2>2, <3>1, <3>4, <4>3, <5>1, LocationIsEntered
      <4> QED
        BY <3>1, <4>1, <4>4 DEF WalkInv
    <3> QED
      BY <3>3, <3>4
  <2>5. CASE Walk!Return
    <3>1. /\ state = "walking" /\ stack # <<>> /\ heap' = heap
          /\ Walk!Top.done = Len(Walk!Items(Walk!Top.at))
          /\ visiting' = Walk!Forget(Walk!Top.at)
      BY <2>5 DEF Walk!Return
    <3>2. stack[n].done = Len(ItemsAt(heap, stack[n]))
      BY <2>2, <3>1
    <3>3. visiting' = visiting \ {AddressAt(heap, stack[n])}
      BY <2>2, <3>1, AnyHeap DEF Walk!Forget, AddressAt
    <3>4. /\ Walk!Front(stack) \in Seq(Frame) /\ Len(Walk!Front(stack)) = n - 1
          /\ \A i \in 1..(n - 1) : Walk!Front(stack)[i] = stack[i]
      BY <2>2, <3>1, FrontFrames
    <3>5. CASE n = 1
      <4>1. Walk!Front(stack) = <<>>
        BY <3>4, <3>5
      <4>2. stack' = <<>> /\ state' = "written"
        BY <2>5, <4>1 DEF Walk!Return
      <4>3. WalkInvIn(heap, <<>>, visiting \ {AddressAt(heap, stack[1])}, "written")
        BY <2>2, <3>1, <3>2, <3>5, WalkReturns
      <4> QED
        BY <3>1, <3>3, <3>5, <4>2, <4>3 DEF WalkInv
    <3>6. CASE n > 1
      <4>1. Walk!Front(stack) # <<>>
        BY <3>4, <3>6
      <4>2. /\ stack' = [Walk!Front(stack) EXCEPT ![Len(Walk!Front(stack))].done = @ + 1]
            /\ state' = state
        BY <2>5, <4>1 DEF Walk!Return
      <4>3. /\ stack' \in Seq(Frame) /\ Len(stack') = n - 1
            /\ \A i \in 1..(n - 2) : stack'[i] = stack[i]
            /\ stack'[n - 1] = [at |-> stack[n - 1].at, done |-> stack[n - 1].done + 1]
        <5>1. OneItemMore(stack, n - 1, stack')
          <6> DEFINE callers == Walk!Front(stack)
          <6>1. n \in Nat /\ \A i \in 1..n : stack[i] \in Frame
            BY <2>2, <3>1
          <6> HIDE DEF n
          <6> QED
            BY <3>4, <3>6, <4>2, <6>1, CallerIsDone
        <5>2. (n - 1) - 1 = n - 2
          BY <2>2, <3>1
        <5> QED
          BY <5>1, <5>2 DEF OneItemMore
      <4>4. WalkInvIn(heap, stack', visiting \ {AddressAt(heap, stack[n])}, "walking")
        BY <2>2, <3>1, <3>2, <3>6, <4>3, LocationIsLeft
      <4> QED
        BY <3>1, <3>3, <4>2, <4>4 DEF WalkInv
    <3>7. n = 1 \/ n > 1
      <4>1. n \in Nat /\ n > 0
        BY <2>2, <3>1
      <4> HIDE DEF n
      <4> QED
        BY <4>1
    <3> QED
      BY <3>5, <3>6, <3>7
  <2> QED
    BY <1>2, <2>1, <2>3, <2>4, <2>5 DEF Walk!Next
<1> QED
  BY <1>1, <1>2, PTL DEF Walk!Spec

-----------------------------------------------------------------------------
(* The walk remembers the addresses it is inside of, each call only once.  *)
LEMMA WalkTypes == Walk!HeapAssumption /\ Walk!Spec => []Walk!TypeOK
<1> SUFFICES ASSUME Walk!HeapAssumption PROVE Walk!Spec => []Walk!TypeOK
  OBVIOUS
<1>1. Walk!Spec => []WalkInv
  BY WalkInvHolds
<1>2. WalkInv => Walk!TypeOK
  BY WalkIsRight
<1> QED
  BY <1>1, <1>2, PTL

(* The walk over a Go value is never deeper than there are locations, and  *)
(* refuses only an address that is within itself: what is shared is        *)
(* written each time (idempotency.go:236-253).                             *)
LEMMA WalkRefuses ==
  Walk!HeapAssumption /\ Walk!Spec
    => [](Walk!DepthIsBounded /\ Walk!RefusedOnlyIfNested)
<1> SUFFICES ASSUME Walk!HeapAssumption
             PROVE  Walk!Spec => [](Walk!DepthIsBounded /\ Walk!RefusedOnlyIfNested)
  OBVIOUS
<1>1. Walk!Spec => []WalkInv
  BY WalkInvHolds
<1>2. WalkInv => Walk!DepthIsBounded /\ Walk!RefusedOnlyIfNested
  BY WalkIsRight
<1> QED
  BY <1>1, <1>2, PTL

-----------------------------------------------------------------------------
(* JsonStrings: escapes, delimiters and insides, chunk by chunk *)

(* What JsonStrings says of its text, for any text.                        *)
BackslashesIn(t, i) ==
  CHOOSE n \in 0..(i - 1) :
    /\ \A j \in (i - n)..(i - 1) : t[j] = "backslash"
    /\ n < i - 1 => t[i - n - 1] # "backslash"

IsEscapedIn(t, i) == BackslashesIn(t, i) % 2 = 1

IsDelimiterIn(t, i) == t[i] = "quote" /\ ~IsEscapedIn(t, i)

IsOpening(t, i, f) ==
  f = [n \in 0..(i - 1) |->
         IF n = 0 THEN FALSE
         ELSE IF n \in {j \in 1..(i - 1) : IsDelimiterIn(t, j)} THEN ~f[n - 1] ELSE f[n - 1]]

Opening(t, i) == CHOOSE f : IsOpening(t, i, f)

OpensAt(t, i) == Opening(t, i)[i - 1]

IsInsideIn(t, i) == OpensAt(t, i) /\ ~IsDelimiterIn(t, i)

IsHalfIn(t, i, kind) ==
  i \in DOMAIN t /\ t[i] = kind /\ IsEscapedIn(t, i) /\ IsInsideIn(t, i)

LEMMA AnyText ==
  /\ \A i : /\ Strings!IsDelimiter(i) <=> IsDelimiterIn(chunks, i)
            /\ Strings!IsEscaped(i) <=> IsEscapedIn(chunks, i)
            /\ Strings!IsInside(i) <=> IsInsideIn(chunks, i)
  /\ \A i, kind : Strings!IsHalf(i, kind) <=> IsHalfIn(chunks, i, kind)
<1>1. \A i : Strings!Backslashes(i) = BackslashesIn(chunks, i)
  BY DEF Strings!Backslashes, BackslashesIn
<1>2. \A i : Strings!IsEscaped(i) <=> IsEscapedIn(chunks, i)
  BY <1>1 DEF Strings!IsEscaped, IsEscapedIn
<1>3. \A i : Strings!IsDelimiter(i) <=> IsDelimiterIn(chunks, i)
  BY <1>2 DEF Strings!IsDelimiter, IsDelimiterIn
<1>4. \A i : Strings!IsInside(i) <=> IsInsideIn(chunks, i)
  <2> TAKE i
  <2>1. {j \in 1..(i - 1) : Strings!IsDelimiter(j)} = {j \in 1..(i - 1) : IsDelimiterIn(chunks, j)}
    BY <1>3
  <2> QED
    BY <1>3, <2>1 DEF Strings!IsInside, IsInsideIn, OpensAt, Opening, IsOpening
<1>5. \A i, kind : Strings!IsHalf(i, kind) <=> IsHalfIn(chunks, i, kind)
  BY <1>2, <1>4 DEF Strings!IsHalf, IsHalfIn
<1> QED
  BY <1>2, <1>3, <1>4, <1>5

(* The backslashes before a chunk, counted from one chunk to the next.     *)
IsCount(t, i, n) ==
  /\ n \in 0..(i - 1)
  /\ \A j \in (i - n)..(i - 1) : t[j] = "backslash"
  /\ n < i - 1 => t[i - n - 1] # "backslash"

LEMMA OneCount ==
  ASSUME NEW t, NEW i \in Nat, i > 0, NEW n, IsCount(t, i, n)
  PROVE  BackslashesIn(t, i) = n
<1>1. ASSUME NEW m, IsCount(t, i, m) PROVE m = n
  <2>1. m \in Nat /\ n \in Nat /\ m <= i - 1 /\ n <= i - 1
    BY <1>1 DEF IsCount
  <2>2. CASE n < m
    <3>1. i - n - 1 \in (i - m)..(i - 1) /\ n < i - 1
      BY <2>1, <2>2
    <3> QED
      BY <1>1, <3>1 DEF IsCount
  <2>3. CASE m < n
    <3>1. i - m - 1 \in (i - n)..(i - 1) /\ m < i - 1
      BY <2>1, <2>3
    <3> QED
      BY <1>1, <3>1 DEF IsCount
  <2> QED
    BY <2>1, <2>2, <2>3
<1>2. BackslashesIn(t, i) = CHOOSE m \in 0..(i - 1) : IsCount(t, i, m)
  BY DEF BackslashesIn, IsCount
<1>3. n \in 0..(i - 1)
  BY DEF IsCount
<1> QED
  BY <1>1, <1>2, <1>3

LEMMA CountGoesOn ==
  ASSUME NEW t
  PROVE  /\ BackslashesIn(t, 1) = 0
         /\ \A i \in Nat \ {0} :
              /\ BackslashesIn(t, i) \in Nat
              /\ BackslashesIn(t, i + 1)
                   = IF t[i] = "backslash" THEN BackslashesIn(t, i) + 1 ELSE 0
<1>1. IsCount(t, 1, 0)
  BY DEF IsCount
<1>2. ASSUME NEW i \in Nat \ {0}, NEW n, IsCount(t, i, n)
      PROVE  IsCount(t, i + 1, IF t[i] = "backslash" THEN n + 1 ELSE 0)
  <2>1. n \in Nat /\ n <= i - 1
    BY <1>2 DEF IsCount
  <2>2. CASE t[i] = "backslash"
    <3>1. \A j \in ((i + 1) - (n + 1))..((i + 1) - 1) : j = i \/ j \in (i - n)..(i - 1)
      BY <2>1
    <3>2. (i + 1) - (n + 1) - 1 = i - n - 1 /\ n + 1 \in 0..((i + 1) - 1)
      BY <2>1
    <3> QED
      BY <1>2, <2>1, <2>2, <3>1, <3>2 DEF IsCount
  <2>3. CASE t[i] # "backslash"
    BY <2>1, <2>3 DEF IsCount
  <2> QED
    BY <2>2, <2>3
<1> DEFINE S == {i \in Nat : i = 0 \/ \E n : IsCount(t, i, n)}
<1>3. 0 \in S /\ \A i \in Nat : i \in S => i + 1 \in S
  BY <1>1, <1>2
<1>4. \A i \in Nat \ {0} : \E n : IsCount(t, i, n)
  <2> HIDE DEF S
  <2>1. Nat \subseteq S
    BY <1>3, NatSetInduction
  <2> QED
    BY <2>1 DEF S
<1>5. ASSUME NEW i \in Nat \ {0}
      PROVE  /\ BackslashesIn(t, i) \in Nat
             /\ BackslashesIn(t, i + 1)
                  = IF t[i] = "backslash" THEN BackslashesIn(t, i) + 1 ELSE 0
  <2>1. PICK n : IsCount(t, i, n)
    BY <1>4
  <2>2. BackslashesIn(t, i) = n /\ n \in Nat
    <3>1. n \in Nat
      BY <2>1 DEF IsCount
    <3> QED
      BY <2>1, <3>1, OneCount
  <2>3. IsCount(t, i + 1, IF t[i] = "backslash" THEN n + 1 ELSE 0)
    BY <1>2, <2>1
  <2>4. BackslashesIn(t, i + 1) = IF t[i] = "backslash" THEN n + 1 ELSE 0
    BY <2>3, OneCount
  <2> QED
    BY <2>2, <2>4
<1> QED
  BY <1>1, <1>5, OneCount

(* A chunk is escaped by a backslash that is not escaped itself.           *)
LEMMA EscapeGoesOn ==
  ASSUME NEW t
  PROVE  /\ ~IsEscapedIn(t, 1)
         /\ \A i \in Nat \ {0} :
              IsEscapedIn(t, i + 1) <=> t[i] = "backslash" /\ ~IsEscapedIn(t, i)
<1>1. \A n \in Nat : (n + 1) % 2 = 1 <=> n % 2 # 1
  OBVIOUS
<1>2. 0 % 2 # 1
  OBVIOUS
<1> QED
  BY <1>1, <1>2, CountGoesOn DEF IsEscapedIn

(* Each delimiter opens a string or closes one.                            *)
Alternates(t, i, f) ==
  /\ \A n \in 0..(i - 1) : f[n] \in BOOLEAN
  /\ f[0] = FALSE
  /\ \A n \in 1..(i - 1) : f[n] = IF IsDelimiterIn(t, n) THEN ~f[n - 1] ELSE f[n - 1]

LEMMA OpeningIs ==
  ASSUME NEW t, NEW i \in Nat \ {0}
  PROVE  Alternates(t, i, Opening(t, i))
<1> DEFINE before == {j \in 1..(i - 1) : IsDelimiterIn(t, j)}
           next(n, b) == IF n \in before THEN ~b ELSE b
           step == [p \in Nat \X BOOLEAN |-> next(p[1], p[2])]
<1>1. step \in [Nat \X BOOLEAN -> BOOLEAN] /\ \A n \in Nat, b \in BOOLEAN : step[<<n, b>>] = next(n, b)
  <2>1. \A n, b : b \in BOOLEAN => next(n, b) \in BOOLEAN
    <3> HIDE DEF before
    <3> QED
      OBVIOUS
  <2> HIDE DEF next
  <2> QED
    BY <2>1
<1>2. FALSE \in BOOLEAN /\ i - 1 \in Nat
  OBVIOUS
<1>3. HasValues(BOOLEAN, FALSE, step, i - 1)
  <2>1. \A n \in Nat : HasValues(BOOLEAN, FALSE, step, n)
    <3> HIDE DEF step
    <3> QED
      BY <1>1, <1>2, Recursion
  <2> QED
    BY <1>2, <2>1
<1>4. PICK f \in [0..(i - 1) -> BOOLEAN] :
        f[0] = FALSE /\ \A n \in 1..(i - 1) : f[n] = step[<<n, f[n - 1]>>]
  BY <1>3 DEF HasValues
<1>5. \A n \in 1..(i - 1) : f[n] = next(n, f[n - 1])
  <2>1. \A n \in 1..(i - 1) : n \in Nat /\ f[n - 1] \in BOOLEAN
    BY <1>2
  <2> HIDE DEF step, next
  <2> QED
    BY <1>1, <1>4, <2>1
<1> DEFINE IsIt(g) == g = [n \in 0..(i - 1) |-> IF n = 0 THEN FALSE ELSE next(n, g[n - 1])]
<1>6. \A g : IsOpening(t, i, g) <=> IsIt(g)
  BY DEF IsOpening
<1>7. IsIt(f)
  <2> DEFINE g == [n \in 0..(i - 1) |-> IF n = 0 THEN FALSE ELSE next(n, f[n - 1])]
  <2>1. \A n \in 0..(i - 1) : n = 0 \/ n \in 1..(i - 1)
    BY <1>2
  <2>2. \A n \in 0..(i - 1) : f[n] = g[n]
    <3> HIDE DEF next
    <3> QED
      BY <1>4, <1>5, <2>1
  <2>3. f = g
    <3> HIDE DEF next
    <3> QED
      BY <2>2
  <2> QED
    BY <2>3
<1> DEFINE w == Opening(t, i)
<1>8. IsIt(w)
  <2>1. IsOpening(t, i, w)
    <3> HIDE DEF IsIt
    <3> QED
      BY <1>6, <1>7 DEF Opening
  <2> HIDE DEF IsIt, w
  <2> QED
    BY <1>6, <2>1
<1>9. \A n \in 0..(i - 1) : w[n] = IF n = 0 THEN FALSE ELSE next(n, w[n - 1])
  <2> HIDE DEF w, next
  <2>1. w = [n \in 0..(i - 1) |-> IF n = 0 THEN FALSE ELSE next(n, w[n - 1])]
    BY <1>8
  <2> QED
    BY <2>1
<1>10. w[0] = FALSE /\ \A n \in 1..(i - 1) : w[n] = next(n, w[n - 1])
  <2> HIDE DEF w, next
  <2>1. 0 \in 0..(i - 1) /\ \A n \in 1..(i - 1) : n \in 0..(i - 1) /\ n # 0
    BY <1>2
  <2> QED
    BY <1>9, <2>1
<1>11. \A n \in 0..(i - 1) : w[n] \in BOOLEAN
  <2> DEFINE S == {n \in Nat : n \in 0..(i - 1) => w[n] \in BOOLEAN}
  <2>1. 0 \in S
    BY <1>10
  <2>2. ASSUME NEW n \in Nat, n \in S PROVE n + 1 \in S
    <3>1. n + 1 \in 0..(i - 1) => n \in 0..(i - 1) /\ n + 1 \in 1..(i - 1) /\ (n + 1) - 1 = n
      BY <1>2
    <3>2. \A b \in BOOLEAN : next(n + 1, b) \in BOOLEAN
      <4> HIDE DEF before
      <4> QED
        OBVIOUS
    <3> HIDE DEF w, next
    <3> QED
      BY <1>10, <2>2, <3>1, <3>2
  <2> HIDE DEF S
  <2>3. Nat \subseteq S
    BY <2>1, <2>2, NatSetInduction
  <2> QED
    BY <1>2, <2>3 DEF S
<1>12. \A n \in 1..(i - 1) : n \in before <=> IsDelimiterIn(t, n)
  OBVIOUS
<1> HIDE DEF before
<1> QED
  BY <1>10, <1>11, <1>12 DEF Alternates

(* The same, from one chunk to the next.                                   *)
LEMMA OpenGoesOn ==
  ASSUME NEW t
  PROVE  /\ ~OpensAt(t, 1)
         /\ \A i \in Nat \ {0} :
              /\ OpensAt(t, i) \in BOOLEAN
              /\ OpensAt(t, i + 1) <=> (IsDelimiterIn(t, i) <=> ~OpensAt(t, i))
<1>1. ~OpensAt(t, 1)
  <2>1. 1 \in Nat \ {0} /\ 1 - 1 = 0
    OBVIOUS
  <2>2. Alternates(t, 1, Opening(t, 1))
    BY <2>1, OpeningIs
  <2> QED
    BY <2>1, <2>2 DEF OpensAt, Alternates
<1>2. ASSUME NEW i \in Nat \ {0}
      PROVE  /\ OpensAt(t, i) \in BOOLEAN
             /\ OpensAt(t, i + 1) <=> (IsDelimiterIn(t, i) <=> ~OpensAt(t, i))
  <2> DEFINE v == Opening(t, i)
             w == Opening(t, i + 1)
             S == {n \in Nat : n \in 0..(i - 1) => w[n] = v[n]}
  <2>1. /\ i - 1 \in Nat /\ i - 1 \in 0..(i - 1) /\ (i + 1) - 1 = i /\ i + 1 \in Nat \ {0}
        /\ \A n \in 1..(i - 1) : n \in 1..i
        /\ i - 1 \in 0..i /\ i \in 1..i
    OBVIOUS
  <2>2. /\ \A n \in 0..(i - 1) : v[n] \in BOOLEAN
        /\ v[0] = FALSE
        /\ \A n \in 1..(i - 1) : v[n] = IF IsDelimiterIn(t, n) THEN ~v[n - 1] ELSE v[n - 1]
    BY OpeningIs DEF Alternates
  <2>3. /\ \A n \in 0..i : w[n] \in BOOLEAN
        /\ w[0] = FALSE
        /\ \A n \in 1..i : w[n] = IF IsDelimiterIn(t, n) THEN ~w[n - 1] ELSE w[n - 1]
    <3>1. Alternates(t, i + 1, w)
      BY <2>1, OpeningIs
    <3> HIDE DEF w
    <3> QED
      BY <2>1, <3>1 DEF Alternates
  <2> HIDE DEF v, w
  <2>4. 0 \in S
    BY <2>2, <2>3
  <2>5. ASSUME NEW n \in Nat, n \in S PROVE n + 1 \in S
    <3>1. n + 1 \in 0..(i - 1) =>
            n \in 0..(i - 1) /\ n + 1 \in 1..(i - 1) /\ n + 1 \in 1..i /\ (n + 1) - 1 = n
      BY <2>1
    <3> QED
      BY <2>2, <2>3, <2>5, <3>1
  <2>6. w[i - 1] = v[i - 1]
    <3> HIDE DEF S
    <3>1. Nat \subseteq S
      BY <2>4, <2>5, NatSetInduction
    <3> QED
      BY <2>1, <3>1 DEF S
  <2>7. /\ w[i] = IF IsDelimiterIn(t, i) THEN ~v[i - 1] ELSE v[i - 1]
        /\ v[i - 1] \in BOOLEAN
    BY <2>1, <2>2, <2>3, <2>6
  <2>8. OpensAt(t, i) = v[i - 1] /\ OpensAt(t, i + 1) = w[i]
    BY <2>1 DEF OpensAt, v, w
  <2> QED
    BY <2>7, <2>8
<1> QED
  BY <1>1, <1>2

(* Texts that begin alike are read alike as far as they do.                *)
LEMMA SameBeginning ==
  ASSUME NEW a, NEW b, NEW n \in Nat, \A i \in 1..n : a[i] = b[i]
  PROVE  /\ \A i \in 1..(n + 1) :
              (IsEscapedIn(a, i) <=> IsEscapedIn(b, i)) /\ (OpensAt(a, i) <=> OpensAt(b, i))
         /\ \A i \in 1..n :
              /\ IsDelimiterIn(a, i) <=> IsDelimiterIn(b, i)
              /\ IsInsideIn(a, i) <=> IsInsideIn(b, i)
<1> DEFINE Alike(i) == (IsEscapedIn(a, i) <=> IsEscapedIn(b, i)) /\ (OpensAt(a, i) <=> OpensAt(b, i))
           S == {i \in Nat : i \in 1..(n + 1) => Alike(i)}
<1>1. ASSUME NEW i \in 1..n, Alike(i)
      PROVE  /\ IsDelimiterIn(a, i) <=> IsDelimiterIn(b, i)
             /\ IsInsideIn(a, i) <=> IsInsideIn(b, i)
  <2>1. IsDelimiterIn(a, i) <=> IsDelimiterIn(b, i)
    BY <1>1 DEF IsDelimiterIn
  <2> QED
    BY <1>1, <2>1 DEF IsInsideIn
<1>2. Alike(1)
  BY EscapeGoesOn, OpenGoesOn
<1>3. ASSUME NEW i \in Nat, i \in S PROVE i + 1 \in S
  <2>1. SUFFICES ASSUME i + 1 \in 1..(n + 1) PROVE Alike(i + 1)
    OBVIOUS
  <2>2. CASE i = 0
    BY <1>2, <2>2
  <2>3. CASE i # 0
    <3>1. i \in Nat \ {0} /\ i \in 1..n /\ i \in 1..(n + 1)
      BY <2>1, <2>3
    <3>2. Alike(i)
      BY <1>3, <3>1
    <3>3. a[i] = b[i] /\ (IsDelimiterIn(a, i) <=> IsDelimiterIn(b, i))
      BY <1>1, <3>1, <3>2
    <3>4. /\ IsEscapedIn(a, i + 1) <=> a[i] = "backslash" /\ ~IsEscapedIn(a, i)
          /\ IsEscapedIn(b, i + 1) <=> b[i] = "backslash" /\ ~IsEscapedIn(b, i)
      BY <3>1, EscapeGoesOn
    <3>5. /\ OpensAt(a, i + 1) <=> (IsDelimiterIn(a, i) <=> ~OpensAt(a, i))
          /\ OpensAt(b, i + 1) <=> (IsDelimiterIn(b, i) <=> ~OpensAt(b, i))
      BY <3>1, OpenGoesOn
    <3> QED
      BY <3>2, <3>3, <3>4, <3>5
  <2> QED
    BY <2>2, <2>3
<1>4. \A i \in 1..(n + 1) : Alike(i)
  <2> HIDE DEF S, Alike
  <2>1. 0 \in S
    BY DEF S
  <2>2. Nat \subseteq S
    BY <1>3, <2>1, NatSetInduction
  <2> QED
    BY <2>2 DEF S
<1>5. \A i \in 1..n : i \in 1..(n + 1)
  OBVIOUS
<1> QED
  BY <1>1, <1>4, <1>5

-----------------------------------------------------------------------------
(* The scan *)

(* The other judgements of JsonStrings, for any text.                      *)
BackslashOut(t) == \E i \in DOMAIN t : t[i] = "backslash" /\ ~IsInsideIn(t, i)

ReplacedIn(t, i) ==
  \/ t[i] = "byte" /\ IsInsideIn(t, i)
  \/ IsHalfIn(t, i, "high") /\ ~IsHalfIn(t, i + 2, "low")
  \/ IsHalfIn(t, i, "low") /\ ~IsHalfIn(t, i - 2, "high")

MalformedIn(t, i) ==
  /\ IsInsideIn(t, i)
  /\ \/ t[i] = "control"
     \/ IsEscapedIn(t, i) /\ t[i] \in {"character", "rune", "byte", "u"}

(* Chunk i is replaced or malformed, and will be whatever comes behind t:  *)
(* behind a first half there already is something else.                    *)
IsFollowed(t, i) ==
  \/ i + 1 \in DOMAIN t /\ t[i + 1] # "backslash"
  \/ i + 2 \in DOMAIN t /\ t[i + 2] # "low"

IsSpoiltAt(t, i) ==
  \/ t[i] = "byte" /\ IsInsideIn(t, i)
  \/ IsHalfIn(t, i, "high") /\ IsFollowed(t, i)
  \/ IsHalfIn(t, i, "low") /\ ~IsHalfIn(t, i - 2, "high")
  \/ MalformedIn(t, i)

IsSpoilt(t) == \E i \in DOMAIN t : IsSpoiltAt(t, i)

(* What the scan knows when it has read t and stands at m.                 *)
Scanned(t, m) ==
  LET n == Len(t) IN
  /\ OpensAt(t, n + 1) <=> m # "outside"
  /\ IsEscapedIn(t, n + 1) <=> m \in {"escape", "highEscape"}
  /\ m = "high" => IsHalfIn(t, n, "high")
  /\ m = "highEscape" => IsHalfIn(t, n - 1, "high")
  /\ \A i \in 1..n : IsHalfIn(t, i, "high") =>
       \/ IsHalfIn(t, i + 2, "low")
       \/ m = "high" /\ i = n
       \/ m = "highEscape" /\ i = n - 1
  /\ \A i \in 1..n : IsHalfIn(t, i, "low") => IsHalfIn(t, i - 2, "high")
  /\ \A i \in 1..n : t[i] = "byte" => ~IsInsideIn(t, i)

(* What one chunk more changes.                                            *)
GrowsBy(a, n, c, b) ==
  /\ n \in Nat /\ DOMAIN a = 1..n /\ DOMAIN b = 1..(n + 1)
  /\ b[n + 1] = c /\ \A i \in 1..n : b[i] = a[i]
  /\ IsEscapedIn(b, n + 1) <=> IsEscapedIn(a, n + 1)
  /\ IsEscapedIn(b, n + 2) <=> c = "backslash" /\ ~IsEscapedIn(a, n + 1)
  /\ IsInsideIn(b, n + 1)
       <=> OpensAt(a, n + 1) /\ ~(c = "quote" /\ ~IsEscapedIn(a, n + 1))
  /\ OpensAt(b, n + 2)
       <=> ((c = "quote" /\ ~IsEscapedIn(a, n + 1)) <=> ~OpensAt(a, n + 1))
  /\ \A i \in 1..n : IsInsideIn(b, i) <=> IsInsideIn(a, i)
  /\ \A i \in 1..n : \A k : IsHalfIn(b, i, k) <=> IsHalfIn(a, i, k)
  /\ \A k \in {"high", "low"} :
       IsHalfIn(b, n + 1, k) <=> c = k /\ IsEscapedIn(a, n + 1) /\ OpensAt(a, n + 1)
  /\ \A i : i \notin 1..n => \A k : ~IsHalfIn(a, i, k)
  /\ \A i : i \notin 1..(n + 1) => \A k : ~IsHalfIn(b, i, k)

LEMMA OneChunkMore ==
  ASSUME NEW a \in Seq(Strings!Chunk), NEW c \in Strings!Chunk
  PROVE  GrowsBy(a, Len(a), c, Append(a, c))
<1> DEFINE n == Len(a)
           b == Append(a, c)
<1>1. /\ n \in Nat /\ DOMAIN a = 1..n /\ DOMAIN b = 1..(n + 1)
      /\ b[n + 1] = c /\ \A i \in 1..n : b[i] = a[i]
  OBVIOUS
<1> HIDE DEF n, b
<1>2. \A i \in 1..n : a[i] = b[i]
  BY <1>1
<1>3. /\ \A i \in 1..(n + 1) :
           (IsEscapedIn(a, i) <=> IsEscapedIn(b, i)) /\ (OpensAt(a, i) <=> OpensAt(b, i))
      /\ \A i \in 1..n :
           /\ IsDelimiterIn(a, i) <=> IsDelimiterIn(b, i)
           /\ IsInsideIn(a, i) <=> IsInsideIn(b, i)
  BY <1>1, <1>2, SameBeginning
<1>4. n + 1 \in 1..(n + 1) /\ n + 1 \in Nat \ {0} /\ (n + 1) + 1 = n + 2
  BY <1>1
<1>5. /\ IsEscapedIn(b, n + 1) <=> IsEscapedIn(a, n + 1)
      /\ OpensAt(b, n + 1) <=> OpensAt(a, n + 1)
  BY <1>3, <1>4
<1>6. IsDelimiterIn(b, n + 1) <=> c = "quote" /\ ~IsEscapedIn(a, n + 1)
  BY <1>1, <1>5 DEF IsDelimiterIn
<1>7. IsInsideIn(b, n + 1)
        <=> OpensAt(a, n + 1) /\ ~(c = "quote" /\ ~IsEscapedIn(a, n + 1))
  BY <1>5, <1>6 DEF IsInsideIn
<1>8. IsEscapedIn(b, n + 2) <=> c = "backslash" /\ ~IsEscapedIn(a, n + 1)
  <2>1. IsEscapedIn(b, (n + 1) + 1) <=> b[n + 1] = "backslash" /\ ~IsEscapedIn(b, n + 1)
    BY <1>4, EscapeGoesOn
  <2> QED
    BY <1>1, <1>4, <1>5, <2>1
<1>9. OpensAt(b, n + 2)
        <=> ((c = "quote" /\ ~IsEscapedIn(a, n + 1)) <=> ~OpensAt(a, n + 1))
  <2>1. OpensAt(b, (n + 1) + 1) <=> (IsDelimiterIn(b, n + 1) <=> ~OpensAt(b, n + 1))
    BY <1>4, OpenGoesOn
  <2> QED
    BY <1>4, <1>5, <1>6, <2>1
<1>10. \A i \in 1..n : \A k : IsHalfIn(b, i, k) <=> IsHalfIn(a, i, k)
  <2>1. \A i \in 1..n : i \in 1..(n + 1)
    BY <1>1
  <2> QED
    BY <1>1, <1>3, <2>1 DEF IsHalfIn
<1>11. \A k \in {"high", "low"} :
         IsHalfIn(b, n + 1, k) <=> c = k /\ IsEscapedIn(a, n + 1) /\ OpensAt(a, n + 1)
  BY <1>1, <1>4, <1>5, <1>7 DEF IsHalfIn
<1>12. /\ \A i : i \notin 1..n => \A k : ~IsHalfIn(a, i, k)
       /\ \A i : i \notin 1..(n + 1) => \A k : ~IsHalfIn(b, i, k)
  BY <1>1 DEF IsHalfIn
<1>13. GrowsBy(a, n, c, b)
  BY <1>1, <1>3, <1>5, <1>7, <1>8, <1>9, <1>10, <1>11, <1>12 DEF GrowsBy
<1> QED
  BY <1>13 DEF n, b

(* What is spoilt is replaced or malformed, and stays so.                  *)
LEMMA SpoiltIsBroken ==
  ASSUME NEW t, NEW i \in Nat \ {0}, IsSpoiltAt(t, i)
  PROVE  ReplacedIn(t, i) \/ MalformedIn(t, i)
<1>1. ASSUME IsFollowed(t, i) PROVE ~IsHalfIn(t, i + 2, "low")
  <2>1. i + 1 \in Nat \ {0} /\ (i + 1) + 1 = i + 2
    OBVIOUS
  <2>2. IsEscapedIn(t, i + 2) => t[i + 1] = "backslash"
    BY <2>1, EscapeGoesOn
  <2> QED
    BY <1>1, <2>2 DEF IsFollowed, IsHalfIn
<1> QED
  BY <1>1 DEF IsSpoiltAt, ReplacedIn

LEMMA StaysSpoilt ==
  ASSUME NEW a \in Seq(Strings!Chunk), NEW c \in Strings!Chunk, IsSpoilt(a)
  PROVE  IsSpoilt(Append(a, c))
<1> DEFINE n == Len(a)
           b == Append(a, c)
<1>1. GrowsBy(a, n, c, b)
  BY OneChunkMore
<1>2. n \in Nat /\ DOMAIN a = 1..n /\ DOMAIN b = 1..(n + 1)
  BY <1>1 DEF GrowsBy
<1> HIDE DEF n, b
<1>3. PICK i \in 1..n : IsSpoiltAt(a, i)
  BY <1>2 DEF IsSpoilt
<1>4. /\ i \in 1..(n + 1) /\ a[i] = b[i]
      /\ IsInsideIn(a, i) <=> IsInsideIn(b, i)
      /\ \A k : IsHalfIn(a, i, k) <=> IsHalfIn(b, i, k)
  BY <1>1, <1>2, <1>3 DEF GrowsBy
<1>5. IsEscapedIn(a, i) <=> IsEscapedIn(b, i)
  <2>1. \A j \in 1..n : a[j] = b[j]
    BY <1>1 DEF GrowsBy
  <2> QED
    BY <1>2, <1>4, <2>1, SameBeginning
<1>6. IsFollowed(a, i) => IsFollowed(b, i)
  <2>1. \A j \in DOMAIN a : j \in DOMAIN b /\ a[j] = b[j]
    BY <1>1, <1>2 DEF GrowsBy
  <2> QED
    BY <2>1 DEF IsFollowed
<1>7. IsHalfIn(a, i - 2, "high") <=> IsHalfIn(b, i - 2, "high")
  <2>1. i - 2 \in 1..n \/ i - 2 \notin 1..(n + 1)
    BY <1>2, <1>3
  <2>2. i - 2 \notin 1..(n + 1) => i - 2 \notin 1..n
    BY <1>2
  <2> QED
    BY <1>1, <2>1, <2>2 DEF GrowsBy
<1>8. IsSpoiltAt(b, i)
  BY <1>3, <1>4, <1>5, <1>6, <1>7 DEF IsSpoiltAt, MalformedIn
<1> QED
  BY <1>2, <1>4, <1>8 DEF IsSpoilt, b

(* The scan of one chunk more.                                             *)
LEMMA ScanGoesOn ==
  ASSUME NEW a \in Seq(Strings!Chunk), NEW c \in Strings!Chunk, NEW m \in Strings!Mode,
         Scanned(a, m), ~BackslashOut(Append(a, c))
  PROVE  LET v == Strings!ValidateJSONStrings(m, c) IN
         /\ v # Strings!Refused => Scanned(Append(a, c), v)
         /\ v = Strings!Refused => IsSpoilt(Append(a, c))
<1> DEFINE n == Len(a)
           b == Append(a, c)
           v == Strings!ValidateJSONStrings(m, c)
<1>1. GrowsBy(a, n, c, b) /\ Len(b) = n + 1
  BY OneChunkMore
<1>2. n \in Nat /\ (n + 1) + 1 = n + 2 /\ n + 1 \in 1..(n + 1)
  OBVIOUS
<1>3. c = "backslash" => m # "outside"
  BY <1>1, <1>2 DEF BackslashOut, GrowsBy, Scanned
<1>4. /\ OpensAt(a, n + 1) <=> m # "outside"
      /\ IsEscapedIn(a, n + 1) <=> m \in {"escape", "highEscape"}
      /\ m = "high" => IsHalfIn(a, n, "high")
      /\ m = "highEscape" => IsHalfIn(a, n - 1, "high")
      /\ \A i \in 1..n : IsHalfIn(a, i, "high") =>
           \/ IsHalfIn(a, i + 2, "low")
           \/ m = "high" /\ i = n
           \/ m = "highEscape" /\ i = n - 1
      /\ \A i \in 1..n : IsHalfIn(a, i, "low") => IsHalfIn(a, i - 2, "high")
      /\ \A i \in 1..n : a[i] = "byte" => ~IsInsideIn(a, i)
  BY DEF Scanned
<1> HIDE DEF n, b, v
<1>5. m \in {"outside", "string", "escape", "high", "highEscape"}
  BY DEF Strings!Mode
<1>6. /\ m = "outside" => v = IF c = "quote" THEN "string" ELSE "outside"
      /\ m = "string" => v = CASE c = "quote" -> "outside"
                             [] c = "backslash" -> "escape"
                             [] c \in {"control", "byte"} -> "refused"
                             [] OTHER -> "string"
      /\ m = "escape" => v = CASE c \in {"quote", "backslash", "letter", "unit"} -> "string"
                             [] c = "high" -> "high"
                             [] OTHER -> "refused"
      /\ m = "high" => v = IF c = "backslash" THEN "highEscape" ELSE "refused"
      /\ m = "highEscape" => v = IF c = "low" THEN "string" ELSE "refused"
  BY <1>5 DEF v, Strings!ValidateJSONStrings, Strings!Outside, Strings!InString,
     Strings!AfterBackslash, Strings!AfterHigh, Strings!Refused
<1>7. c \in {"quote", "backslash", "letter", "high", "low", "unit", "u", "character",
            "control", "rune", "byte"}
  BY DEF Strings!Chunk
<1>8. \A i \in 1..(n + 1) : i \in 1..n \/ i = n + 1
  BY <1>2
<1>9. /\ m = "high" => IsHalfIn(b, n, "high") /\ n \in 1..n
      /\ m = "highEscape" => IsHalfIn(b, n - 1, "high") /\ n - 1 \in 1..n
  BY <1>1, <1>2, <1>4 DEF GrowsBy
<1>10. ASSUME v # Strings!Refused PROVE Scanned(b, v)
  <2>1. v # "refused"
    BY <1>10 DEF Strings!Refused
  <2>2. /\ OpensAt(b, n + 2) <=> v # "outside"
        /\ IsEscapedIn(b, n + 2) <=> v \in {"escape", "highEscape"}
    BY <1>1, <1>3, <1>4, <1>5, <1>6, <1>7, <2>1 DEF GrowsBy
  <2>3. v = "high" => IsHalfIn(b, n + 1, "high")
    BY <1>1, <1>4, <1>5, <1>6, <1>7 DEF GrowsBy
  <2>4. v = "highEscape" => IsHalfIn(b, n, "high")
    BY <1>5, <1>6, <1>7, <1>9
  <2>5. ASSUME NEW i \in 1..(n + 1), IsHalfIn(b, i, "high")
        PROVE  \/ IsHalfIn(b, i + 2, "low")
               \/ v = "high" /\ i = n + 1
               \/ v = "highEscape" /\ i = n
    <3>1. CASE i = n + 1
      <4>1. c = "high" /\ m \in {"escape", "highEscape"}
        BY <1>1, <1>4, <2>5, <3>1 DEF GrowsBy
      <4> QED
        BY <1>6, <2>1, <3>1, <4>1
    <3>2. CASE i \in 1..n
      <4>1. IsHalfIn(a, i, "high")
        BY <1>1, <2>5, <3>2 DEF GrowsBy
      <4>2. CASE IsHalfIn(a, i + 2, "low")
        BY <1>1, <4>2 DEF GrowsBy
      <4>3. CASE m = "high" /\ i = n
        BY <1>6, <2>1, <4>3
      <4>4. CASE m = "highEscape" /\ i = n - 1
        <5>1. c = "low" /\ i + 2 = n + 1
          BY <1>2, <1>6, <2>1, <4>4
        <5> QED
          BY <1>1, <1>4, <4>4, <5>1 DEF GrowsBy
      <4> QED
        BY <1>4, <3>2, <4>1, <4>2, <4>3, <4>4
    <3> QED
      BY <1>8, <3>1, <3>2
  <2>6. ASSUME NEW i \in 1..(n + 1), IsHalfIn(b, i, "low")
        PROVE  IsHalfIn(b, i - 2, "high")
    <3>1. CASE i = n + 1
      <4>1. c = "low" /\ m \in {"escape", "highEscape"}
        BY <1>1, <1>4, <2>6, <3>1 DEF GrowsBy
      <4>2. m = "highEscape"
        BY <1>6, <2>1, <4>1
      <4>3. i - 2 = n - 1
        BY <1>2, <3>1
      <4> QED
        BY <1>9, <4>2, <4>3
    <3>2. CASE i \in 1..n
      <4>1. IsHalfIn(a, i - 2, "high")
        BY <1>1, <1>4, <2>6, <3>2 DEF GrowsBy
      <4> QED
        BY <1>1, <4>1 DEF GrowsBy
    <3> QED
      BY <1>8, <3>1, <3>2
  <2>7. ASSUME NEW i \in 1..(n + 1), b[i] = "byte" PROVE ~IsInsideIn(b, i)
    <3>1. CASE i = n + 1
      <4>1. c = "byte"
        BY <1>1, <2>7, <3>1 DEF GrowsBy
      <4>2. m = "outside"
        BY <1>5, <1>6, <2>1, <4>1
      <4> QED
        BY <1>1, <1>4, <3>1, <4>2 DEF GrowsBy
    <3>2. CASE i \in 1..n
      BY <1>1, <1>4, <2>7, <3>2 DEF GrowsBy
    <3> QED
      BY <1>8, <3>1, <3>2
  <2>8. n + 1 - 1 = n
    BY <1>2
  <2> QED
    BY <1>1, <1>2, <2>2, <2>3, <2>4, <2>5, <2>6, <2>7, <2>8 DEF Scanned
<1>11. ASSUME v = Strings!Refused PROVE IsSpoilt(b)
  <2>1. v = "refused" /\ DOMAIN b = 1..(n + 1)
    BY <1>1, <1>11 DEF Strings!Refused, GrowsBy
  <2>2. CASE m = "outside"
    BY <1>6, <2>1, <2>2
  <2>3. CASE m = "string"
    <3>1. c \in {"control", "byte"}
      BY <1>6, <2>1, <2>3
    <3>2. IsInsideIn(b, n + 1) /\ b[n + 1] = c
      BY <1>1, <1>4, <2>3, <3>1 DEF GrowsBy
    <3> QED
      BY <1>2, <2>1, <3>1, <3>2 DEF IsSpoilt, IsSpoiltAt, MalformedIn
  <2>4. CASE m = "escape"
    <3>1. c \in {"low", "u", "character", "control", "rune", "byte"}
      BY <1>6, <1>7, <2>1, <2>4
    <3>2. IsInsideIn(b, n + 1) /\ IsEscapedIn(b, n + 1) /\ b[n + 1] = c
      BY <1>1, <1>4, <2>4, <3>1 DEF GrowsBy
    <3>3. CASE c # "low"
      BY <1>2, <2>1, <3>1, <3>2, <3>3 DEF IsSpoilt, IsSpoiltAt, MalformedIn
    <3>4. CASE c = "low"
      <4>1. IsHalfIn(b, n + 1, "low")
        BY <1>1, <1>4, <2>4, <3>4 DEF GrowsBy
      <4>2. ~IsHalfIn(b, n - 1, "high")
        <5>1. SUFFICES ASSUME IsHalfIn(b, n - 1, "high") PROVE FALSE
          OBVIOUS
        <5>2. n - 1 \in 1..(n + 1)
          BY <1>1, <5>1 DEF GrowsBy
        <5>3. n - 1 \in 1..n /\ (n - 1) + 2 = n + 1 /\ n + 1 \notin 1..n
          BY <1>2, <5>2
        <5>4. IsHalfIn(a, n - 1, "high") /\ ~IsHalfIn(a, n + 1, "low")
          BY <1>1, <5>1, <5>3 DEF GrowsBy
        <5> QED
          BY <1>4, <2>4, <5>3, <5>4
      <4>3. (n + 1) - 2 = n - 1
        BY <1>2
      <4> QED
        BY <1>2, <2>1, <4>1, <4>2, <4>3 DEF IsSpoilt, IsSpoiltAt
    <3> QED
      BY <3>3, <3>4
  <2>5. CASE m = "high"
    <3>1. n \in 1..(n + 1) /\ c # "backslash" /\ b[n + 1] = c
      BY <1>1, <1>2, <1>6, <1>9, <2>1, <2>5 DEF GrowsBy
    <3>2. IsHalfIn(b, n, "high") /\ IsFollowed(b, n)
      BY <1>2, <1>9, <2>1, <2>5, <3>1 DEF IsFollowed
    <3> QED
      BY <2>1, <3>1, <3>2 DEF IsSpoilt, IsSpoiltAt
  <2>6. CASE m = "highEscape"
    <3>1. /\ c # "low" /\ n - 1 \in 1..(n + 1) /\ (n - 1) + 2 = n + 1
          /\ b[n + 1] = c
      BY <1>1, <1>2, <1>6, <1>9, <2>1, <2>6 DEF GrowsBy
    <3>2. IsHalfIn(b, n - 1, "high") /\ IsFollowed(b, n - 1)
      BY <1>2, <1>9, <2>1, <2>6, <3>1 DEF IsFollowed
    <3> QED
      BY <2>1, <3>1, <3>2 DEF IsSpoilt, IsSpoiltAt
  <2> QED
    BY <1>5, <2>2, <2>3, <2>4, <2>5, <2>6
<1> QED
  BY <1>10, <1>11 DEF b, v

(* A text that ends inside of a string has an odd number of delimiters.    *)
DelimitersIn(t, k) == {i \in 1..k : IsDelimiterIn(t, i)}

LEMMA OddDelimiters ==
  ASSUME NEW t, NEW n \in Nat
  PROVE  Cardinality(DelimitersIn(t, n)) % 2 = 1 <=> OpensAt(t, n + 1)
<1> DEFINE D(k) == DelimitersIn(t, k)
           S == {k \in Nat : /\ IsFiniteSet(D(k)) /\ Cardinality(D(k)) \in Nat
                             /\ Cardinality(D(k)) % 2 = 1 <=> OpensAt(t, k + 1)}
<1>1. 0 \in S
  <2>1. D(0) = {}
    BY DEF DelimitersIn
  <2>2. ~OpensAt(t, 0 + 1)
    BY OpenGoesOn
  <2>3. IsFiniteSet({}) /\ Cardinality({}) = 0 /\ 0 % 2 # 1
    BY FS_EmptySet
  <2> HIDE DEF D
  <2> QED
    BY <2>1, <2>2, <2>3
<1>2. ASSUME NEW k \in Nat, k \in S PROVE k + 1 \in S
  <2>1. k + 1 \in Nat \ {0} /\ k + 1 \notin 1..k
    OBVIOUS
  <2>2. OpensAt(t, (k + 1) + 1) <=> (IsDelimiterIn(t, k + 1) <=> ~OpensAt(t, k + 1))
    BY <2>1, OpenGoesOn
  <2>3. CASE IsDelimiterIn(t, k + 1)
    <3>1. D(k + 1) = D(k) \cup {k + 1} /\ k + 1 \notin D(k)
      BY <2>3 DEF DelimitersIn
    <3> HIDE DEF D
    <3>2. IsFiniteSet(D(k)) /\ Cardinality(D(k)) \in Nat
      BY <1>2
    <3>3. IsFiniteSet(D(k) \cup {k + 1})
          /\ Cardinality(D(k) \cup {k + 1}) = Cardinality(D(k)) + 1
      BY <3>1, <3>2, FS_AddElement
    <3>4. \A m \in Nat : (m + 1) % 2 = 1 <=> m % 2 # 1
      OBVIOUS
    <3>5. IsFiniteSet(D(k + 1)) /\ Cardinality(D(k + 1)) = Cardinality(D(k)) + 1
      BY <3>1, <3>3
    <3>6. Cardinality(D(k + 1)) % 2 = 1 <=> Cardinality(D(k)) % 2 # 1
      BY <3>2, <3>4, <3>5
    <3>7. Cardinality(D(k)) % 2 = 1 <=> OpensAt(t, k + 1)
      BY <1>2
    <3>8. Cardinality(D(k + 1)) % 2 = 1 <=> OpensAt(t, (k + 1) + 1)
      BY <2>2, <2>3, <3>6, <3>7
    <3>9. Cardinality(D(k + 1)) \in Nat
      BY <3>2, <3>5
    <3> QED
      BY <2>1, <3>5, <3>8, <3>9
  <2>4. CASE ~IsDelimiterIn(t, k + 1)
    <3>1. D(k + 1) = D(k)
      BY <2>4 DEF DelimitersIn
    <3> HIDE DEF D
    <3> QED
      BY <1>2, <2>1, <2>2, <2>4, <3>1
  <2> QED
    BY <2>3, <2>4
<1> HIDE DEF D, S
<1>3. n \in S
  BY <1>1, <1>2, NatSetInduction
<1> QED
  BY <1>3 DEF S, D

-----------------------------------------------------------------------------
(* The inductive invariant. *)
ScanInvIn(t, m) ==
  /\ t \in Seq(Strings!Chunk)
  /\ m \in Strings!Mode \cup {"accepted", Strings!Refused, Strings!Unfinished}
  /\ m \in {"escape", "highEscape"} => t[Len(t)] = "backslash"
  /\ m = "high" => t[Len(t)] = "high"
  /\ ~BackslashOut(t) =>
       /\ m \in Strings!Mode => Scanned(t, m)
       /\ m = "accepted" => ~\E i \in DOMAIN t : ReplacedIn(t, i)
       /\ m = Strings!Refused => IsSpoilt(t)
       /\ m = Strings!Unfinished => OpensAt(t, Len(t) + 1)

ScanInv == ScanInvIn(chunks, mode)

LEMMA ChunkIsRead ==
  ASSUME NEW t, NEW m \in Strings!Mode, ScanInvIn(t, m), NEW c \in Strings!Chunk
  PROVE  ScanInvIn(Append(t, c), Strings!ValidateJSONStrings(m, c))
<1> DEFINE b == Append(t, c)
           v == Strings!ValidateJSONStrings(m, c)
<1>1. t \in Seq(Strings!Chunk) /\ b \in Seq(Strings!Chunk)
  BY DEF ScanInvIn
<1>2. GrowsBy(t, Len(t), c, b)
  BY <1>1, OneChunkMore
<1>3. b[Len(b)] = c
  BY <1>1
<1>4. /\ v \in {"outside", "string", "escape", "high", "highEscape", "refused"}
      /\ v \in {"escape", "highEscape"} => c = "backslash"
      /\ v = "high" => c = "high"
  BY DEF Strings!Mode, Strings!Chunk, Strings!ValidateJSONStrings, Strings!Outside,
     Strings!InString, Strings!AfterBackslash, Strings!AfterHigh, Strings!Refused
<1>5. ASSUME ~BackslashOut(b)
      PROVE  /\ v \in Strings!Mode => Scanned(b, v)
             /\ v = Strings!Refused => IsSpoilt(b)
  <2>1. ~BackslashOut(t)
    <3> HIDE DEF b
    <3>1. \A i \in 1..Len(t) : i \in 1..(Len(t) + 1)
      BY <1>2 DEF GrowsBy
    <3> QED
      BY <1>2, <1>5, <3>1 DEF BackslashOut, GrowsBy
  <2>2. Scanned(t, m)
    BY <2>1 DEF ScanInvIn
  <2>3. /\ v # Strings!Refused => Scanned(b, v)
        /\ v = Strings!Refused => IsSpoilt(b)
    BY <1>1, <1>5, <2>2, ScanGoesOn
  <2>4. v \in Strings!Mode => v # Strings!Refused
    BY DEF Strings!Mode, Strings!Refused
  <2> QED
    BY <2>3, <2>4
<1> HIDE DEF b, v
<1>6. ScanInvIn(b, v)
  BY <1>1, <1>3, <1>4, <1>5
     DEF ScanInvIn, Strings!Mode, Strings!Refused, Strings!Unfinished
<1> QED
  BY <1>6 DEF b, v

(* Behind a refusal the text goes on.                                      *)
LEMMA RefusalIsFollowed ==
  ASSUME NEW t, ScanInvIn(t, Strings!Refused), NEW c \in Strings!Chunk
  PROVE  ScanInvIn(Append(t, c), Strings!Refused)
<1> DEFINE b == Append(t, c)
<1>1. t \in Seq(Strings!Chunk) /\ b \in Seq(Strings!Chunk)
  BY DEF ScanInvIn
<1>2. GrowsBy(t, Len(t), c, b)
  BY <1>1, OneChunkMore
<1>3. ~BackslashOut(b) => ~BackslashOut(t)
  <2> HIDE DEF b
  <2>1. \A i \in 1..Len(t) : i \in 1..(Len(t) + 1)
    BY <1>2 DEF GrowsBy
  <2> QED
    BY <1>2, <2>1 DEF BackslashOut, GrowsBy
<1>4. IsSpoilt(t) => IsSpoilt(b)
  BY <1>1, StaysSpoilt
<1> HIDE DEF b
<1>5. ScanInvIn(b, Strings!Refused)
  BY <1>1, <1>3, <1>4
     DEF ScanInvIn, Strings!Mode, Strings!Refused, Strings!Unfinished
<1> QED
  BY <1>5 DEF b

LEMMA ScanEnds ==
  ASSUME NEW t, NEW m \in Strings!Mode, ScanInvIn(t, m)
  PROVE  ScanInvIn(t, IF m = "outside" THEN "accepted" ELSE Strings!Unfinished)
<1>1. t \in Seq(Strings!Chunk)
  BY DEF ScanInvIn
<1>2. DOMAIN t = 1..Len(t) /\ Len(t) \in Nat
  BY <1>1
<1>3. ASSUME ~BackslashOut(t)
      PROVE  /\ m = "outside" => ~\E i \in DOMAIN t : ReplacedIn(t, i)
             /\ m # "outside" => OpensAt(t, Len(t) + 1)
  <2>1. Scanned(t, m)
    BY <1>3 DEF ScanInvIn
  <2> QED
    BY <1>2, <2>1 DEF Scanned, ReplacedIn, IsHalfIn
<1> QED
  BY <1>1, <1>3 DEF ScanInvIn, Strings!Mode, Strings!Refused, Strings!Unfinished

LEMMA ScanInvHolds == Strings!Spec => []ScanInv
<1>1. Strings!Init => ScanInv
  <2>1. SUFFICES ASSUME Strings!Init PROVE ScanInvIn(<<>>, "outside")
    BY DEF Strings!Init, ScanInv
  <2>2. Len(<<>>) = 0 /\ <<>> \in Seq(Strings!Chunk) /\ 0 + 1 = 1
    OBVIOUS
  <2>3. Scanned(<<>>, "outside")
    BY <2>2, EscapeGoesOn, OpenGoesOn DEF Scanned
  <2> QED
    BY <2>2, <2>3 DEF ScanInvIn, Strings!Mode, Strings!Refused, Strings!Unfinished
<1>2. ASSUME ScanInv, [Strings!Next]_(Strings!vars) PROVE ScanInv'
  <2>1. CASE Strings!Read
    <3>1. PICK c \in Strings!Chunk :
            /\ chunks' = Append(chunks, c)
            /\ mode' = Strings!ValidateJSONStrings(mode, c)
      BY <2>1 DEF Strings!Read
    <3>2. mode \in Strings!Mode
      BY <2>1 DEF Strings!Read
    <3>3. ScanInvIn(Append(chunks, c), Strings!ValidateJSONStrings(mode, c))
      BY <1>2, <3>2, ChunkIsRead DEF ScanInv
    <3>4. ScanInv' <=> ScanInvIn(chunks', mode')
      BY DEF ScanInv
    <3> QED
      BY <3>1, <3>3, <3>4
  <2>2. CASE Strings!End
    <3>1. ScanInvIn(chunks, IF mode = "outside" THEN "accepted" ELSE Strings!Unfinished)
      BY <1>2, <2>2, ScanEnds DEF ScanInv, Strings!End
    <3>2. ScanInv' <=> ScanInvIn(chunks', mode')
      BY DEF ScanInv
    <3> QED
      BY <2>2, <3>1, <3>2 DEF Strings!End
  <2>3. CASE Strings!FollowRefusal
    <3>1. /\ mode = Strings!Refused /\ mode' = mode
          /\ \E c \in Strings!Chunk : chunks' = Append(chunks, c)
      BY <2>3 DEF Strings!FollowRefusal
    <3>2. \A c \in Strings!Chunk : ScanInvIn(Append(chunks, c), mode)
      BY <1>2, <3>1, RefusalIsFollowed DEF ScanInv
    <3>3. ScanInv' <=> ScanInvIn(chunks', mode')
      BY DEF ScanInv
    <3> QED
      BY <3>1, <3>2, <3>3
  <2>4. CASE UNCHANGED Strings!vars
    BY <1>2, <2>4 DEF ScanInv, Strings!vars
  <2> QED
    BY <1>2, <2>1, <2>2, <2>3, <2>4 DEF Strings!Next
<1> QED
  BY <1>1, <1>2, PTL DEF Strings!Spec

-----------------------------------------------------------------------------
(* The text ends with what the scan remembers.                             *)
LEMMA ScanTypes == Strings!Spec => []Strings!TypeOK
<1>1. ScanInv => Strings!TypeOK
  BY DEF ScanInv, ScanInvIn, Strings!TypeOK
<1> QED
  BY <1>1, ScanInvHolds, PTL

(* A text that the scan lets pass is read without replacement characters,  *)
(* and one that it refuses at a chunk has a chunk that is replaced or      *)
(* malformed, however the text goes on: the scan agrees with the decoder   *)
(* on where strings begin and end (idempotency.go:630, :652, :672).        *)
LEMMA ScanAgrees ==
  Strings!Spec => [](Strings!NothingIsReplaced /\ Strings!OnlyBrokenTextIsRefused)
<1>1. /\ Strings!BackslashOutside <=> BackslashOut(chunks)
      /\ \A i : Strings!IsReplaced(i) <=> ReplacedIn(chunks, i)
      /\ \A i : Strings!IsMalformed(i) <=> MalformedIn(chunks, i)
  BY AnyText DEF Strings!BackslashOutside, BackslashOut, Strings!IsReplaced, ReplacedIn,
     Strings!IsMalformed, MalformedIn
<1>2. ScanInv => Strings!NothingIsReplaced
  BY <1>1 DEF ScanInv, ScanInvIn, Strings!NothingIsReplaced
<1>3. ASSUME ScanInv PROVE Strings!OnlyBrokenTextIsRefused
  <2>1. chunks \in Seq(Strings!Chunk)
    BY <1>3 DEF ScanInv, ScanInvIn
  <2>2. DOMAIN chunks = 1..Len(chunks) /\ Len(chunks) \in Nat
    BY <2>1
  <2>3. {i \in DOMAIN chunks : Strings!IsDelimiter(i)} = DelimitersIn(chunks, Len(chunks))
    BY <2>2, AnyText DEF DelimitersIn
  <2>4. Strings!Cardinality({i \in DOMAIN chunks : Strings!IsDelimiter(i)}) % 2 = 1
          <=> OpensAt(chunks, Len(chunks) + 1)
    <3>1. \A A : Strings!Cardinality(A) = Cardinality(A)
      BY DEF Strings!Cardinality, Cardinality
    <3> QED
      BY <2>2, <2>3, <3>1, OddDelimiters
  <2>5. IsSpoilt(chunks)
          => \E i \in DOMAIN chunks : Strings!IsReplaced(i) \/ Strings!IsMalformed(i)
    BY <1>1, <2>2, SpoiltIsBroken DEF IsSpoilt
  <2> QED
    BY <1>1, <1>3, <2>4, <2>5
       DEF ScanInv, ScanInvIn, Strings!OnlyBrokenTextIsRefused
<1> QED
  BY <1>2, <1>3, ScanInvHolds, PTL
-----------------------------------------------------------------------------
(* RouteBoundary: a context as a peer's message holds it, whoever sent it, *)
(* passed on from node to node.                                            *)

(* Its helpers are CallContext's own.                                      *)
LEMMA SameHelpers ==
  /\ \A ctx : Boundary!ValidateAndAdvanceProductCallContext(ctx)
                = ValidateAndAdvanceProductCallContext(ctx)
  /\ \A ctx, n : /\ Boundary!ValidateAndAdvanceCallContext(ctx, n)
                      = ValidateAndAdvanceCallContext(ctx, n)
                 /\ Boundary!AppendCallNode(ctx, n) = AppendCallNode(ctx, n)
  /\ \A ctx : Boundary!ValidateCallContext(ctx) <=> ValidateCallContext(ctx)
  /\ Boundary!NoContext = NoContext /\ Boundary!Node = Node
<1>1. \A r : Boundary!RouteLength(r) = RouteLength(r)
  BY DEF Boundary!RouteLength, RouteLength, Boundary!NodeLength, NodeLength
<1>2. /\ Boundary!NoContext = NoContext /\ Boundary!Node = Node
      /\ Boundary!MaxCallHop = MaxCallHop /\ Boundary!MaxRouteLength = MaxRouteLength
  BY DEF Boundary!NoContext, NoContext, Boundary!Node, Node, Boundary!MaxCallHop, MaxCallHop,
         Boundary!MaxRouteLength, MaxRouteLength
<1>3. \A r : Boundary!RangeOf(r) = RangeOf(r) /\ Boundary!LastOf(r) = LastOf(r)
  BY DEF Boundary!RangeOf, RangeOf, Boundary!LastOf, LastOf
<1>4. \A r : /\ Boundary!ParseRoute(r) <=> ParseRoute(r)
             /\ Boundary!DetectCycle(r) <=> DetectCycle(r)
  BY <1>2, <1>3 DEF Boundary!ParseRoute, ParseRoute, Boundary!DetectCycle, DetectCycle
<1>5. \A ctx : Boundary!ValidateCallContext(ctx) <=> ValidateCallContext(ctx)
  BY <1>1, <1>2, <1>4 DEF Boundary!ValidateCallContext, ValidateCallContext
<1>6. \A ctx : Boundary!ValidateStrictCallContext(ctx) <=> ValidateStrictCallContext(ctx)
  BY <1>5 DEF Boundary!ValidateStrictCallContext, ValidateStrictCallContext
<1>7. \A ctx, n : Boundary!ValidateCallPath(ctx, n) <=> ValidateCallPath(ctx, n)
  BY <1>2, <1>3, <1>5 DEF Boundary!ValidateCallPath, ValidateCallPath,
     Boundary!AllowedTransition, AllowedTransition
<1>8. \A ctx, n : Boundary!AppendCallNode(ctx, n) = AppendCallNode(ctx, n)
  BY <1>2, <1>3, <1>4, <1>7 DEF Boundary!AppendCallNode, AppendCallNode
<1>9. \A ctx : Boundary!ValidateProductCallPath(ctx) <=> ValidateProductCallPath(ctx)
  BY <1>3, <1>6, <1>7 DEF Boundary!ValidateProductCallPath, ValidateProductCallPath,
     Boundary!ValidatePeerBoundary, ValidatePeerBoundary
<1>10. \A ctx : Boundary!ValidateAndAdvanceProductCallContext(ctx)
                  = ValidateAndAdvanceProductCallContext(ctx)
  BY <1>2, <1>8, <1>9 DEF Boundary!ValidateAndAdvanceProductCallContext,
     ValidateAndAdvanceProductCallContext
<1>11. \A ctx, n : Boundary!ValidateAndAdvanceCallContext(ctx, n)
                     = ValidateAndAdvanceCallContext(ctx, n)
  BY <1>2, <1>7, <1>8 DEF Boundary!ValidateAndAdvanceCallContext, ValidateAndAdvanceCallContext
<1> QED
  BY <1>2, <1>5, <1>8, <1>10, <1>11

Identifier == Uuid \cup Token \cup {Missing}

(* What a message may hold.                                                *)
AnyContext == Contexts(Identifier, Node \cup {Foreign})

WireInv == wire \in AnyContext /\ wire.parentCallID = Missing

LEMMA WireInvHolds == Boundary!Spec => []WireInv
<1>1. ASSUME Boundary!Init PROVE WireInv
  <2>1. PICK route \in Boundary!Received, hop \in -1..(Boundary!MaxCallHop + 1), deadline \in {0, 1},
             chain \in Identifier :
          wire = [chainID |-> chain, rootOperationID |-> chain, parentCallID |-> Missing,
                  hop |-> hop, route |-> route, deadline |-> deadline]
    BY <1>1 DEF Boundary!Init, Identifier
  <2>2. route \in Seq(Node \cup {Foreign})
    <3>1. PICK n \in 0..MaxLength : route \in [1..n -> Boundary!Node \cup {Foreign}]
      BY DEF Boundary!Received
    <3>2. n \in Nat /\ Boundary!Node = Node
      BY SameHelpers
    <3>3. \A N : \A k \in Nat : [1..k -> N] \subseteq Seq(N)
      OBVIOUS
    <3> QED
      BY <3>1, <3>2, <3>3
  <2>3. hop \in Int
    BY DEF Boundary!MaxCallHop
  <2> QED
    BY <2>1, <2>2, <2>3 DEF WireInv, AnyContext, Contexts, Identifier
<1>2. ASSUME WireInv, [Boundary!Next]_wire PROVE WireInv'
  <2>1. CASE UNCHANGED wire
    BY <1>2, <2>1 DEF WireInv, AnyContext
  <2>2. ASSUME NEW n \in Node, AppendCallNode(wire, n) # NoContext,
               wire' = AppendCallNode(wire, n)
        PROVE  WireInv'
    <3>1. wire' = wire \/ wire' = Extended(wire, n)
      BY <2>2 DEF AppendCallNode, Extended
    <3>2. Extended(wire, n) \in AnyContext /\ Extended(wire, n).parentCallID = Missing
      <4>1. \A r \in Seq(Node \cup {Foreign}) : Append(r, n) \in Seq(Node \cup {Foreign})
        BY <2>2
      <4>2. ASSUME NEW Id, NEW N, NEW c \in Contexts(Id, N), Append(c.route, n) \in Seq(N)
            PROVE  /\ Extended(c, n) \in Contexts(Id, N)
                   /\ Extended(c, n).parentCallID = c.parentCallID
        <5> DEFINE r == Append(c.route, n)
                   d == Extended(c, n)
        <5>1. r \in Seq(N) /\ c.hop + 1 \in Int
          BY <4>2 DEF Contexts
        <5>2. d = [c EXCEPT !.hop = c.hop + 1, !.route = r]
          BY DEF Extended
        <5>3. d.parentCallID = c.parentCallID
          BY DEF Contexts, Extended
        <5> HIDE DEF d, r
        <5>4. d \in Contexts(Id, N)
          BY <5>1, <5>2 DEF Contexts
        <5> QED
          BY <5>3, <5>4 DEF d
      <4>3. wire \in AnyContext /\ wire.route \in Seq(Node \cup {Foreign})
        BY <1>2 DEF WireInv, AnyContext, Contexts
      <4> QED
        BY <1>2, <4>1, <4>2, <4>3 DEF WireInv, AnyContext
    <3> QED
      BY <1>2, <3>1, <3>2 DEF WireInv, AnyContext
  <2> QED
    BY <1>2, <2>1, <2>2, SameHelpers DEF Boundary!Next, Boundary!Relay
<1> QED
  BY <1>1, <1>2, PTL DEF Boundary!Spec

(* Both hold of every context that a message can hold, with routes of any  *)
(* length and nodes of any name.                                           *)
LEMMA BoundariesHold ==
  Boundary!Spec
    => [](Boundary!ProductBoundaryIsExact /\ Boundary!AdvanceThenSendIsStable)
<1>1. ASSUME WireInv
      PROVE  Boundary!ProductBoundaryIsExact /\ Boundary!AdvanceThenSendIsStable
  <2>1. wire \in AnyContext /\ wire.parentCallID = Missing
    BY <1>1 DEF WireInv
  <2>2. Strict(wire) <=> Boundary!Sound(wire)
    BY <2>1 DEF Strict, Boundary!Sound
  <2> DEFINE next == ValidateAndAdvanceProductCallContext(wire)
  <2>3. /\ next # NoContext
             <=> Strict(wire) /\ wire.route \in {<<"agent">>, <<"ms", "agent">>}
        /\ next # NoContext =>
             /\ Strict(next)
             /\ next.route \in {<<"agent", "product">>, <<"ms", "agent", "product">>}
    BY <2>1, ProductAcceptsPrivatePaths DEF AnyContext
  <2>4. Strict(next) => Boundary!Sound(next)
    BY DEF Strict, Boundary!Sound
  <2>5. Boundary!ProductBoundaryIsExact
    <3> HIDE DEF next
    <3>1. Boundary!ValidateAndAdvanceProductCallContext(wire) = next
      BY SameHelpers DEF next
    <3> QED
      BY <2>2, <2>3, <2>4, <3>1, SameHelpers DEF Boundary!ProductBoundaryIsExact
  <2>6. \A n \in Node :
          ValidateAndAdvanceCallContext(wire, n) # NoContext =>
            LET ctx == ValidateAndAdvanceCallContext(wire, n) IN
            ValidateCallContext(ctx) /\ AppendCallNode(ctx, n) = ctx
    BY <2>1, AdvancedIsStable DEF AnyContext
  <2>7. Boundary!AdvanceThenSendIsStable
    BY <2>6, SameHelpers DEF Boundary!AdvanceThenSendIsStable
  <2> QED
    BY <2>5, <2>7
<1> QED
  BY <1>1, WireInvHolds, PTL

-----------------------------------------------------------------------------
(* PeerMetadata: the number that a text of digits makes, and the digits    *)
(* that a number is written in                                             *)

Decimal == 0..9

(* Division by ten takes the last digit off. *)
LEMMA LastDigit ==
  ASSUME NEW x \in Nat
  PROVE  /\ \A d \in Decimal : (10 * x + d) \div 10 = x /\ (10 * x + d) % 10 = d
         /\ x \div 10 \in Nat /\ x % 10 \in Decimal
         /\ x = 10 * (x \div 10) + (x % 10)
         /\ x > 0 => x \div 10 < x
         /\ x < 10 => x % 10 = x
         /\ x >= 10 => x \div 10 > 0
<1>1. \A d \in Decimal : (10 * x + d) \div 10 = x
  BY DEF Decimal
<1>2. \A d \in Decimal : (10 * x + d) % 10 = d
  BY DEF Decimal
<1>3. x \div 10 \in Nat
  OBVIOUS
<1>4. x % 10 \in Decimal
  BY DEF Decimal
<1>5. x = 10 * (x \div 10) + (x % 10)
  OBVIOUS
<1>6. x > 0 => x \div 10 < x
  OBVIOUS
<1>7. x < 10 => x % 10 = x
  OBVIOUS
<1>8. x >= 10 => x \div 10 > 0
  OBVIOUS
<1> QED
  BY <1>1, <1>2, <1>3, <1>4, <1>5, <1>6, <1>7, <1>8

(* The numbers that the first digits of a text make.                       *)
IsUpTo(t, f) ==
  f = [i \in 0..Len(t) |-> IF i = 0 THEN 0 ELSE 10 * f[i - 1] + t[i]]

UpTo(t) == CHOOSE f : IsUpTo(t, f)

LEMMA UpToIs ==
  ASSUME NEW t \in Seq(Decimal)
  PROVE  /\ UpTo(t) \in [0..Len(t) -> Nat]
         /\ UpTo(t)[0] = 0
         /\ \A i \in 1..Len(t) : UpTo(t)[i] = 10 * UpTo(t)[i - 1] + t[i]
         /\ Metadata!Digits(t, 10) = UpTo(t)[Len(t)]
<1> DEFINE item(i) == IF i \in 1..Len(t) THEN t[i] ELSE 0
           next(i, s) == 10 * s + item(i)
           step == [p \in Nat \X Nat |-> next(p[1], p[2])]
<1>1. Len(t) \in Nat /\ \A i \in 1..Len(t) : t[i] \in Nat
  BY DEF Decimal
<1>2. \A i, s \in Nat : next(i, s) \in Nat
  <2>1. \A i \in Nat : item(i) \in Nat
    BY <1>1
  <2> HIDE DEF item
  <2> QED
    BY <2>1
<1>3. step \in [Nat \X Nat -> Nat] /\ \A i \in Nat, s \in Nat : step[<<i, s>>] = next(i, s)
  <2> HIDE DEF next
  <2> QED
    BY <1>2
<1>4. PICK f \in [0..Len(t) -> Nat] :
        f[0] = 0 /\ \A i \in 1..Len(t) : f[i] = step[<<i, f[i - 1]>>]
  <2>1. step \in [Nat \X Nat -> Nat]
    BY <1>3
  <2>2. \A n \in Nat : HasValues(Nat, 0, step, n)
    <3> HIDE DEF step
    <3> QED
      BY <2>1, Recursion
  <2>3. HasValues(Nat, 0, step, Len(t))
    BY <1>1, <2>2
  <2> QED
    BY <2>3 DEF HasValues
<1>5. \A i \in 1..Len(t) : f[i] = 10 * f[i - 1] + t[i]
  <2>1. \A i \in 1..Len(t) : f[i - 1] \in Nat /\ i \in Nat
    BY <1>1
  <2>2. \A i \in 1..Len(t) : f[i] = next(i, f[i - 1])
    <3> HIDE DEF step, next
    <3> QED
      BY <1>3, <1>4, <2>1
  <2> HIDE DEF step
  <2> QED
    BY <2>2
<1>6. IsUpTo(t, f)
  <2> DEFINE g == [i \in 0..Len(t) |-> IF i = 0 THEN 0 ELSE 10 * f[i - 1] + t[i]]
  <2>1. ASSUME NEW i \in 0..Len(t) PROVE f[i] = g[i]
    <3>1. i # 0 => i \in 1..Len(t)
      BY <1>1
    <3> HIDE DEF step
    <3> QED
      BY <1>4, <1>5, <3>1
  <2>2. f = g
    <3> HIDE DEF step
    <3> QED
      BY <2>1
  <2> QED
    BY <2>2 DEF IsUpTo
<1>7. IsUpTo(t, UpTo(t))
  BY <1>6 DEF UpTo
<1> HIDE DEF step, next, item
<1> DEFINE u == UpTo(t)
<1>8. /\ DOMAIN u = 0..Len(t)
      /\ \A i \in 0..Len(t) : u[i] = IF i = 0 THEN 0 ELSE 10 * u[i - 1] + t[i]
      /\ u = [i \in 0..Len(t) |-> u[i]]
  <2> HIDE DEF u
  <2>1. IsUpTo(t, u)
    BY <1>7 DEF u
  <2> QED
    BY <2>1 DEF IsUpTo
<1>9. u[0] = 0 /\ \A i \in 1..Len(t) : u[i] = 10 * u[i - 1] + t[i]
  <2> HIDE DEF u
  <2> QED
    BY <1>1, <1>8
<1>10. \A n \in Nat : n \in 0..Len(t) => u[n] \in Nat
  <2> DEFINE S == {n \in Nat : n \in 0..Len(t) => u[n] \in Nat}
  <2>1. 0 \in S
    BY <1>9
  <2>2. ASSUME NEW n \in Nat, n \in S PROVE n + 1 \in S
    <3>1. n + 1 \in 0..Len(t) => n \in 0..Len(t) /\ n + 1 \in 1..Len(t) /\ (n + 1) - 1 = n
      BY <1>1
    <3> HIDE DEF u
    <3>2. n + 1 \in 0..Len(t) => u[n] \in Nat /\ t[n + 1] \in Nat /\ u[n + 1] = 10 * u[n] + t[n + 1]
      BY <1>1, <1>9, <2>2, <3>1
    <3> QED
      BY <3>2
  <2> HIDE DEF S
  <2>3. Nat \subseteq S
    BY <2>1, <2>2, NatSetInduction
  <2> QED
    BY <2>3 DEF S
<1>11. u \in [0..Len(t) -> Nat]
  <2> HIDE DEF u
  <2> QED
    BY <1>1, <1>8, <1>10
<1>12. Metadata!Digits(t, 10) = UpTo(t)[Len(t)]
  BY DEF Metadata!Digits, UpTo, IsUpTo
<1> QED
  BY <1>9, <1>11, <1>12

(* What is left of a number when its last digits are taken off.            *)
IsRest(n, f) == f = [i \in 0..n |-> IF i = 0 THEN n ELSE f[i - 1] \div 10]

Rest(n) == CHOOSE f : IsRest(n, f)

LEMMA RestIs ==
  ASSUME NEW n \in Nat
  PROVE  /\ Rest(n) \in [0..n -> Nat]
         /\ Rest(n)[0] = n
         /\ \A i \in 1..n : Rest(n)[i] = Rest(n)[i - 1] \div 10
<1> DEFINE step == [p \in Nat \X Nat |-> p[2] \div 10]
<1>1. \A x \in Nat : x \div 10 \in Nat
  BY LastDigit
<1>2. step \in [Nat \X Nat -> Nat] /\ \A i, x \in Nat : step[<<i, x>>] = x \div 10
  BY <1>1
<1>3. PICK f \in [0..n -> Nat] :
        f[0] = n /\ \A i \in 1..n : f[i] = step[<<i, f[i - 1]>>]
  <2>1. \A m \in Nat : HasValues(Nat, n, step, m)
    <3> HIDE DEF step
    <3> QED
      BY <1>2, Recursion
  <2> QED
    BY <2>1 DEF HasValues
<1>4. \A i \in 1..n : f[i] = f[i - 1] \div 10
  <2>1. \A i \in 1..n : f[i - 1] \in Nat /\ i \in Nat
    OBVIOUS
  <2> HIDE DEF step
  <2> QED
    BY <1>2, <1>3, <2>1
<1>5. IsRest(n, f)
  <2> DEFINE g == [i \in 0..n |-> IF i = 0 THEN n ELSE f[i - 1] \div 10]
  <2>1. ASSUME NEW i \in 0..n PROVE f[i] = g[i]
    <3>1. i # 0 => i \in 1..n
      OBVIOUS
    <3> HIDE DEF step
    <3> QED
      BY <1>3, <1>4, <3>1
  <2>2. f = g
    <3> HIDE DEF step
    <3> QED
      BY <2>1
  <2> QED
    BY <2>2 DEF IsRest
<1>6. IsRest(n, Rest(n))
  BY <1>5 DEF Rest
<1> HIDE DEF step
<1> DEFINE r == Rest(n)
<1>7. /\ DOMAIN r = 0..n
      /\ \A i \in 0..n : r[i] = IF i = 0 THEN n ELSE r[i - 1] \div 10
      /\ r = [i \in 0..n |-> r[i]]
  <2> HIDE DEF r
  <2>1. IsRest(n, r)
    BY <1>6 DEF r
  <2> QED
    BY <2>1 DEF IsRest
<1>8. r[0] = n /\ \A i \in 1..n : r[i] = r[i - 1] \div 10
  <2> DEFINE q(i) == r[i - 1] \div 10
  <2>1. \A i \in 0..n : r[i] = IF i = 0 THEN n ELSE q(i)
    BY <1>7
  <2> HIDE DEF r, q
  <2>2. r[0] = n /\ \A i \in 1..n : r[i] = q(i)
    BY <2>1
  <2> QED
    BY <2>2 DEF q
<1>9. \A m \in Nat : m \in 0..n => r[m] \in Nat
  <2> DEFINE S == {m \in Nat : m \in 0..n => r[m] \in Nat}
  <2>1. 0 \in S
    BY <1>8
  <2>2. ASSUME NEW m \in Nat, m \in S PROVE m + 1 \in S
    <3>1. m + 1 \in 0..n => m \in 0..n /\ m + 1 \in 1..n /\ (m + 1) - 1 = m
      OBVIOUS
    <3> HIDE DEF r
    <3>2. m + 1 \in 0..n => r[m] \in Nat /\ r[m + 1] = r[m] \div 10
      BY <1>8, <2>2, <3>1
    <3>3. m + 1 \in 0..n => r[m + 1] \in Nat
      BY <3>2, LastDigit
    <3> QED
      BY <3>3
  <2> HIDE DEF S
  <2>3. Nat \subseteq S
    BY <2>1, <2>2, NatSetInduction
  <2> QED
    BY <2>3 DEF S
<1>10. r \in [0..n -> Nat]
  <2> HIDE DEF r
  <2> QED
    BY <1>7, <1>9
<1> QED
  BY <1>8, <1>10

(* The last step before one digit is left, if there is one.                *)
IsLast(n, k) ==
  /\ k \in 0..n /\ Rest(n)[k] < 10
  /\ \A j \in 0..n : Rest(n)[j] < 10 => k <= j

LEMMA FormatIs ==
  ASSUME NEW n \in Nat, NEW k, IsLast(n, k)
  PROVE  Metadata!FormatInt(n) = [i \in 1..(k + 1) |-> Rest(n)[k + 1 - i] % 10]
<1> DEFINE last == CHOOSE i \in 0..n :
                     Rest(n)[i] < 10 /\ \A j \in 0..n : Rest(n)[j] < 10 => i <= j
<1>1. Metadata!FormatInt(n) = [i \in 1..(last + 1) |-> Rest(n)[last + 1 - i] % 10]
  BY DEF Metadata!FormatInt, Rest, IsRest
<1>2. last = k
  <2>1. last \in 0..n /\ Rest(n)[last] < 10 /\ \A j \in 0..n : Rest(n)[j] < 10 => last <= j
    BY DEF IsLast
  <2> HIDE DEF last
  <2>2. last <= k /\ k <= last
    BY <2>1 DEF IsLast
  <2>3. last \in Int /\ k \in Int
    BY <2>1 DEF IsLast
  <2> QED
    BY <2>2, <2>3
<1> HIDE DEF last
<1> QED
  BY <1>1, <1>2

LEMMA LastExists ==
  ASSUME NEW n \in Nat
  PROVE  \E k : IsLast(n, k)
<1> DEFINE r == Rest(n)
           S == {m \in Nat : m \in 0..n => r[m] = 0 \/ r[m] + m <= n}
           T == {m \in 0..n : r[m] < 10}
<1>1. /\ r \in [0..n -> Nat] /\ r[0] = n
      /\ \A i \in 1..n : r[i] = r[i - 1] \div 10
  BY RestIs
<1> HIDE DEF r
<1>2. 0 \in S
  BY <1>1
<1>3. ASSUME NEW m \in Nat, m \in S PROVE m + 1 \in S
  <2>1. SUFFICES ASSUME m + 1 \in 0..n PROVE r[m + 1] = 0 \/ r[m + 1] + (m + 1) <= n
    OBVIOUS
  <2>2. m \in 0..n /\ m + 1 \in 1..n /\ (m + 1) - 1 = m
    BY <2>1
  <2>3. r[m] \in Nat /\ r[m + 1] = r[m] \div 10
    BY <1>1, <2>2
  <2>4. r[m] = 0 \/ r[m] + m <= n
    BY <1>3, <2>2
  <2>5. r[m] > 0 => r[m] \div 10 < r[m]
    BY <2>3, LastDigit
  <2>6. r[m] \div 10 \in Nat
    BY <2>3, LastDigit
  <2>7. CASE r[m] = 0
    BY <2>3, <2>7
  <2>8. CASE r[m] # 0
    <3>1. r[m] + m <= n /\ r[m + 1] < r[m] /\ r[m + 1] \in Nat
      BY <2>3, <2>4, <2>5, <2>6, <2>8
    <3> QED
      BY <2>3, <3>1
  <2> QED
    BY <2>7, <2>8
<1>4. n \in S
  <2> HIDE DEF S
  <2> QED
    BY <1>2, <1>3, NatSetInduction
<1>5. r[n] \in Nat /\ (r[n] = 0 \/ r[n] + n <= n)
  BY <1>1, <1>4
<1>6. n \in T
  BY <1>5
<1>7. T \subseteq Nat /\ T # {}
  BY <1>6
<1>8. PICK k \in T : \A m \in T : k <= m
  <2> HIDE DEF T
  <2> QED
    BY <1>7, LeastNatural
<1> QED
  BY <1>8 DEF IsLast, r

(* A number is written in its own digits, without a zero in front, and     *)
(* reads as itself.                                                        *)
LEMMA NumberReadsBack ==
  ASSUME NEW n \in Nat, n > 0
  PROVE  /\ Metadata!FormatInt(n) \in Seq(Decimal)
         /\ Metadata!FormatInt(n) # <<>> /\ Metadata!FormatInt(n)[1] # 0
         /\ Metadata!Digits(Metadata!FormatInt(n), 10) = n
<1>1. PICK k : IsLast(n, k)
  BY LastExists
<1> DEFINE r == Rest(n)
           t == Metadata!FormatInt(n)
<1>2. /\ r \in [0..n -> Nat] /\ r[0] = n
      /\ \A i \in 1..n : r[i] = r[i - 1] \div 10
  BY RestIs
<1>3. /\ k \in 0..n /\ r[k] < 10
      /\ \A j \in 0..n : r[j] < 10 => k <= j
  BY <1>1 DEF IsLast
<1>4. t = [i \in 1..(k + 1) |-> r[k + 1 - i] % 10]
  BY <1>1, FormatIs
<1> HIDE DEF r, t
<1>5. \A i \in 1..(k + 1) : k + 1 - i \in 0..n /\ r[k + 1 - i] \in Nat
  <2>1. \A i \in 1..(k + 1) : k + 1 - i \in 0..n
    BY <1>3
  <2> QED
    BY <1>2, <2>1
<1>6. \A i \in 1..(k + 1) : t[i] \in Decimal /\ t[i] = r[k + 1 - i] % 10
  <2> TAKE i \in 1..(k + 1)
  <2>1. t[i] = r[k + 1 - i] % 10
    BY <1>4
  <2> QED
    BY <1>5, <2>1, LastDigit
<1>7. t \in Seq(Decimal) /\ Len(t) = k + 1
  <2>1. t = [i \in 1..(k + 1) |-> t[i]] /\ k + 1 \in Nat
    BY <1>3, <1>4
  <2> QED
    BY <1>6, <2>1
<1>8. t[1] = r[k] /\ r[k] \in Nat
  <2>1. 1 \in 1..(k + 1) /\ k + 1 - 1 = k
    BY <1>3
  <2>2. t[1] = r[k] % 10 /\ r[k] \in Nat
    BY <1>5, <1>6, <2>1
  <2> QED
    BY <1>3, <2>2, LastDigit
<1>9. r[k] # 0
  <2>1. CASE k = 0
    BY <1>2, <2>1
  <2>2. CASE k # 0
    <3>1. k \in 1..n /\ k - 1 \in 0..n /\ ~(k <= k - 1)
      BY <1>3, <2>2
    <3>2. r[k - 1] \in Nat /\ ~(r[k - 1] < 10) /\ r[k] = r[k - 1] \div 10
      BY <1>2, <1>3, <3>1
    <3> QED
      BY <3>2, LastDigit
  <2> QED
    BY <2>1, <2>2
<1> DEFINE u == UpTo(t)
           S == {i \in Nat : i + 1 \in 1..(k + 1) => u[i + 1] = r[k - i]}
<1>10. /\ u \in [0..Len(t) -> Nat] /\ u[0] = 0
       /\ \A i \in 1..Len(t) : u[i] = 10 * u[i - 1] + t[i]
       /\ Metadata!Digits(t, 10) = u[Len(t)]
  BY <1>7, UpToIs
<1> HIDE DEF u
<1>11. 0 \in S
  <2>1. 1 \in 1..Len(t) /\ 1 - 1 = 0 /\ 0 + 1 = 1 /\ k - 0 = k
    BY <1>3, <1>7
  <2>2. u[1] = 10 * u[0] + t[1]
    BY <1>10, <2>1
  <2>3. u[1] = r[k]
    BY <1>8, <1>10, <2>2
  <2> QED
    BY <2>1, <2>3
<1>12. ASSUME NEW i \in Nat, i \in S PROVE i + 1 \in S
  <2>1. SUFFICES ASSUME i + 2 \in 1..(k + 1) PROVE u[i + 2] = r[k - (i + 1)]
    <3>1. (i + 1) + 1 = i + 2
      OBVIOUS
    <3> HIDE DEF u
    <3> QED
      BY <3>1
  <2>2. /\ i + 1 \in 1..(k + 1) /\ i + 2 \in 1..Len(t) /\ (i + 2) - 1 = i + 1
        /\ k + 1 - (i + 2) = k - (i + 1) /\ k - i \in 1..n
        /\ (k - i) - 1 = k - (i + 1) /\ k - (i + 1) \in 0..n
    BY <1>3, <1>7, <2>1
  <2>3. u[i + 1] = r[k - i]
    BY <1>12, <2>2
  <2>4. u[i + 2] = 10 * u[i + 1] + t[i + 2]
    BY <1>10, <2>2
  <2>5. t[i + 2] = r[k - (i + 1)] % 10
    BY <1>6, <2>1, <2>2
  <2>6. r[k - i] = r[k - (i + 1)] \div 10 /\ r[k - (i + 1)] \in Nat
    BY <1>2, <2>2
  <2> DEFINE x == r[k - (i + 1)]
  <2>7. u[i + 2] = 10 * (x \div 10) + (x % 10) /\ x \in Nat
    BY <2>3, <2>4, <2>5, <2>6
  <2> HIDE DEF x
  <2>8. u[i + 2] = x
    BY <2>7, LastDigit
  <2> QED
    BY <2>8 DEF x
<1>13. k \in S
  <2>1. k \in Nat
    BY <1>3
  <2> HIDE DEF S
  <2> QED
    BY <1>11, <1>12, <2>1, NatSetInduction
<1>14. u[k + 1] = n
  <2>1. k + 1 \in 1..(k + 1) /\ k - k = 0
    BY <1>3
  <2> QED
    BY <1>2, <1>13, <2>1
<1>15. t # <<>>
  BY <1>3, <1>7
<1>16. t \in Seq(Decimal) /\ t # <<>> /\ t[1] # 0
  BY <1>7, <1>8, <1>9, <1>15
<1>17. Metadata!Digits(t, 10) = n
  BY <1>7, <1>10, <1>14
<1>18. /\ Metadata!FormatInt(n) \in Seq(Decimal)
       /\ Metadata!FormatInt(n) # <<>> /\ Metadata!FormatInt(n)[1] # 0
       /\ Metadata!Digits(Metadata!FormatInt(n), 10) = n
  BY <1>16, <1>17 DEF t
<1> QED
  BY <1>18

(* A text of digits without a zero in front is what its number is written  *)
(* as.                                                                     *)
LEMMA DigitsAreWritten ==
  ASSUME NEW t \in Seq(Decimal), t # <<>>, t[1] # 0
  PROVE  /\ Metadata!Digits(t, 10) \in Nat
         /\ Metadata!FormatInt(Metadata!Digits(t, 10)) = t
<1> DEFINE u == UpTo(t)
           l == Len(t)
           n == u[l]
           r == Rest(n)
<1>1. /\ u \in [0..l -> Nat] /\ u[0] = 0
      /\ \A i \in 1..l : u[i] = 10 * u[i - 1] + t[i]
      /\ Metadata!Digits(t, 10) = n
  BY UpToIs
<1>2. l \in Nat /\ l >= 1 /\ \A i \in 1..l : t[i] \in Decimal
  OBVIOUS
<1> HIDE DEF u
<1>3. \A i \in 1..l : /\ u[i - 1] \in Nat /\ u[i] \in Nat
                      /\ u[i] \div 10 = u[i - 1] /\ u[i] % 10 = t[i]
  <2> TAKE i \in 1..l
  <2>1. i - 1 \in 0..l /\ i \in 0..l
    BY <1>2
  <2>2. u[i - 1] \in Nat /\ u[i] \in Nat
    BY <1>1, <2>1
  <2>3. u[i] = 10 * u[i - 1] + t[i] /\ t[i] \in Decimal
    BY <1>1, <1>2
  <2>4. ASSUME NEW x \in Nat, NEW d \in Decimal, NEW y, y = 10 * x + d
        PROVE  y \div 10 = x /\ y % 10 = d
    BY <2>4, LastDigit
  <2>5. u[i] \div 10 = u[i - 1] /\ u[i] % 10 = t[i]
    BY <2>2, <2>3, <2>4, Zenon
  <2> QED
    BY <2>2, <2>5, Zenon
<1>4. \A i \in Nat : i + 1 \in 1..l => u[i + 1] >= i + 1
  <2> DEFINE S == {i \in Nat : i + 1 \in 1..l => u[i + 1] >= i + 1}
  <2>1. 0 \in S
    <3>1. 1 \in 1..l /\ 1 - 1 = 0 /\ 0 + 1 = 1
      BY <1>2
    <3>2. u[1] = 10 * u[0] + t[1] /\ t[1] \in Decimal
      BY <1>1, <1>2, <3>1
    <3>3. u[1] >= 1
      BY <1>1, <3>2 DEF Decimal
    <3> QED
      BY <3>1, <3>3
  <2>2. ASSUME NEW i \in Nat, i \in S PROVE i + 1 \in S
    <3>1. SUFFICES ASSUME (i + 1) + 1 \in 1..l PROVE u[(i + 1) + 1] >= (i + 1) + 1
      OBVIOUS
    <3> DEFINE j == i + 1
    <3>2. j \in 1..l /\ j + 1 \in 1..l /\ (j + 1) - 1 = j /\ j \in Nat
      BY <1>2, <3>1
    <3>3. u[j] >= j /\ u[j] \in Nat
      BY <1>3, <2>2, <3>2
    <3>4. u[j + 1] = 10 * u[j] + t[j + 1] /\ t[j + 1] \in Decimal
      BY <1>1, <1>2, <3>2
    <3>5. u[j + 1] >= j + 1
      <4> HIDE DEF j
      <4> QED
        BY <3>2, <3>3, <3>4 DEF Decimal
    <3> QED
      BY <3>5
  <2> HIDE DEF S
  <2>3. Nat \subseteq S
    BY <2>1, <2>2, NatSetInduction
  <2> QED
    BY <2>3 DEF S
<1>5. \A i \in 1..l : u[i] >= i
  <2> TAKE i \in 1..l
  <2>1. i - 1 \in Nat /\ (i - 1) + 1 = i
    BY <1>2
  <2> QED
    BY <1>4, <2>1
<1>6. n \in Nat /\ l - 1 \in 0..n /\ l - 1 \in Nat
  <2>1. l \in 1..l
    BY <1>2
  <2>2. n \in Nat /\ n >= l
    BY <1>3, <1>5, <2>1
  <2> HIDE DEF n, l
  <2> QED
    BY <1>2, <2>2
<1>7. /\ r \in [0..n -> Nat] /\ r[0] = n
      /\ \A i \in 1..n : r[i] = r[i - 1] \div 10
  BY <1>6, RestIs
<1> HIDE DEF r
<1>8. \A j \in Nat : j \in 0..(l - 1) => r[j] = u[l - j]
  <2> DEFINE S == {j \in Nat : j \in 0..(l - 1) => r[j] = u[l - j]}
  <2>1. 0 \in S
    <3>1. l - 0 = l
      BY <1>2
    <3> QED
      BY <1>7, <3>1
  <2>2. ASSUME NEW j \in Nat, j \in S PROVE j + 1 \in S
    <3>1. SUFFICES ASSUME j + 1 \in 0..(l - 1) PROVE r[j + 1] = u[l - (j + 1)]
      OBVIOUS
    <3>2. /\ j \in 0..(l - 1) /\ j + 1 \in 1..n /\ (j + 1) - 1 = j
          /\ l - j \in 1..l /\ (l - j) - 1 = l - (j + 1)
      <4> HIDE DEF n, l
      <4> QED
        BY <1>2, <1>6, <3>1
    <3>3. r[j] = u[l - j]
      BY <2>2, <3>2
    <3>4. r[j + 1] = r[j] \div 10
      BY <1>7, <3>2
    <3>5. u[l - j] \div 10 = u[l - (j + 1)]
      BY <1>3, <3>2
    <3> QED
      BY <3>3, <3>4, <3>5
  <2> HIDE DEF S
  <2>3. Nat \subseteq S
    BY <2>1, <2>2, NatSetInduction
  <2> QED
    BY <2>3 DEF S
<1>9. r[l - 1] < 10
  <2>1. l - 1 \in 0..(l - 1) /\ l - (l - 1) = 1 /\ 1 \in 1..l /\ 1 - 1 = 0
    BY <1>2
  <2>2. r[l - 1] = u[1]
    BY <1>6, <1>8, <2>1
  <2>3. u[1] = 10 * u[0] + t[1] /\ t[1] \in Decimal
    BY <1>1, <1>2, <2>1
  <2> QED
    BY <1>1, <2>2, <2>3 DEF Decimal
<1>10. ASSUME NEW j \in 0..n, r[j] < 10 PROVE l - 1 <= j
  <2>1. SUFFICES ASSUME j < l - 1 PROVE FALSE
    BY <1>2
  <2>2. /\ j \in Nat /\ j \in 0..(l - 1) /\ l - j \in 1..l
        /\ (l - j) - 1 \in 1..l
    <3> HIDE DEF n, l
    <3> QED
      BY <1>2, <1>6, <2>1
  <2>3. r[j] = u[l - j]
    BY <1>8, <2>2
  <2>4. u[l - j] = 10 * u[(l - j) - 1] + t[l - j] /\ t[l - j] \in Decimal
    BY <1>1, <1>2, <2>2
  <2>5. u[(l - j) - 1] \in Nat /\ u[(l - j) - 1] >= 1
    <3>1. \A i \in 1..l : u[i] \in Nat /\ u[i] >= i /\ i >= 1
      BY <1>2, <1>3, <1>5
    <3>2. \A i \in 1..l : u[i] \in Nat /\ u[i] >= 1
      BY <3>1
    <3> QED
      BY <2>2, <3>2
  <2>6. \A x \in Nat, d \in Decimal : x >= 1 => ~(10 * x + d < 10)
    BY DEF Decimal
  <2>7. ~(u[l - j] < 10)
    BY <2>4, <2>5, <2>6, Zenon
  <2> QED
    BY <1>10, <2>3, <2>7, Zenon
<1>11. IsLast(n, l - 1)
  BY <1>6, <1>9, <1>10 DEF IsLast, r
<1>12. Metadata!FormatInt(n) = [i \in 1..((l - 1) + 1) |-> r[(l - 1) + 1 - i] % 10]
  BY <1>6, <1>11, FormatIs DEF r
<1>13. \A i \in 1..l : r[(l - 1) + 1 - i] % 10 = t[i]
  <2> TAKE i \in 1..l
  <2>1. (l - 1) + 1 - i = l - i /\ l - i \in 0..(l - 1) /\ l - i \in Nat /\ l - (l - i) = i
    BY <1>2
  <2>2. r[l - i] = u[i]
    BY <1>8, <2>1
  <2> QED
    BY <1>3, <2>1, <2>2
<1>14. Metadata!FormatInt(n) = t
  <2>1. (l - 1) + 1 = l
    BY <1>2
  <2>2. Metadata!FormatInt(n) = [i \in 1..l |-> r[(l - 1) + 1 - i] % 10]
    BY <1>12, <2>1
  <2>3. Metadata!FormatInt(n) = [i \in 1..l |-> t[i]]
    BY <1>13, <2>2
  <2> QED
    BY <2>3
<1> QED
  BY <1>1, <1>6, <1>14

-----------------------------------------------------------------------------
(* PeerMetadata: what is sent and what is read                             *)

(* What other stacks may leave under a key. *)
AnyToken == {Metadata!EncodeCapabilityToken(raw) : raw \in RawTokens}
         \cup [1..Metadata!CapabilityTokenLength -> 0..Metadata!NoSextet]

ValuesOf(key) ==
  CASE key = "authorization" ->
         [scheme : {"DTX-Capability-Token", "Bearer"}, blanks : {1, 2}, token : AnyToken]
    [] key = "instance" -> [id : Instance, spelling : Metadata!IdSpelling]
    [] key = "generation" -> Seq(Nat)

Items(V) == Seq([value : V, padded : BOOLEAN])

AnyWire == {w \in [Metadata!Key -> UNION {Items(ValuesOf(key)) : key \in Metadata!Key}] :
              \A key \in Metadata!Key : w[key] \in Items(ValuesOf(key))}

AnyMetadata ==
  [token : AnyToken, instance : [id : Instance, spelling : Metadata!IdSpelling],
   generation : Int]

(* A generation that may be sent is text that is read as it.               *)
LEMMA GenerationIsRead ==
  ASSUME Metadata!SizeAssumption, NEW n \in Int, Metadata!ValidAccountGeneration(n)
  PROVE  /\ Metadata!FormatInt(n) \in Seq(Nat)
         /\ Metadata!FormatInt(n) # <<>>
         /\ Metadata!ParsesAsGeneration(Metadata!FormatInt(n))
         /\ Metadata!ParseInt(Metadata!FormatInt(n)) = n
<1> DEFINE t == Metadata!FormatInt(n)
<1>1. n \in Nat /\ n > 0 /\ n <= MaxAccountGeneration /\ n <= MaxInteger
  BY DEF Metadata!SizeAssumption, Metadata!ValidAccountGeneration
<1>2. t \in Seq(Decimal) /\ t # <<>> /\ t[1] # 0 /\ Metadata!Digits(t, 10) = n
  BY <1>1, NumberReadsBack
<1> HIDE DEF t
<1>3. DOMAIN t = 1..Len(t) /\ Len(t) \in Nat /\ \A i \in DOMAIN t : t[i] \in 0..9
  BY <1>2 DEF Decimal
<1>4. 1 \in DOMAIN t
  BY <1>2, <1>3
<1>5. t[1] \notin {Metadata!Plus, Metadata!Minus} /\ t[1] # Metadata!Minus
  BY <1>3, <1>4 DEF Metadata!Plus, Metadata!Minus
<1>6. \A i \in DOMAIN t : ~(t[i] > 9)
  BY <1>3
<1>7. ~(n > MaxInteger)
  BY <1>1 DEF Metadata!SizeAssumption
<1>8. Metadata!ParseInt(t) = n
  BY <1>2, <1>5, <1>6, <1>7 DEF Metadata!ParseInt
<1>9. t # <<0>> /\ t \in Seq(Nat)
  BY <1>2 DEF Decimal
<1>10. Metadata!ParsesAsGeneration(t)
  BY <1>2, <1>5, <1>8, <1>9 DEF Metadata!ParsesAsGeneration
<1> QED
  BY <1>2, <1>8, <1>9, <1>10 DEF t

LEMMA NotEmpty ==
  ASSUME NEW S, NEW s \in Seq(S), s # <<>>
  PROVE  Len(s) \in Nat /\ Len(s) # 0
OBVIOUS

(* A text that is read as a generation is the text of that generation.     *)
LEMMA GenerationIsCanonical ==
  ASSUME Metadata!SizeAssumption, NEW t \in Seq(Nat), t # <<>>,
         Metadata!ParsesAsGeneration(t)
  PROVE  /\ Metadata!ParseInt(t) \in 1..MaxAccountGeneration
         /\ Metadata!FormatInt(Metadata!ParseInt(t)) = t
<1>1. /\ t # <<0>> /\ (Len(t) > 1 => t[1] # 0)
      /\ t[1] \notin {Metadata!Plus, Metadata!Minus}
      /\ Metadata!ValidAccountGeneration(Metadata!ParseInt(t))
  BY DEF Metadata!ParsesAsGeneration
<1>2. Metadata!ParseInt(t) > 0
  BY <1>1 DEF Metadata!ValidAccountGeneration
<1>3. Metadata!ParseInt(t) =
        IF \E i \in DOMAIN t : t[i] > 9 THEN -1
        ELSE IF Metadata!Digits(t, 10) > MaxInteger THEN -1
        ELSE Metadata!Digits(t, 10)
  BY <1>1 DEF Metadata!ParseInt
<1>4. /\ ~(\E i \in DOMAIN t : t[i] > 9)
      /\ Metadata!ParseInt(t) = Metadata!Digits(t, 10)
  <2> DEFINE number == Metadata!ParseInt(t)
             large == \E i \in DOMAIN t : t[i] > 9
             d == Metadata!Digits(t, 10)
             beyond == d > MaxInteger
  <2>1. number = (IF large THEN -1 ELSE IF beyond THEN -1 ELSE d) /\ number > 0
    BY <1>2, <1>3
  <2> HIDE DEF number, large, d, beyond
  <2>2. number # -1
    BY <2>1
  <2>3. ~large /\ number = d
    BY <2>1, <2>2, Zenon
  <2> QED
    BY <2>3 DEF number, large, d
<1>5. \A i \in 1..Len(t) : t[i] \in Decimal
  <2>1. DOMAIN t = 1..Len(t) /\ \A i \in 1..Len(t) : t[i] \in Nat
    OBVIOUS
  <2>2. \A i \in 1..Len(t) : ~(t[i] > 9)
    BY <1>4, <2>1, Zenon
  <2> QED
    BY <2>1, <2>2 DEF Decimal
<1>6. t \in Seq(Decimal)
  BY <1>5
<1>7. t[1] # 0
  <2>1. CASE Len(t) > 1
    BY <1>1, <2>1
  <2>2. CASE ~(Len(t) > 1)
    <3> DEFINE zero == <<0>>
    <3>1. zero \in Seq(Nat) /\ Len(zero) = 1 /\ zero[1] = 0
      BY OneItem
    <3> HIDE DEF zero
    <3>2. Len(t) \in Nat /\ Len(t) # 0
      BY NotEmpty
    <3>3. \A l \in Nat : l # 0 /\ ~(l > 1) => l = 1
      OBVIOUS
    <3>4. Len(t) = 1
      BY <2>2, <3>2, <3>3, Zenon
    <3>5. t[1] = 0 => t = zero
      BY <3>1, <3>4
    <3> QED
      BY <1>1, <3>5 DEF zero
  <2> QED
    BY <2>1, <2>2
<1>8. /\ Metadata!Digits(t, 10) \in Nat
      /\ Metadata!FormatInt(Metadata!Digits(t, 10)) = t
  BY <1>6, <1>7, DigitsAreWritten
<1> QED
  BY <1>1, <1>4, <1>8 DEF Metadata!ValidAccountGeneration, Metadata!SizeAssumption

LEMMA PlainIs ==
  ASSUME NEW V, NEW v \in V
  PROVE  /\ Metadata!Plain(v) \in Items(V)
         /\ Metadata!HasOne(Metadata!Plain(v)) /\ Metadata!Plain(v)[1].value = v
<1> DEFINE item == [value |-> v, padded |-> FALSE]
           S == [value : V, padded : BOOLEAN]
<1>1. item \in S /\ item.value = v /\ ~item.padded
  OBVIOUS
<1>2. <<item>> \in Seq(S) /\ Len(<<item>>) = 1 /\ <<item>>[1] = item
  <2> HIDE DEF item, S
  <2> QED
    BY <1>1, OneItem
<1>3. Metadata!Plain(v) = <<item>>
  BY DEF Metadata!Plain
<1> HIDE DEF item, S
<1> QED
  BY <1>1, <1>2, <1>3 DEF Metadata!HasOne, Items, S

LEMMA OneIsPlain ==
  ASSUME NEW V, NEW s \in Items(V), Metadata!HasOne(s)
  PROVE  s[1].value \in V /\ s = Metadata!Plain(s[1].value)
<1> DEFINE S == [value : V, padded : BOOLEAN]
           item == [value |-> s[1].value, padded |-> FALSE]
<1>1. s \in Seq(S) /\ Len(s) = 1 /\ ~s[1].padded
  BY DEF Items, Metadata!HasOne
<1>2. s[1] \in S
  <2> HIDE DEF S
  <2> QED
    BY <1>1
<1>3. s[1].value \in V /\ s[1] = item
  BY <1>1, <1>2
<1>4. item \in S
  BY <1>2, <1>3
<1>5. <<item>> \in Seq(S) /\ Len(<<item>>) = 1 /\ <<item>>[1] = item
  <2> HIDE DEF item, S
  <2> QED
    BY <1>4, OneItem
<1>6. s = <<item>>
  <2> DEFINE r == <<item>>
  <2>1. r \in Seq(S) /\ Len(r) = 1 /\ r[1] = s[1]
    BY <1>3, <1>5
  <2> HIDE DEF r, S
  <2>2. s = r
    BY <1>1, <2>1
  <2> QED
    BY <2>2 DEF r
<1> QED
  BY <1>3, <1>6 DEF Metadata!Plain

LEMMA TokenIsThere ==
  ASSUME Metadata!SizeAssumption, NEW token, Metadata!ValidateCapabilityToken(token)
  PROVE  token # <<>> /\ token = Metadata!EncodeCapabilityToken(Metadata!DecodeToken(token))
<1>1. Metadata!CapabilityTokenLength # 0
  BY DEF Metadata!CapabilityTokenLength, Metadata!SizeAssumption
<1>2. Len(token) = Metadata!CapabilityTokenLength
      /\ token = Metadata!EncodeCapabilityToken(Metadata!DecodeToken(token))
  BY DEF Metadata!ValidateCapabilityToken
<1>3. Len(<<>>) = 0
  OBVIOUS
<1> QED
  BY <1>1, <1>2, <1>3, Zenon

(* What may be sent is read as it was meant.                               *)
LEMMA FormattedIsRead ==
  ASSUME Metadata!SizeAssumption, NEW m \in AnyMetadata, Metadata!MayFormat(m)
  PROVE  /\ Metadata!FormatCapabilityMetadata(m) \in AnyWire
         /\ Metadata!ParsesAsMetadata(Metadata!FormatCapabilityMetadata(m))
         /\ Metadata!ParseCapabilityMetadata(Metadata!FormatCapabilityMetadata(m)) = m
<1> DEFINE w == Metadata!FormatCapabilityMetadata(m)
           a == Metadata!FormatCapabilityToken(m.token)
           b == m.instance
           c == Metadata!FormatInt(m.generation)
<1>1. /\ Metadata!ValidateCapabilityToken(m.token)
      /\ Metadata!ValidateInstanceID(b)
      /\ Metadata!ValidAccountGeneration(m.generation)
  BY DEF Metadata!MayFormat
<1>2. /\ m.token \in AnyToken /\ m.generation \in Int
      /\ b \in [id : Instance, spelling : Metadata!IdSpelling]
      /\ m = [token |-> m.token, instance |-> b, generation |-> m.generation]
  BY DEF AnyMetadata
<1>3. /\ c \in Seq(Nat) /\ c # <<>>
      /\ Metadata!ParsesAsGeneration(c) /\ Metadata!ParseInt(c) = m.generation
  BY <1>1, <1>2, GenerationIsRead
<1>4. /\ a.blanks = 1 /\ a.scheme = "DTX-Capability-Token" /\ a.token = m.token
      /\ a \in [scheme : {"DTX-Capability-Token", "Bearer"}, blanks : {1, 2},
                token : AnyToken]
  BY <1>2 DEF Metadata!FormatCapabilityToken
<1>5. Metadata!ParsesAsToken(a)
  BY <1>1, <1>4 DEF Metadata!ParsesAsToken
<1>6. /\ w.authorization = Metadata!Plain(a) /\ w.instance = Metadata!Plain(b)
      /\ w.generation = Metadata!Plain(c)
      /\ DOMAIN w = Metadata!Key /\ w = [key \in Metadata!Key |-> w[key]]
  BY DEF Metadata!FormatCapabilityMetadata, Metadata!Key
<1> HIDE DEF w, a, b, c
<1>7. /\ a \in ValuesOf("authorization") /\ b \in ValuesOf("instance")
      /\ c \in ValuesOf("generation")
  BY <1>2, <1>3, <1>4 DEF ValuesOf
<1>8. \A key \in Metadata!Key :
        key = "authorization" \/ key = "instance" \/ key = "generation"
  BY DEF Metadata!Key
<1>9. \A key \in Metadata!Key :
        w[key] \in Items(ValuesOf(key)) /\ Metadata!HasOne(w[key])
  BY <1>6, <1>7, <1>8, PlainIs
<1>10. w \in AnyWire
  <2>1. w \in [Metadata!Key -> UNION {Items(ValuesOf(key)) : key \in Metadata!Key}]
    BY <1>6, <1>9
  <2> QED
    BY <1>9, <2>1 DEF AnyWire
<1>11. /\ w.authorization[1].value = a /\ w.instance[1].value = b
       /\ w.generation[1].value = c
  BY <1>6, <1>7, PlainIs
<1>12. Metadata!ParsesAsMetadata(w)
  BY <1>1, <1>3, <1>5, <1>9, <1>11 DEF Metadata!ParsesAsMetadata
<1>13. Metadata!ParseCapabilityMetadata(w) = m
  BY <1>2, <1>3, <1>4, <1>11 DEF Metadata!ParseCapabilityMetadata
<1> QED
  BY <1>10, <1>12, <1>13 DEF w

(* What is read was written as its sender's code would have written it.    *)
LEMMA ReadIsFormatted ==
  ASSUME Metadata!SizeAssumption, NEW w \in AnyWire, Metadata!ParsesAsMetadata(w)
  PROVE  LET m == Metadata!ParseCapabilityMetadata(w)
         IN  /\ Metadata!MayFormat(m) /\ w = Metadata!FormatCapabilityMetadata(m)
             /\ m.token = Metadata!EncodeCapabilityToken(Metadata!DecodeToken(m.token))
             /\ m.token # <<>> /\ m.generation \in 1..MaxAccountGeneration
<1> DEFINE m == Metadata!ParseCapabilityMetadata(w)
           f == Metadata!FormatCapabilityMetadata(m)
           a == w.authorization[1].value
           b == w.instance[1].value
           c == w.generation[1].value
<1>1. /\ \A key \in Metadata!Key : Metadata!HasOne(w[key])
      /\ Metadata!ParsesAsToken(a) /\ Metadata!ValidateInstanceID(b)
      /\ c # <<>> /\ Metadata!ParsesAsGeneration(c)
  BY DEF Metadata!ParsesAsMetadata
<1>2. /\ "authorization" \in Metadata!Key /\ "instance" \in Metadata!Key
      /\ "generation" \in Metadata!Key
      /\ \A key \in Metadata!Key : w[key] \in Items(ValuesOf(key))
      /\ DOMAIN w = Metadata!Key /\ w = [key \in Metadata!Key |-> w[key]]
  BY DEF AnyWire, Metadata!Key
<1>3. /\ a \in ValuesOf("authorization") /\ w.authorization = Metadata!Plain(a)
      /\ b \in ValuesOf("instance") /\ w.instance = Metadata!Plain(b)
      /\ c \in ValuesOf("generation") /\ w.generation = Metadata!Plain(c)
  BY <1>1, <1>2, OneIsPlain
<1>4. m.token = a.token /\ m.instance = b /\ m.generation = Metadata!ParseInt(c)
  BY DEF Metadata!ParseCapabilityMetadata
<1>5. /\ f.authorization = Metadata!Plain(Metadata!FormatCapabilityToken(m.token))
      /\ f.instance = Metadata!Plain(m.instance)
      /\ f.generation = Metadata!Plain(Metadata!FormatInt(m.generation))
      /\ DOMAIN f = Metadata!Key /\ f = [key \in Metadata!Key |-> f[key]]
  BY DEF Metadata!FormatCapabilityMetadata, Metadata!Key
<1> HIDE DEF m, f, a, b, c
<1>6. c \in Seq(Nat)
  BY <1>3 DEF ValuesOf
<1>7. /\ m.generation \in 1..MaxAccountGeneration
      /\ Metadata!FormatInt(m.generation) = c
  BY <1>1, <1>4, <1>6, GenerationIsCanonical
<1>8. /\ a.blanks = 1 /\ a.scheme = "DTX-Capability-Token"
      /\ Metadata!ValidateCapabilityToken(m.token)
  BY <1>1, <1>4 DEF Metadata!ParsesAsToken
<1>9. a \in [scheme : {"DTX-Capability-Token", "Bearer"}, blanks : {1, 2}, token : AnyToken]
  BY <1>3 DEF ValuesOf
<1>10. Metadata!FormatCapabilityToken(m.token) = a
  BY <1>4, <1>8, <1>9 DEF Metadata!FormatCapabilityToken
<1>11. \A key \in Metadata!Key :
         key = "authorization" \/ key = "instance" \/ key = "generation"
  BY DEF Metadata!Key
<1>12. \A key \in Metadata!Key : f[key] = w[key]
  BY <1>3, <1>4, <1>5, <1>7, <1>10, <1>11
<1>13. w = f
  BY <1>2, <1>5, <1>12
<1>14. Metadata!MayFormat(m)
  <2>1. Metadata!ValidAccountGeneration(m.generation)
    BY <1>7 DEF Metadata!ValidAccountGeneration, Metadata!SizeAssumption
  <2> QED
    BY <1>1, <1>4, <1>8, <2>1 DEF Metadata!MayFormat
<1>15. /\ m.token = Metadata!EncodeCapabilityToken(Metadata!DecodeToken(m.token))
       /\ m.token # <<>>
  BY <1>8, TokenIsThere
<1> QED
  BY <1>7, <1>13, <1>14, <1>15 DEF m, f

(* Every way to respell the values under a key leaves values of it.        *)
LEMMA RespelledValues ==
  ASSUME NEW V, NEW s \in Items(V)
  PROVE  /\ s \o s \in Items(V) /\ <<>> \in Items(V)
         /\ [s EXCEPT ![1].padded = TRUE] \in Items(V)
<1> DEFINE S == [value : V, padded : BOOLEAN]
           p == [s EXCEPT ![1].padded = TRUE]
<1>1. s \in Seq(S)
  BY DEF Items
<1>2. s \o s \in Seq(S) /\ <<>> \in Seq(S)
  <2> HIDE DEF S
  <2> QED
    BY <1>1
<1>3. p \in Seq(S)
  <2>1. \A i \in 1..Len(s) : s[i] \in S
    <3> HIDE DEF S
    <3> QED
      BY <1>1
  <2>2. \A i \in 1..Len(s) : [s[i] EXCEPT !.padded = TRUE] \in S
    BY <2>1
  <2> HIDE DEF S
  <2>3. s \in [1..Len(s) -> S] /\ Len(s) \in Nat
    BY <1>1
  <2>4. p \in [1..Len(s) -> S]
    BY <2>2, <2>3
  <2> HIDE DEF p
  <2> QED
    BY <2>3, <2>4
<1> QED
  BY <1>2, <1>3 DEF Items

LEMMA TextsAreValues ==
  ASSUME NEW key \in Metadata!Key
  PROVE  Metadata!Texts(key) \subseteq ValuesOf(key)
<1>1. CASE key = "authorization"
  BY <1>1 DEF Metadata!Texts, ValuesOf, AnyToken
<1>2. CASE key = "instance"
  BY <1>2 DEF Metadata!Texts, ValuesOf
<1>3. CASE key = "generation"
  <2>1. \A n \in Nat : [1..n -> 0..Metadata!Other] \subseteq Seq(Nat)
    BY DEF Metadata!Other
  <2>2. \A n \in 0..MaxText : n \in Nat
    OBVIOUS
  <2>3. UNION {[1..n -> 0..Metadata!Other] : n \in 0..MaxText} \subseteq Seq(Nat)
    BY <2>1, <2>2
  <2> QED
    BY <1>3, <2>3 DEF Metadata!Texts, ValuesOf
<1> QED
  BY <1>1, <1>2, <1>3 DEF Metadata!Key

(* One key of the values on the wire is given another list of its values.  *)
LEMMA WireWith ==
  ASSUME NEW w \in AnyWire, NEW key \in Metadata!Key, NEW s \in Items(ValuesOf(key))
  PROVE  [w EXCEPT ![key] = s] \in AnyWire
<1> DEFINE all == UNION {Items(ValuesOf(k)) : k \in Metadata!Key}
           v == [w EXCEPT ![key] = s]
<1>1. w \in [Metadata!Key -> all] /\ \A k \in Metadata!Key : w[k] \in Items(ValuesOf(k))
  BY DEF AnyWire
<1>2. s \in all
  OBVIOUS
<1>3. v \in [Metadata!Key -> all] /\ \A k \in Metadata!Key : v[k] \in Items(ValuesOf(k))
  <2> HIDE DEF all
  <2> QED
    BY <1>1, <1>2
<1> QED
  BY <1>3 DEF AnyWire

PeerStages == {"configured", "sent", "respelled", "accepted", "refused"}

(* What is on the wire was formatted from the sender's metadata until it   *)
(* is respelled, and nothing is read but what parses.                      *)
PeerInv ==
  /\ peer \in AnyMetadata /\ values \in AnyWire /\ stage \in PeerStages
  /\ stage = "sent" =>
       Metadata!MayFormat(peer) /\ values = Metadata!FormatCapabilityMetadata(peer)
  /\ stage = "accepted" =>
       /\ Metadata!ParsesAsMetadata(values)
       /\ seen = Metadata!ParseCapabilityMetadata(values)
  /\ stage # "accepted" => seen = Metadata!NoMetadata
  /\ stage = "refused" => ~Metadata!MayFormat(peer) \/ ~Metadata!ParsesAsMetadata(values)

LEMMA PeerInvHolds == Metadata!SizeAssumption /\ Metadata!Spec => []PeerInv
<1> SUFFICES ASSUME Metadata!SizeAssumption PROVE Metadata!Spec => []PeerInv
  OBVIOUS
<1>1. ASSUME Metadata!Init PROVE PeerInv
  <2>1. peer \in AnyMetadata
    BY <1>1 DEF Metadata!Init, Metadata!SizeAssumption, AnyMetadata, AnyToken
  <2>2. values \in AnyWire
    <3>1. \A V : <<>> \in Items(V)
      BY DEF Items
    <3>2. /\ values \in [Metadata!Key -> UNION {Items(ValuesOf(k)) : k \in Metadata!Key}]
          /\ \A k \in Metadata!Key : values[k] \in Items(ValuesOf(k))
      BY <1>1, <3>1 DEF Metadata!Init
    <3> QED
      BY <3>2 DEF AnyWire
  <2> QED
    BY <1>1, <2>1, <2>2 DEF Metadata!Init, PeerInv, PeerStages
<1>2. ASSUME PeerInv, Metadata!Format PROVE PeerInv'
  <2>1. stage = "configured" /\ peer' = peer /\ seen' = seen
    BY <1>2 DEF Metadata!Format
  <2>2. CASE Metadata!MayFormat(peer)
    <3>1. values' = Metadata!FormatCapabilityMetadata(peer) /\ stage' = "sent"
      BY <1>2, <2>2 DEF Metadata!Format
    <3>2. Metadata!FormatCapabilityMetadata(peer) \in AnyWire
      BY <1>2, <2>2, FormattedIsRead DEF PeerInv
    <3> QED
      BY <1>2, <2>1, <2>2, <3>1, <3>2 DEF PeerInv, PeerStages
  <2>3. CASE ~Metadata!MayFormat(peer)
    <3>1. values' = values /\ stage' = "refused"
      BY <1>2, <2>3 DEF Metadata!Format
    <3> QED
      BY <1>2, <2>1, <2>3, <3>1 DEF PeerInv, PeerStages
  <2> QED
    BY <2>2, <2>3
<1>3. ASSUME PeerInv, Metadata!Respell PROVE PeerInv'
  <2>1. /\ stage = "sent" /\ stage' = "respelled" /\ peer' = peer /\ seen' = seen
        /\ values \in AnyWire /\ \A k \in Metadata!Key : values[k] \in Items(ValuesOf(k))
    BY <1>3 DEF Metadata!Respell, PeerInv, AnyWire
  <2>2. PICK key \in Metadata!Key :
          \/ \E value \in Metadata!Texts(key) :
               values' = [values EXCEPT ![key] = Metadata!Plain(value)]
          \/ values' = [values EXCEPT ![key] = @ \o @]
          \/ values' = [values EXCEPT ![key] = <<>>]
          \/ values' = [values EXCEPT ![key][1].padded = TRUE]
    BY <1>3 DEF Metadata!Respell
  <2>3. PICK s \in Items(ValuesOf(key)) : values' = [values EXCEPT ![key] = s]
    <3>1. CASE \E value \in Metadata!Texts(key) :
                 values' = [values EXCEPT ![key] = Metadata!Plain(value)]
      BY <3>1, TextsAreValues, PlainIs
    <3>2. CASE values' = [values EXCEPT ![key] = @ \o @]
      BY <2>1, <3>2, RespelledValues
    <3>3. CASE values' = [values EXCEPT ![key] = <<>>]
      BY <2>1, <3>3, RespelledValues
    <3>4. CASE values' = [values EXCEPT ![key][1].padded = TRUE]
      <4> DEFINE s == [values[key] EXCEPT ![1].padded = TRUE]
      <4>1. values' = [values EXCEPT ![key] = s]
        BY <3>4
      <4>2. s \in Items(ValuesOf(key))
        BY <2>1, RespelledValues
      <4> HIDE DEF s
      <4> QED
        BY <4>1, <4>2
    <3> QED
      BY <2>2, <3>1, <3>2, <3>3, <3>4
  <2>4. values' \in AnyWire
    BY <2>1, <2>3, WireWith
  <2> QED
    BY <1>3, <2>1, <2>4 DEF PeerInv, PeerStages
<1>4. ASSUME PeerInv, Metadata!Receive PROVE PeerInv'
  <2>1. /\ stage \in {"sent", "respelled"} /\ peer' = peer /\ values' = values
        /\ seen = Metadata!NoMetadata
    BY <1>4 DEF Metadata!Receive, PeerInv
  <2>2. CASE Metadata!ParsesAsMetadata(values)
    <3>1. seen' = Metadata!ParseCapabilityMetadata(values) /\ stage' = "accepted"
      BY <1>4, <2>2 DEF Metadata!Receive
    <3> QED
      BY <1>4, <2>1, <2>2, <3>1 DEF PeerInv, PeerStages
  <2>3. CASE ~Metadata!ParsesAsMetadata(values)
    <3>1. seen' = seen /\ stage' = "refused"
      BY <1>4, <2>3 DEF Metadata!Receive
    <3> QED
      BY <1>4, <2>1, <2>3, <3>1 DEF PeerInv, PeerStages
  <2> QED
    BY <2>2, <2>3
<1>5. ASSUME PeerInv, UNCHANGED Metadata!vars PROVE PeerInv'
  BY <1>5 DEF PeerInv, Metadata!vars
<1>6. PeerInv /\ [Metadata!Next]_(Metadata!vars) => PeerInv'
  BY <1>2, <1>3, <1>4, <1>5 DEF Metadata!Next
<1> QED
  BY <1>1, <1>6, PTL DEF Metadata!Spec

PeersMatch ==
  Metadata!TypeOK /\ Metadata!AcceptedIsCanonical /\ Metadata!SentIsReadBack

(* Metadata that may be sent is read as it was meant, and nothing else     *)
(* than a canonical spelling is accepted.                                  *)
LEMMA PeersAgree == Metadata!SizeAssumption /\ Metadata!Spec => []PeersMatch
<1> SUFFICES ASSUME Metadata!SizeAssumption PROVE Metadata!Spec => []PeersMatch
  OBVIOUS
<1>1. ASSUME PeerInv PROVE PeersMatch
  <2>1. peer \in AnyMetadata /\ values \in AnyWire /\ stage \in PeerStages
    BY <1>1 DEF PeerInv
  <2>2. ASSUME stage = "accepted"
        PROVE  /\ Metadata!MayFormat(seen)
               /\ values = Metadata!FormatCapabilityMetadata(seen)
               /\ seen.token = Metadata!EncodeCapabilityToken(Metadata!DecodeToken(seen.token))
               /\ seen.token # <<>> /\ seen.generation \in 1..MaxAccountGeneration
    <3> DEFINE m == Metadata!ParseCapabilityMetadata(values)
    <3>1. seen = m /\ Metadata!ParsesAsMetadata(values)
      BY <1>1, <2>2 DEF PeerInv
    <3>2. /\ Metadata!MayFormat(m) /\ values = Metadata!FormatCapabilityMetadata(m)
          /\ m.token = Metadata!EncodeCapabilityToken(Metadata!DecodeToken(m.token))
          /\ m.token # <<>> /\ m.generation \in 1..MaxAccountGeneration
      BY <2>1, <3>1, ReadIsFormatted
    <3> HIDE DEF m
    <3> QED
      BY <3>1, <3>2
  <2>3. stage # "accepted" => seen.token = <<>> /\ seen.generation = 0
    BY <1>1 DEF PeerInv, Metadata!NoMetadata
  <2>4. DOMAIN values = Metadata!Key
    BY <2>1 DEF AnyWire
  <2>5. 0 \in 0..MaxAccountGeneration
        /\ \A g \in 1..MaxAccountGeneration : g \in 0..MaxAccountGeneration
    BY DEF Metadata!SizeAssumption
  <2>6. Metadata!TypeOK
    BY <2>1, <2>2, <2>3, <2>4, <2>5, Zenon DEF Metadata!TypeOK, PeerStages
  <2>7. Metadata!AcceptedIsCanonical
    BY <2>2 DEF Metadata!AcceptedIsCanonical
  <2>8. Metadata!SentIsReadBack
    <3>1. Metadata!MayFormat(peer) =>
            /\ Metadata!ParsesAsMetadata(Metadata!FormatCapabilityMetadata(peer))
            /\ Metadata!ParseCapabilityMetadata(Metadata!FormatCapabilityMetadata(peer)) = peer
      BY <2>1, FormattedIsRead
    <3> QED
      BY <1>1, <3>1, Zenon DEF PeerInv, Metadata!SentIsReadBack
  <2> QED
    BY <2>6, <2>7, <2>8 DEF PeersMatch
<1>2. Metadata!Spec => []PeerInv
  BY PeerInvHolds
<1> QED
  BY <1>1, <1>2, PTL

-----------------------------------------------------------------------------
(* Texts of JSON: sequences put together *)

(* Two sequences put together.                                             *)
LEMMA Joined ==
  ASSUME NEW S, NEW s \in Seq(S), NEW t \in Seq(S)
  PROVE  /\ s \o t \in Seq(S)
         /\ Len(s) \in Nat /\ Len(t) \in Nat /\ Len(s \o t) = Len(s) + Len(t)
         /\ \A k \in 1..Len(s) : k \in 1..Len(s \o t) /\ (s \o t)[k] = s[k]
         /\ \A k \in 1..Len(t) : Len(s) + k \in 1..Len(s \o t) /\ (s \o t)[Len(s) + k] = t[k]
<1>1. Len(s) \in Nat /\ Len(t) \in Nat /\ s \o t \in Seq(S) /\ Len(s \o t) = Len(s) + Len(t)
  OBVIOUS
<1>2. \A k \in 1..Len(s) : (s \o t)[k] = s[k]
  OBVIOUS
<1>3. \A k \in 1..Len(t) : (s \o t)[Len(s) + k] = t[k]
  OBVIOUS
<1> QED
  BY <1>1, <1>2, <1>3

(* What the first texts of a sequence make, put together.                  *)
IsFlat(s, f) ==
  /\ f[0] = <<>> /\ \A i \in 1..Len(s) : f[i] = f[i - 1] \o s[i]
  /\ Texts!FlattenSeq(s) = f[Len(s)]

LEMMA FlatExists ==
  ASSUME NEW S, NEW s \in Seq(Seq(S))
  PROVE  \E f \in [0..Len(s) -> Seq(S)] : IsFlat(s, f)
<1> DEFINE item(i) == IF i \in 1..Len(s) THEN s[i] ELSE <<>>
           next(i, x) == x \o item(i)
           step == [p \in Nat \X Seq(S) |-> next(p[1], p[2])]
           isFlat(g) == g = [i \in 1..Len(s) |-> IF i = 1 THEN s[i] ELSE g[i - 1] \o s[i]]
           flat == CHOOSE g : isFlat(g)
<1>1. Len(s) \in Nat /\ \A i \in 1..Len(s) : s[i] \in Seq(S)
  OBVIOUS
<1>2. \A i \in Nat, x \in Seq(S) : next(i, x) \in Seq(S)
  <2>1. <<>> \in Seq(S)
    OBVIOUS
  <2>2. \A i \in Nat : item(i) \in Seq(S)
    BY <1>1, <2>1
  <2> HIDE DEF item
  <2> QED
    BY <2>2
<1>3. /\ step \in [Nat \X Seq(S) -> Seq(S)]
      /\ \A i \in Nat, x \in Seq(S) : step[<<i, x>>] = next(i, x)
  <2> HIDE DEF next
  <2> QED
    BY <1>2
<1>4. PICK f \in [0..Len(s) -> Seq(S)] :
        f[0] = <<>> /\ \A i \in 1..Len(s) : f[i] = step[<<i, f[i - 1]>>]
  <2>1. \A n \in Nat : HasValues(Seq(S), <<>>, step, n)
    <3>1. <<>> \in Seq(S)
      OBVIOUS
    <3> HIDE DEF step
    <3> QED
      BY <1>3, <3>1, Recursion
  <2>2. HasValues(Seq(S), <<>>, step, Len(s))
    BY <1>1, <2>1
  <2> HIDE DEF step
  <2> QED
    BY <2>2 DEF HasValues
<1> HIDE DEF step
<1>5. \A i \in 1..Len(s) : f[i] = f[i - 1] \o s[i]
  <2> TAKE i \in 1..Len(s)
  <2>1. i \in Nat /\ i - 1 \in 0..Len(s)
    BY <1>1
  <2>3. f[i - 1] \in Seq(S)
    BY <2>1
  <2>2. f[i] = next(i, f[i - 1])
    BY <1>3, <1>4, <2>1, <2>3
  <2> QED
    BY <2>2
<1>6. \A i \in 1..Len(s) : f[i] = IF i = 1 THEN s[i] ELSE f[i - 1] \o s[i]
  <2>1. \A x \in Seq(S) : <<>> \o x = x
    OBVIOUS
  <2>2. ASSUME 1 \in 1..Len(s) PROVE f[1] = s[1]
    <3>0. 1 - 1 = 0
      OBVIOUS
    <3>3. f[1] = f[1 - 1] \o s[1]
      BY <1>5, <2>2, Zenon
    <3>1. f[1] = f[0] \o s[1]
      BY <3>0, <3>3, Zenon
    <3>2. f[1] = <<>> \o s[1] /\ s[1] \in Seq(S)
      BY <1>1, <1>4, <2>2, <3>1, Zenon
    <3> QED
      BY <2>1, <3>2, Zenon
  <2> QED
    BY <1>5, <2>2, Zenon
<1>7. isFlat([i \in 1..Len(s) |-> f[i]])
  <2> DEFINE g == [i \in 1..Len(s) |-> f[i]]
             h == [i \in 1..Len(s) |-> IF i = 1 THEN s[i] ELSE g[i - 1] \o s[i]]
  <2>1. ASSUME NEW i \in 1..Len(s) PROVE g[i] = h[i]
    <3>1. i # 1 => i - 1 \in 1..Len(s)
      BY <1>1
    <3> QED
      BY <1>6, <3>1
  <2>2. g = h
    BY <2>1
  <2> QED
    BY <2>2
<1>8. isFlat(flat)
  <2> HIDE DEF isFlat
  <2> QED
    BY <1>7
<1> DEFINE T == {n \in Nat : n + 1 \in 1..Len(s) => flat[n + 1] = f[n + 1]}
<1>9. /\ \A i \in 1..Len(s) : flat[i] = IF i = 1 THEN s[i] ELSE flat[i - 1] \o s[i]
  <2> HIDE DEF flat
  <2> QED
    BY <1>8
<1> HIDE DEF flat
<1>10. 0 \in T
  BY <1>6, <1>9
<1>11. ASSUME NEW n \in Nat, n \in T PROVE n + 1 \in T
  <2>1. SUFFICES ASSUME (n + 1) + 1 \in 1..Len(s) PROVE flat[(n + 1) + 1] = f[(n + 1) + 1]
    OBVIOUS
  <2>2. n + 1 \in 1..Len(s) /\ (n + 1) + 1 # 1 /\ ((n + 1) + 1) - 1 = n + 1
    BY <1>1, <2>1
  <2>3. flat[n + 1] = f[n + 1]
    BY <1>11, <2>2
  <2> QED
    BY <1>6, <1>9, <2>1, <2>2, <2>3
<1>12. Texts!FlattenSeq(s) = f[Len(s)]
  <2>1. CASE Len(s) = 0
    <3>1. s = <<>>
      BY <2>1
    <3>2. Texts!FlattenSeq(s) = s
      BY <2>1 DEF Texts!FlattenSeq
    <3> QED
      BY <1>4, <2>1, <3>1, <3>2
  <2>2. CASE Len(s) # 0
    <3>1. Texts!FlattenSeq(s) = flat[Len(s)]
      BY <2>2 DEF Texts!FlattenSeq, flat
    <3>2. \A n \in Nat : n \in T
      <4> HIDE DEF T
      <4>1. Nat \subseteq T
        BY <1>10, <1>11, NatSetInduction
      <4> QED
        BY <4>1
    <3>3. Len(s) - 1 \in Nat /\ (Len(s) - 1) + 1 = Len(s) /\ Len(s) \in 1..Len(s)
      BY <1>1, <2>2
    <3>4. flat[Len(s)] = f[Len(s)]
      BY <3>2, <3>3
    <3> QED
      BY <3>1, <3>4
  <2> QED
    BY <2>1, <2>2
<1> QED
  BY <1>4, <1>5, <1>12 DEF IsFlat

(* What comes later leaves the beginning as it is.                         *)
StartsWith(s, t) == Len(t) <= Len(s) /\ \A k \in 1..Len(t) : s[k] = t[k]

LEMMA FlatBegins ==
  ASSUME NEW S, NEW s \in Seq(Seq(S)), NEW f \in [0..Len(s) -> Seq(S)], IsFlat(s, f),
         NEW i \in 0..Len(s), NEW j \in 0..Len(s), i <= j
  PROVE  StartsWith(f[j], f[i])
<1> DEFINE T == {n \in Nat : i + n \in 0..Len(s) =>
                   /\ Len(f[i]) <= Len(f[i + n])
                   /\ \A k \in 1..Len(f[i]) : f[i + n][k] = f[i][k]}
<1>1. i \in Nat /\ j \in Nat /\ Len(s) \in Nat
  OBVIOUS
<1>2. f[i] \in Seq(S) /\ Len(f[i]) \in Nat
  OBVIOUS
<1>3. 0 \in T
  BY <1>1, <1>2
<1>4. ASSUME NEW n \in Nat, n \in T PROVE n + 1 \in T
  <2>1. SUFFICES ASSUME i + (n + 1) \in 0..Len(s)
                 PROVE  /\ Len(f[i]) <= Len(f[i + (n + 1)])
                        /\ \A k \in 1..Len(f[i]) : f[i + (n + 1)][k] = f[i][k]
    OBVIOUS
  <2> DEFINE m == i + n
  <2>2. m \in 0..Len(s) /\ m + 1 \in 1..Len(s) /\ i + (n + 1) = m + 1 /\ (m + 1) - 1 = m
    BY <1>1, <2>1
  <2>3. /\ Len(f[i]) <= Len(f[m])
        /\ \A k \in 1..Len(f[i]) : f[m][k] = f[i][k]
    BY <1>4, <2>2
  <2> HIDE DEF m
  <2>0. f[m] \in Seq(S) /\ s[m + 1] \in Seq(S)
    <3>1. f[m] \in Seq(S)
      BY <2>2
    <3>2. s[m + 1] \in Seq(S)
      BY <2>2
    <3> QED
      BY <3>1, <3>2
  <2>4. f[m + 1] = f[m] \o s[m + 1]
    BY <2>2 DEF IsFlat
  <2>5. /\ Len(f[m]) <= Len(f[m + 1])
        /\ \A k \in 1..Len(f[m]) : f[m + 1][k] = f[m][k]
        /\ Len(f[m]) \in Nat /\ Len(f[m + 1]) \in Nat
    <3> DEFINE a == f[m]
               b == s[m + 1]
               c == a \o b
    <3>1. a \in Seq(S) /\ b \in Seq(S) /\ f[m + 1] = c
      BY <2>0, <2>4
    <3> HIDE DEF a, b
    <3>2. /\ Len(a) \in Nat /\ Len(b) \in Nat /\ Len(c) = Len(a) + Len(b)
          /\ \A k \in 1..Len(a) : c[k] = a[k]
      BY <3>1, Joined
    <3> HIDE DEF c
    <3>3. Len(a) <= Len(c) /\ Len(c) \in Nat
      BY <3>2
    <3> QED
      BY <3>1, <3>2, <3>3 DEF a
  <2>7. \A k \in 1..Len(f[i]) : k \in 1..Len(f[m])
    BY <1>2, <2>3, <2>5
  <2>8. Len(f[i]) <= Len(f[m + 1])
    BY <1>2, <2>3, <2>5
  <2> QED
    BY <2>2, <2>3, <2>5, <2>7, <2>8
<1>5. j - i \in Nat /\ i + (j - i) = j
  BY <1>1
<1>6. j - i \in T
  <2> HIDE DEF T
  <2> QED
    BY <1>3, <1>4, <1>5, NatSetInduction
<1> QED
  BY <1>5, <1>6 DEF StartsWith

-----------------------------------------------------------------------------
(* Strings, and the order of their names.  RFC 8785 compares UTF-16 units. *)

(* A string of code points. *)
IsString(s) == s \in Seq(Nat) /\ \A i \in 1..Len(s) : Texts!IsCodePoint(s[i])

(* The one or two UTF-16 units of a character, and those of each of a string. *)
Units(p) ==
  IF p < 65536 THEN <<p>>
  ELSE <<55296 + ((p - 65536) \div 1024), 56320 + ((p - 65536) % 1024)>>

UnitsOf(s) == [i \in DOMAIN s |-> Units(s[i])]

(* A character has one unit, or a high and a low half.                     *)
LEMMA UnitsAre ==
  ASSUME NEW p \in Nat, Texts!IsCodePoint(p)
  PROVE  /\ Units(p) \in Seq(Nat)
         /\ p < 65536 => Len(Units(p)) = 1 /\ Units(p)[1] = p
         /\ ~ (p < 65536) => /\ Len(Units(p)) = 2
                             /\ Units(p)[1] = 55296 + ((p - 65536) \div 1024)
                             /\ Units(p)[2] = 56320 + ((p - 65536) % 1024)
<1>1. CASE p < 65536
  BY <1>1, SMT DEF Units
<1>2. CASE ~ (p < 65536)
  <2> DEFINE h == 55296 + ((p - 65536) \div 1024)
             l == 56320 + ((p - 65536) % 1024)
  <2>1. h \in Nat /\ l \in Nat
    BY <1>2, SMT
  <2>2. Units(p) = <<h, l>>
    BY <1>2, SMT DEF Units
  <2>3. ~ (p < 65536)
    BY <1>2, SMT
  <2> HIDE DEF h, l
  <2>4. Units(p) \in Seq(Nat) /\ Len(Units(p)) = 2 /\ Units(p)[1] = h /\ Units(p)[2] = l
    BY <2>1, <2>2, SMT
  <2> QED
    BY <2>3, <2>4, SMT DEF h, l
<1> QED
  BY <1>1, <1>2, SMT

(* Numbers are in the order of their halves.                               *)
LEMMA ByHalves ==
  ASSUME NEW m \in Nat, NEW n \in Nat, m < n
  PROVE  m \div 1024 < n \div 1024 \/ (m \div 1024 = n \div 1024 /\ m % 1024 < n % 1024)
BY SMT

(* The characters of one string come before those of another as their      *)
(* units do.                                                               *)
LEMMA UnitsDiffer ==
  ASSUME NEW p \in Nat, Texts!IsCodePoint(p), NEW q \in Nat, Texts!IsCodePoint(q),
         Texts!Rank(p) < Texts!Rank(q)
  PROVE  \E k \in {1, 2} : /\ k <= Len(Units(p)) /\ k <= Len(Units(q))
                           /\ Units(p)[k] < Units(q)[k]
                           /\ k = 2 => Units(p)[1] = Units(q)[1]
<1>1. /\ p <= 1114111 /\ (p < 55296 \/ 57343 < p)
      /\ q <= 1114111 /\ (q < 55296 \/ 57343 < q)
  BY SMT DEF Texts!IsCodePoint
<1>2. ASSUME NEW n \in Nat, ~ (n < 65536)
      PROVE  /\ (n - 65536) \div 1024 \in Nat /\ (n - 65536) % 1024 \in Nat
             /\ (n - 65536) % 1024 < 1024
             /\ n - 65536 = (1024 * ((n - 65536) \div 1024)) + ((n - 65536) % 1024)
  BY <1>2, SMT
<1>7. ASSUME NEW n \in Nat, n <= 1114111, n < 55296 \/ 57343 < n
      PROVE  /\ n < 55296 => Texts!Rank(n) = n
             /\ 57343 < n /\ n < 65536 => Texts!Rank(n) = n + 1048576
             /\ ~ (n < 65536) => Texts!Rank(n) = n - 10240
             /\ n < 55296 \/ (57343 < n /\ n < 65536) \/ ~ (n < 65536)
  BY <1>7, SMT DEF Texts!Rank
<1>3. CASE p < 65536 /\ q < 65536
  <2>1. p < q
    BY <1>1, <1>3, <1>7, SMT
  <2> QED
    BY <1>3, <2>1, UnitsAre, SMT
<1>4. CASE p < 65536 /\ ~ (q < 65536)
  <2>1. p < 55296
    BY <1>1, <1>4, <1>7, SMT
  <2>2. /\ Len(Units(p)) = 1 /\ Units(p)[1] = p
        /\ Len(Units(q)) = 2 /\ Units(q)[1] = 55296 + ((q - 65536) \div 1024)
    BY <1>4, UnitsAre, SMT
  <2>3. (q - 65536) \div 1024 \in Nat
    BY <1>2, <1>4, SMT
  <2>4. Units(p)[1] < Units(q)[1]
    BY <2>1, <2>2, <2>3, SMT
  <2> QED
    BY <2>2, <2>4, SMT
<1>5. CASE ~ (p < 65536) /\ q < 65536
  <2>1. 57343 < q
    BY <1>1, <1>5, <1>7, SMT
  <2>2. /\ Len(Units(q)) = 1 /\ Units(q)[1] = q
        /\ Len(Units(p)) = 2 /\ Units(p)[1] = 55296 + ((p - 65536) \div 1024)
    BY <1>5, UnitsAre, SMT
  <2>3. (p - 65536) \div 1024 \in Nat /\ (p - 65536) \div 1024 < 1024
    BY <1>1, <1>2, <1>5, SMT
  <2>4. Units(p)[1] < Units(q)[1]
    BY <2>1, <2>2, <2>3, SMT
  <2> QED
    BY <2>2, <2>4, SMT
<1>6. CASE ~ (p < 65536) /\ ~ (q < 65536)
  <2>1. p < q
    BY <1>1, <1>6, <1>7, SMT
  <2>2. /\ Len(Units(p)) = 2 /\ Len(Units(q)) = 2
        /\ Units(p)[1] = 55296 + ((p - 65536) \div 1024)
        /\ Units(p)[2] = 56320 + ((p - 65536) % 1024)
        /\ Units(q)[1] = 55296 + ((q - 65536) \div 1024)
        /\ Units(q)[2] = 56320 + ((q - 65536) % 1024)
    BY <1>6, UnitsAre, SMT
  <2> DEFINE ph == (p - 65536) \div 1024
             pl == (p - 65536) % 1024
             qh == (q - 65536) \div 1024
             ql == (q - 65536) % 1024
  <2>3. ph \in Nat /\ pl \in Nat /\ pl < 1024 /\ p - 65536 = (1024 * ph) + pl
    BY <1>2, <1>6, SMT
  <2>4. qh \in Nat /\ ql \in Nat /\ ql < 1024 /\ q - 65536 = (1024 * qh) + ql
    BY <1>2, <1>6, SMT
  <2>5. /\ Units(p)[1] = 55296 + ph /\ Units(p)[2] = 56320 + pl
        /\ Units(q)[1] = 55296 + qh /\ Units(q)[2] = 56320 + ql
    BY <2>2, SMT
  <2> HIDE DEF ph, pl, qh, ql
  <2>6. ph < qh \/ (ph = qh /\ pl < ql)
    <3>1. p - 65536 \in Nat /\ q - 65536 \in Nat /\ p - 65536 < q - 65536
      BY <1>6, <2>1, SMT
    <3> QED
      BY <3>1, ByHalves, SMT DEF ph, pl, qh, ql
  <2>7. \/ Units(p)[1] < Units(q)[1]
        \/ Units(p)[1] = Units(q)[1] /\ Units(p)[2] < Units(q)[2]
    BY <2>3, <2>4, <2>5, <2>6, SMT
  <2> QED
    BY <2>2, <2>7, SMT
<1> QED
  BY <1>3, <1>4, <1>5, <1>6, SMT

(* The units of a string, up to any of its characters.                     *)
LEMMA UnitsUpTo ==
  ASSUME NEW s, IsString(s)
  PROVE  /\ Texts!Utf16(s) \in Seq(Nat)
         /\ \E f \in [0..Len(s) -> Seq(Nat)] :
              /\ IsFlat(UnitsOf(s), f) /\ Len(UnitsOf(s)) = Len(s)
              /\ UnitsOf(s) \in Seq(Seq(Nat))
              /\ Texts!Utf16(s) = f[Len(s)]
<1>1. /\ Len(s) \in Nat /\ DOMAIN s = 1..Len(s)
      /\ \A i \in 1..Len(s) : s[i] \in Nat /\ Texts!IsCodePoint(s[i])
  BY DEF IsString
<1>2. UnitsOf(s) \in Seq(Seq(Nat)) /\ Len(UnitsOf(s)) = Len(s)
  <2>1. \A p \in Nat : Texts!IsCodePoint(p) => Units(p) \in Seq(Nat)
    BY UnitsAre
  <2>2. \A i \in 1..Len(s) : Units(s[i]) \in Seq(Nat)
    BY <1>1, <2>1
  <2> QED
    BY <1>1, <2>2 DEF UnitsOf
<1>3. PICK f \in [0..Len(s) -> Seq(Nat)] : IsFlat(UnitsOf(s), f)
  BY <1>2, FlatExists
<1>4. Texts!Utf16(s) = Texts!FlattenSeq(UnitsOf(s))
  BY DEF Texts!Utf16, UnitsOf, Units
<1>5. Texts!Utf16(s) = f[Len(s)]
  BY <1>2, <1>3, <1>4 DEF IsFlat
<1>6. f[Len(s)] \in Seq(Nat)
  BY <1>1
<1> QED
  BY <1>2, <1>3, <1>5, <1>6

(* CompareUTF16 decides where the units differ first, or by the lengths.   *)
LEMMA CompareIsLess ==
  ASSUME NEW a, IsString(a), NEW b, IsString(b)
  PROVE  Texts!CompareUTF16(a, b) <=> Scopes!Less(Texts!Utf16(a), Texts!Utf16(b))
<1> DEFINE aa == Texts!Utf16(a)
           bb == Texts!Utf16(b)
           Differing == {i \in DOMAIN aa \cap DOMAIN bb : aa[i] # bb[i]}
           k == Texts!FirstDifference(aa, bb)
<1>1. aa \in Seq(Nat) /\ bb \in Seq(Nat)
  BY UnitsUpTo
<1>2. /\ k = 0 => (Texts!CompareUTF16(a, b) <=> Len(aa) < Len(bb))
      /\ k # 0 => (Texts!CompareUTF16(a, b) <=> aa[k] < bb[k])
  BY DEF Texts!CompareUTF16
<1>3. k = IF Differing = {} THEN 0 ELSE CHOOSE i \in Differing : \A j \in Differing : i <= j
  BY DEF Texts!FirstDifference
<1> HIDE DEF aa, bb, k
<1>4. /\ DOMAIN aa = 1..Len(aa) /\ DOMAIN bb = 1..Len(bb)
      /\ Len(aa) \in Nat /\ Len(bb) \in Nat
      /\ \A i \in DOMAIN aa : aa[i] \in Nat
      /\ \A i \in DOMAIN bb : bb[i] \in Nat
  BY <1>1
<1>5. Scopes!Less(aa, bb)
        <=> \/ Len(aa) < Len(bb) /\ \A i \in 1..Len(aa) : aa[i] = bb[i]
            \/ \E i \in Differing : aa[i] < bb[i] /\ \A j \in 1..(i - 1) : aa[j] = bb[j]
  BY <1>4 DEF Scopes!Less
<1>6. CASE Differing = {}
  <2>1. k = 0
    BY <1>3, <1>6
  <2>2. \A i \in DOMAIN aa \cap DOMAIN bb : aa[i] = bb[i]
    BY <1>6
  <2>3. Len(aa) < Len(bb) => \A i \in 1..Len(aa) : aa[i] = bb[i]
    BY <1>4, <2>2
  <2>4. ~ \E i \in Differing : aa[i] < bb[i] /\ \A j \in 1..(i - 1) : aa[j] = bb[j]
    BY <1>6
  <2>5. Scopes!Less(aa, bb) <=> Len(aa) < Len(bb)
    <3> HIDE DEF Differing
    <3> QED
      BY <1>5, <2>3, <2>4, Zenon
  <2> QED
    BY <1>2, <2>1, <2>5 DEF aa, bb
<1>7. CASE Differing # {}
  <2>1. Differing \subseteq Nat
    BY <1>4
  <2>2. \E i \in Differing : \A j \in Differing : i <= j
    <3> HIDE DEF Differing
    <3> QED
      BY <1>7, <2>1, LeastNatural
  <2>3. k \in Differing /\ \A j \in Differing : k <= j
    <3> HIDE DEF Differing
    <3> QED
      BY <1>3, <1>7, <2>2
  <2>4. k \in 1..Len(aa) /\ k \in 1..Len(bb) /\ aa[k] # bb[k] /\ k # 0
    BY <1>4, <2>3
  <2>5. \A j \in 1..(k - 1) : aa[j] = bb[j]
    <3> TAKE j \in 1..(k - 1)
    <3>1. j \in DOMAIN aa \cap DOMAIN bb /\ ~ (k <= j)
      BY <1>4, <2>4
    <3> QED
      BY <2>3, <3>1
  <2>6. ~ (Len(aa) < Len(bb) /\ \A i \in 1..Len(aa) : aa[i] = bb[i])
    BY <2>4
  <2>7. ASSUME NEW i \in Differing, aa[i] < bb[i], \A j \in 1..(i - 1) : aa[j] = bb[j]
        PROVE  i = k
    <3>1. i \in Nat /\ k <= i
      BY <2>1, <2>3
    <3>2. ~ (k < i)
      BY <2>4, <2>7, <3>1
    <3> QED
      BY <2>4, <3>1, <3>2
  <2>8. Scopes!Less(aa, bb) <=> aa[k] < bb[k]
    <3> HIDE DEF Differing
    <3> QED
      BY <1>5, <2>3, <2>5, <2>6, <2>7, Zenon
  <2>9. k # 0
    BY <2>4
  <2> QED
    BY <1>2, <2>8, <2>9 DEF aa, bb
<1> QED
  BY <1>6, <1>7 DEF aa, bb

(* Two characters have two ranks.                                          *)
LEMMA RankIs ==
  ASSUME NEW p \in Nat, Texts!IsCodePoint(p), NEW q \in Nat, Texts!IsCodePoint(q), p # q
  PROVE  Texts!Rank(p) < Texts!Rank(q) \/ Texts!Rank(q) < Texts!Rank(p)
<1>1. /\ p <= 1114111 /\ (p < 55296 \/ 57343 < p)
      /\ q <= 1114111 /\ (q < 55296 \/ 57343 < q)
  BY SMT DEF Texts!IsCodePoint
<1>2. ASSUME NEW n \in Nat, n <= 1114111, n < 55296 \/ 57343 < n
      PROVE  /\ n < 55296 => Texts!Rank(n) = n
             /\ 57343 < n /\ n < 65536 => Texts!Rank(n) = n + 1048576
             /\ ~ (n < 65536) => Texts!Rank(n) = n - 10240
  BY <1>2, SMT DEF Texts!Rank
<1> QED
  BY <1>1, <1>2, SMT

(* Of two names, one precedes the other.                                   *)
LEMMA OnePrecedes ==
  ASSUME NEW a, IsString(a), NEW b, IsString(b), a # b
  PROVE  Texts!Precedes(a, b) \/ Texts!Precedes(b, a)
<1> DEFINE Differing == {i \in 1..Len(a) \cap 1..Len(b) : a[i] # b[i]}
<1>1. /\ a \in Seq(Nat) /\ b \in Seq(Nat)
      /\ \A i \in 1..Len(a) : a[i] \in Nat /\ Texts!IsCodePoint(a[i])
      /\ \A i \in 1..Len(b) : b[i] \in Nat /\ Texts!IsCodePoint(b[i])
  BY DEF IsString
<1>2. Len(a) \in Nat /\ Len(b) \in Nat
  BY <1>1
<1>3. CASE Differing = {}
  <2>1. \A i \in 1..Len(a) \cap 1..Len(b) : a[i] = b[i]
    BY <1>3
  <2>2. ASSUME Len(a) = Len(b) PROVE FALSE
    <3>1. \A i \in 1..Len(a) : a[i] = b[i]
      BY <2>1, <2>2
    <3> HIDE DEF Differing
    <3>2. a = b
      BY <1>1, <2>2, <3>1
    <3> QED
      BY <3>2
  <2>3. CASE Len(a) < Len(b)
    <3>1. Len(a) \in 0..Len(a) /\ \A i \in 1..Len(a) : a[i] = b[i]
      BY <1>2, <2>1, <2>3
    <3> QED
      BY <2>3, <3>1 DEF Texts!Precedes
  <2>4. CASE Len(b) < Len(a)
    <3>1. Len(b) \in 0..Len(b) /\ \A i \in 1..Len(b) : b[i] = a[i]
      BY <1>2, <2>1, <2>4
    <3> QED
      BY <2>4, <3>1 DEF Texts!Precedes
  <2> QED
    BY <1>2, <2>2, <2>3, <2>4
<1>4. CASE Differing # {}
  <2>1. Differing \subseteq Nat
    BY <1>2
  <2>2. PICK k \in Differing : \A j \in Differing : k <= j
    <3> HIDE DEF Differing
    <3> QED
      BY <1>4, <2>1, LeastNatural
  <2>3. k \in 1..Len(a) /\ k \in 1..Len(b) /\ a[k] # b[k]
    OBVIOUS
  <2> DEFINE n == k - 1
  <2>4. /\ n \in 0..Len(a) /\ n \in 0..Len(b) /\ n < Len(a) /\ n < Len(b)
        /\ n + 1 = k
    BY <1>2, <2>3
  <2>5. \A i \in 1..n : a[i] = b[i]
    <3> TAKE i \in 1..n
    <3>1. i \in 1..Len(a) \cap 1..Len(b) /\ ~ (k <= i)
      BY <1>2, <2>3
    <3> QED
      BY <2>2, <3>1
  <2> HIDE DEF n
  <2>6. Texts!Rank(a[k]) < Texts!Rank(b[k]) \/ Texts!Rank(b[k]) < Texts!Rank(a[k])
    BY <1>1, <2>3, RankIs
  <2>7. ASSUME Texts!Rank(a[k]) < Texts!Rank(b[k]) PROVE Texts!Precedes(a, b)
    BY <2>4, <2>5, <2>7 DEF Texts!Precedes
  <2>8. ASSUME Texts!Rank(b[k]) < Texts!Rank(a[k]) PROVE Texts!Precedes(b, a)
    <3>1. \A i \in 1..n : b[i] = a[i]
      BY <2>5
    <3> QED
      BY <2>4, <3>1, <2>8 DEF Texts!Precedes
  <2> QED
    BY <2>6, <2>7, <2>8
<1> QED
  BY <1>3, <1>4

(* The units of a string are those of its beginning, then those of the     *)
(* next character.                                                         *)
UnitsThere(s, f, n) ==
  /\ f[n] \in Seq(Nat) /\ Len(f[n]) \in Nat
  /\ s[n + 1] \in Nat /\ Texts!IsCodePoint(s[n + 1])
  /\ Len(Units(s[n + 1])) \in Nat /\ Len(Units(s[n + 1])) > 0
  /\ f[n + 1] = f[n] \o Units(s[n + 1])
  /\ \A k \in 1..Len(f[n]) : k \in 1..Len(f[Len(s)]) /\ f[Len(s)][k] = f[n][k]
  /\ \A k \in 1..Len(Units(s[n + 1])) :
       /\ Len(f[n]) + k \in 1..Len(f[Len(s)])
       /\ f[Len(s)][Len(f[n]) + k] = Units(s[n + 1])[k]

(* So it is at any of its characters.                                      *)
LEMMA UnitsAt ==
  ASSUME NEW s, IsString(s), NEW f \in [0..Len(s) -> Seq(Nat)], IsFlat(UnitsOf(s), f),
         NEW n \in Nat, n < Len(s)
  PROVE  UnitsThere(s, f, n)
<1> DEFINE l == Len(s)
           u == Units(s[n + 1])
           a == f[n]
           b == f[n + 1]
           c == f[l]
<1>1. /\ l \in Nat /\ DOMAIN s = 1..l
      /\ s[n + 1] \in Nat /\ Texts!IsCodePoint(s[n + 1])
  BY DEF IsString
<1>2. u \in Seq(Nat) /\ Len(u) \in Nat /\ Len(u) > 0
  BY <1>1, UnitsAre, SMT
<1>3. UnitsOf(s) \in Seq(Seq(Nat)) /\ Len(UnitsOf(s)) = l
  BY UnitsUpTo
<1>4. n + 1 \in 1..l /\ (n + 1) - 1 = n /\ n + 1 \in 0..l /\ l \in 0..l /\ n \in 0..l
  BY <1>1
<1>5. a \in Seq(Nat) /\ b \in Seq(Nat) /\ c \in Seq(Nat)
  BY <1>4
<1>6. UnitsOf(s)[n + 1] = u
  BY <1>1, <1>4 DEF UnitsOf
<1>7. b = a \o u
  <2>1. f[n + 1] = f[(n + 1) - 1] \o UnitsOf(s)[n + 1]
    BY <1>3, <1>4, Zenon DEF IsFlat
  <2> QED
    BY <1>4, <1>6, <2>1
<1>8. Len(b) <= Len(c) /\ \A k \in 1..Len(b) : c[k] = b[k]
  <2>1. n + 1 <= l
    BY <1>1
  <2> DEFINE t == UnitsOf(s)
  <2>2. /\ t \in Seq(Seq(Nat)) /\ f \in [0..Len(t) -> Seq(Nat)] /\ IsFlat(t, f)
        /\ n + 1 \in 0..Len(t) /\ l \in 0..Len(t)
    BY <1>3, <1>4
  <2> DEFINE m == n + 1
  <2>3. m \in 0..Len(t) /\ m <= l /\ b = f[m]
    BY <2>1, <2>2
  <2> HIDE DEF t, l, m, b
  <2>4. StartsWith(f[l], f[m])
    BY <2>2, <2>3, FlatBegins
  <2> QED
    BY <2>3, <2>4 DEF StartsWith
<1> HIDE DEF l, u, a, b, c
<1>9. /\ Len(a) \in Nat /\ Len(b) = Len(a) + Len(u)
      /\ \A k \in 1..Len(a) : k \in 1..Len(b) /\ b[k] = a[k]
      /\ \A k \in 1..Len(u) : Len(a) + k \in 1..Len(b) /\ b[Len(a) + k] = u[k]
  BY <1>2, <1>5, <1>7, Joined
<1>10. Len(c) \in Nat /\ Len(b) \in Nat
  BY <1>5
<1>11. \A k \in 1..Len(b) : k \in 1..Len(c)
  BY <1>8, <1>10
<1>12. \A k \in 1..Len(a) : k \in 1..Len(c) /\ c[k] = a[k]
  BY <1>8, <1>9, <1>11, Zenon
<1>13. \A k \in 1..Len(u) : Len(a) + k \in 1..Len(c) /\ c[Len(a) + k] = u[k]
  BY <1>8, <1>9, <1>11, Zenon
<1> QED
  BY <1>1, <1>2, <1>5, <1>7, <1>9, <1>12, <1>13 DEF l, u, a, b, c, UnitsThere

(* A name that precedes another does so by its units: this is where halves *)
(* of surrogate pairs must come before U+E000.                             *)
LEMMA PrecedesIsLess ==
  ASSUME NEW a, IsString(a), NEW b, IsString(b), Texts!Precedes(a, b)
  PROVE  Scopes!Less(Texts!Utf16(a), Texts!Utf16(b))
<1>1. PICK n \in 0..Len(a) : /\ n < Len(b) /\ \A i \in 1..n : a[i] = b[i]
                             /\ n = Len(a) \/ Texts!Rank(a[n + 1]) < Texts!Rank(b[n + 1])
  BY DEF Texts!Precedes
<1>2. PICK f \in [0..Len(a) -> Seq(Nat)] :
        IsFlat(UnitsOf(a), f) /\ Texts!Utf16(a) = f[Len(a)]
  BY UnitsUpTo
<1>3. PICK g \in [0..Len(b) -> Seq(Nat)] :
        IsFlat(UnitsOf(b), g) /\ Texts!Utf16(b) = g[Len(b)]
  BY UnitsUpTo
<1>4. Len(a) \in Nat /\ Len(b) \in Nat /\ n \in Nat /\ n <= Len(a)
  BY DEF IsString
<1> DEFINE T == {i \in Nat : i <= n => f[i] = g[i]}
<1>5. 0 \in T
  BY <1>2, <1>3 DEF IsFlat
<1>6. ASSUME NEW i \in Nat, i \in T PROVE i + 1 \in T
  <2>1. SUFFICES ASSUME i + 1 <= n PROVE f[i + 1] = g[i + 1]
    OBVIOUS
  <2>2. i < Len(a) /\ i < Len(b) /\ i <= n /\ i + 1 \in 1..n
    BY <1>1, <1>4, <2>1
  <2>3. f[i + 1] = f[i] \o Units(a[i + 1]) /\ g[i + 1] = g[i] \o Units(b[i + 1])
    BY <1>2, <1>3, <2>2, UnitsAt DEF UnitsThere
  <2>4. f[i] = g[i] /\ a[i + 1] = b[i + 1]
    BY <1>1, <1>6, <2>2
  <2> QED
    BY <2>3, <2>4
<1>7. f[n] = g[n]
  <2>1. n \in T
    <3> HIDE DEF T
    <3> QED
      BY <1>4, <1>5, <1>6, NatSetInduction
  <2> QED
    BY <1>4, <2>1
<1> DEFINE aa == f[Len(a)]
           bb == g[Len(b)]
           p == Len(f[n])
           v == Units(b[n + 1])
<1>8. aa \in Seq(Nat) /\ bb \in Seq(Nat)
  BY <1>2, <1>3, UnitsUpTo
<1>9. /\ f[n] \in Seq(Nat) /\ p \in Nat
      /\ b[n + 1] \in Nat /\ Texts!IsCodePoint(b[n + 1])
      /\ Len(v) \in Nat /\ Len(v) > 0
      /\ \A k \in 1..p : k \in 1..Len(bb) /\ bb[k] = f[n][k]
      /\ \A k \in 1..Len(v) : p + k \in 1..Len(bb) /\ bb[p + k] = v[k]
  <2>1. /\ g[n] \in Seq(Nat) /\ Len(g[n]) \in Nat
        /\ b[n + 1] \in Nat /\ Texts!IsCodePoint(b[n + 1])
        /\ Len(v) \in Nat /\ Len(v) > 0
        /\ \A k \in 1..Len(g[n]) : k \in 1..Len(bb) /\ bb[k] = g[n][k]
        /\ \A k \in 1..Len(v) : Len(g[n]) + k \in 1..Len(bb) /\ bb[Len(g[n]) + k] = v[k]
    <3>1. UnitsThere(b, g, n)
      BY <1>1, <1>3, <1>4, UnitsAt
    <3> QED
      BY <3>1 DEF UnitsThere
  <2> HIDE DEF v, bb
  <2> QED
    BY <1>7, <2>1
<1> HIDE DEF T, v
<1>10. Len(aa) \in Nat /\ Len(bb) \in Nat /\ DOMAIN aa = 1..Len(aa) /\ DOMAIN bb = 1..Len(bb)
  BY <1>8
<1>11. CASE n = Len(a)
  <2>1. aa = f[n] /\ p = Len(aa)
    BY <1>11
  <2>2. \A k \in 1..Len(aa) : aa[k] = bb[k]
    BY <1>9, <2>1
  <2>3. p + 1 \in 1..Len(bb)
    BY <1>9
  <2> HIDE DEF aa, bb, p
  <2>4. Len(aa) < Len(bb)
    BY <1>10, <2>1, <2>3
  <2>5. Scopes!Less(aa, bb)
    BY <1>10, <2>2, <2>4 DEF Scopes!Less
  <2> QED
    BY <1>2, <1>3, <2>5 DEF aa, bb
<1>12. CASE n # Len(a)
  <2> DEFINE u == Units(a[n + 1])
  <2>1. n < Len(a)
    BY <1>4, <1>12
  <2>2. /\ a[n + 1] \in Nat /\ Texts!IsCodePoint(a[n + 1])
        /\ Len(u) \in Nat
        /\ \A k \in 1..p : k \in 1..Len(aa) /\ aa[k] = f[n][k]
        /\ \A k \in 1..Len(u) : p + k \in 1..Len(aa) /\ aa[p + k] = u[k]
    <3>1. UnitsThere(a, f, n)
      BY <1>2, <1>4, <2>1, UnitsAt
    <3> QED
      BY <3>1 DEF UnitsThere
  <2>3. PICK k \in {1, 2} : /\ k <= Len(u) /\ k <= Len(v) /\ u[k] < v[k]
                            /\ k = 2 => u[1] = v[1]
    <3>1. Texts!Rank(a[n + 1]) < Texts!Rank(b[n + 1])
      BY <1>1, <1>12
    <3> DEFINE x == a[n + 1]
               y == b[n + 1]
    <3>2. /\ x \in Nat /\ Texts!IsCodePoint(x) /\ y \in Nat /\ Texts!IsCodePoint(y)
          /\ Texts!Rank(x) < Texts!Rank(y) /\ u = Units(x) /\ v = Units(y)
      BY <1>9, <2>2, <3>1 DEF v
    <3> HIDE DEF x, y, u
    <3>3. \E k \in {1, 2} : /\ k <= Len(Units(x)) /\ k <= Len(Units(y))
                            /\ Units(x)[k] < Units(y)[k]
                            /\ k = 2 => Units(x)[1] = Units(y)[1]
      BY <3>2, UnitsDiffer
    <3> QED
      BY <3>2, <3>3
  <2> HIDE DEF aa, bb, p, u
  <2>4. k \in 1..Len(u) /\ k \in 1..Len(v)
    BY <1>9, <2>2, <2>3
  <2>5. /\ p + k \in 1..Len(aa) /\ p + k \in 1..Len(bb)
        /\ aa[p + k] = u[k] /\ bb[p + k] = v[k]
    BY <1>9, <2>2, <2>4
  <2>6. aa[p + k] < bb[p + k]
    BY <2>3, <2>5
  <2> DEFINE i == p + k
  <2>7. ASSUME NEW j \in 1..(i - 1) PROVE aa[j] = bb[j]
    <3>1. CASE j \in 1..p
      BY <1>9, <2>2, <3>1
    <3>2. CASE ~ (j \in 1..p)
      <4>1. k = 2 /\ j = p + 1 /\ 1 \in 1..Len(u) /\ 1 \in 1..Len(v)
        BY <1>9, <2>2, <2>3, <2>4, <3>2
      <4>2. aa[p + 1] = u[1] /\ bb[p + 1] = v[1]
        BY <1>9, <2>2, <4>1
      <4> QED
        BY <2>3, <4>1, <4>2
    <3> QED
      BY <3>1, <3>2
  <2>9. i \in DOMAIN aa \cap DOMAIN bb /\ aa[i] < bb[i]
    BY <1>10, <2>5, <2>6
  <2> HIDE DEF i
  <2>8. Scopes!Less(aa, bb)
    BY <2>7, <2>9 DEF Scopes!Less
  <2> QED
    BY <1>2, <1>3, <2>8 DEF aa, bb
<1> QED
  BY <1>11, <1>12

LEMMA SameCount == \A S : Texts!Cardinality(S) = Cardinality(S)
  BY DEF Cardinality, Texts!Cardinality

(* The names of an object in an order that sort.Slice may leave them in.   *)
IsSorted(names, order) ==
  /\ order \in Seq(names) /\ Len(order) \in Nat
  /\ \A n \in names : \E i \in 1..Len(order) : order[i] = n
  /\ \A i, j \in 1..Len(order) : i < j => Texts!Precedes(order[i], order[j])

(* sort.Slice leaves the names of an object in the order of RFC 8785.      *)
LEMMA SortedAre ==
  ASSUME NEW names, IsFiniteSet(names), \A n \in names : IsString(n),
         NEW order \in Texts!SortedNames(names)
  PROVE  IsSorted(names, order)
<1> DEFINE l == Cardinality(names)
<1>1. l \in Nat
  BY FS_CardinalityType
<1>2. /\ order \in [1..l -> names]
      /\ \A i, j \in 1..l : i # j => order[i] # order[j]
      /\ \A i, j \in DOMAIN order : i < j => ~ Texts!CompareUTF16(order[j], order[i])
  BY SameCount DEF Texts!SortedNames, Texts!SetToSeqs
<1> HIDE DEF l
<1>3. order \in Seq(names) /\ Len(order) = l /\ DOMAIN order = 1..l
  BY <1>1, <1>2
<1>4. order \in Injection(1..l, names)
  <2>1. IsInjective(order)
    BY <1>2, <1>3 DEF IsInjective
  <2> QED
    BY <1>2, <2>1 DEF Injection
<1>5. order \in Surjection(1..l, names)
  <2>1. Cardinality(1..l) = IF 1 > l THEN 0 ELSE l - 1 + 1
    BY <1>1, FS_Interval
  <2>2. Cardinality(1..l) = l
    BY <1>1, <2>1
  <2> QED
    BY <1>4, <2>2, FS_Injection DEF l
<1>6. \A n \in names : \E i \in 1..l : order[i] = n
  BY <1>5 DEF Surjection
<1>7. ASSUME NEW i \in 1..l, NEW j \in 1..l, i < j
      PROVE  Texts!Precedes(order[i], order[j])
  <2> DEFINE a == order[i]
             b == order[j]
  <2>1. a \in names /\ b \in names /\ a # b /\ ~ Texts!CompareUTF16(b, a)
    BY <1>1, <1>2, <1>3, <1>7
  <2> HIDE DEF a, b
  <2>2. IsString(a) /\ IsString(b)
    BY <2>1
  <2>3. ~ Texts!Precedes(b, a)
    BY <2>1, <2>2, PrecedesIsLess, CompareIsLess
  <2>4. Texts!Precedes(a, b)
    BY <2>1, <2>2, <2>3, OnePrecedes
  <2> QED
    BY <2>4 DEF a, b
<1> QED
  BY <1>1, <1>3, <1>6, <1>7 DEF IsSorted

(* So there is one order it can leave them in.                             *)
LEMMA OneOrder ==
  ASSUME NEW names, IsFiniteSet(names), \A n \in names : IsString(n),
         NEW a \in Texts!SortedNames(names), NEW b \in Texts!SortedNames(names)
  PROVE  a = b
<1> DEFINE R == {p \in names \X names : Scopes!Less(Texts!Utf16(p[1]), Texts!Utf16(p[2]))}
<1>1. /\ a \in Seq(names) /\ Len(a) \in Nat
      /\ b \in Seq(names) /\ Len(b) \in Nat
      /\ \A n \in names : \E i \in 1..Len(a) : a[i] = n
      /\ \A n \in names : \E i \in 1..Len(b) : b[i] = n
      /\ \A i, j \in 1..Len(a) : i < j => Texts!Precedes(a[i], a[j])
      /\ \A i, j \in 1..Len(b) : i < j => Texts!Precedes(b[i], b[j])
  <2>1. IsSorted(names, a) /\ IsSorted(names, b)
    BY SortedAre
  <2> QED
    BY <2>1 DEF IsSorted
<1>2. /\ \A i \in 1..Len(a) : a[i] \in names
      /\ \A i \in 1..Len(b) : b[i] \in names
  <2>1. a \in Seq(names) /\ b \in Seq(names)
    BY <1>1
  <2> QED
    BY ONLY <2>1
<1>3. ASSUME NEW m \in names, NEW n \in names, Texts!Precedes(m, n) PROVE <<m, n>> \in R
  BY <1>3, PrecedesIsLess
<1>4. IsStrict(R)
  <2>1. SUFFICES ASSUME NEW m \in names, NEW n \in names,
                        Scopes!Less(Texts!Utf16(m), Texts!Utf16(n)),
                        Scopes!Less(Texts!Utf16(n), Texts!Utf16(m))
                 PROVE  FALSE
    BY DEF IsStrict
  <2>2. Texts!Utf16(m) \in Seq(Nat) /\ Texts!Utf16(n) \in Seq(Nat)
    BY UnitsUpTo
  <2> QED
    BY <2>1, <2>2, LessIsTransitive, LessIsStrict
<1> HIDE DEF R
<1>5. AllInOrder(Len(a), a, R) /\ AllInOrder(Len(b), b, R)
  BY <1>1, <1>2, <1>3 DEF AllInOrder
<1>6. SameItems(Len(a), a, Len(b), b)
  BY <1>1, <1>2 DEF SameItems
<1>7. Len(a) = Len(b) /\ Agree(Len(a), a, b)
  BY <1>1, <1>4, <1>5, <1>6, OrderedIsOne, Zenon
<1>8. \A i \in 1..Len(a) : a[i] = b[i]
  BY <1>7 DEF Agree
<1>9. a \in Seq(names) /\ b \in Seq(names) /\ Len(a) = Len(b)
  BY <1>1, <1>7
<1> QED
  BY <1>8, <1>9

-----------------------------------------------------------------------------
(* Writing: at most one text for each value *)

JsonToken ==
  {Texts!SymbolToken(s) : s \in Texts!Symbol}
    \cup {Texts!StringToken(s) :
            s \in {x \in Seq([point : Nat, spelling : Texts!Spelling]) : Texts!IsSpelledString(x)}}

(* At most one text, of tokens. *)
AtMostOne(set) == set \subseteq Seq(JsonToken) /\ \A x, y \in set : x = y

WrittenOnce(v) == AtMostOne(CanonicalForms(v))

IsSequence(s) == \E S : s \in Seq(S)

LEMMA Sequences ==
  /\ IsSequence(<<>>)
  /\ \A s : IsSequence(s) => DOMAIN s = 1..Len(s) /\ Len(s) \in Nat
  /\ \A s, x : IsSequence(s) =>
       /\ IsSequence(Append(s, x)) /\ Len(Append(s, x)) = Len(s) + 1
       /\ Append(s, x)[Len(s) + 1] = x
       /\ \A i \in 1..Len(s) : Append(s, x)[i] = s[i]
<1>1. IsSequence(<<>>)
  <2>1. <<>> \in Seq({})
    OBVIOUS
  <2> QED
    BY <2>1 DEF IsSequence
<1>2. \A s : IsSequence(s) => DOMAIN s = 1..Len(s) /\ Len(s) \in Nat
  BY DEF IsSequence
<1>3. ASSUME NEW s, NEW x, IsSequence(s)
      PROVE  /\ IsSequence(Append(s, x)) /\ Len(Append(s, x)) = Len(s) + 1
             /\ Append(s, x)[Len(s) + 1] = x
             /\ \A i \in 1..Len(s) : Append(s, x)[i] = s[i]
  <2>1. PICK S : s \in Seq(S)
    BY <1>3 DEF IsSequence
  <2> DEFINE T == S \cup {x}
  <2>2. s \in Seq(T) /\ x \in T
    BY <2>1
  <2> HIDE DEF T
  <2>3. Append(s, x) \in Seq(T)
    BY <2>2
  <2>4. /\ Len(Append(s, x)) = Len(s) + 1
        /\ Append(s, x)[Len(s) + 1] = x
        /\ \A i \in 1..Len(s) : Append(s, x)[i] = s[i]
    BY <2>2
  <2> QED
    BY <2>3, <2>4 DEF IsSequence
<1> QED
  BY <1>1, <1>2, <1>3

(* What each kind of value is written as, unfolded once.                   *)
LEMMA TextsAre ==
  ASSUME Texts!WritingAssumption
  PROVE  /\ CanonicalForms(Texts!AtomValue("inexact")) = {}
         /\ \A k \in {"null", "number"} :
              CanonicalForms(Texts!AtomValue(k)) = {<<Texts!SymbolToken(k)>>}
         /\ \A s : CanonicalForms(Texts!StringValue(s))
                     = {<<Texts!StringToken(Texts!CanonicalString(s))>>}
         /\ \A items :
              CanonicalForms(Texts!ArrayValue(items))
                = Texts!Enclosed("[",
                    Texts!OneOfEach([i \in DOMAIN items |-> CanonicalForms(items[i])]), "]")
         /\ \A members :
              CanonicalForms(Texts!ObjectValue(members))
                = UNION {Texts!Enclosed("{",
                           Texts!OneOfEach(Texts!Members(members, order, CanonicalForms)), "}") :
                           order \in Texts!SortedNames(DOMAIN members)}
<1>1. \A v : CanonicalForms(v) = Texts!TextsOf(v, CanonicalForms)
  BY DEF Texts!WritingAssumption
<1>2. CanonicalForms(Texts!AtomValue("inexact")) = {}
  BY <1>1 DEF Texts!TextsOf, Texts!AtomValue, Texts!Atom
<1>3. \A k \in {"null", "number"} :
        CanonicalForms(Texts!AtomValue(k)) = {<<Texts!SymbolToken(k)>>}
  BY <1>1 DEF Texts!TextsOf, Texts!AtomValue, Texts!Atom
<1>4. \A s : CanonicalForms(Texts!StringValue(s))
               = {<<Texts!StringToken(Texts!CanonicalString(s))>>}
  BY <1>1 DEF Texts!TextsOf, Texts!StringValue, Texts!Atom
<1>5. \A items :
        CanonicalForms(Texts!ArrayValue(items))
          = Texts!Enclosed("[",
              Texts!OneOfEach([i \in DOMAIN items |-> CanonicalForms(items[i])]), "]")
  <2> TAKE items
  <2> DEFINE v == Texts!ArrayValue(items)
  <2>1. v.kind = "array" /\ v.items = items
    BY DEF Texts!ArrayValue
  <2> HIDE DEF v
  <2>2. Texts!TextsOf(v, CanonicalForms)
          = Texts!Enclosed("[",
              Texts!OneOfEach([i \in DOMAIN v.items |-> CanonicalForms(v.items[i])]), "]")
    BY <2>1 DEF Texts!TextsOf, Texts!Atom
  <2>3. CanonicalForms(v) = Texts!TextsOf(v, CanonicalForms)
    BY <1>1
  <2>4. CanonicalForms(v)
          = Texts!Enclosed("[",
              Texts!OneOfEach([i \in DOMAIN v.items |-> CanonicalForms(v.items[i])]), "]")
    BY <2>2, <2>3, Zenon
  <2> QED
    BY <2>1, <2>4, Zenon DEF v
<1>6. \A members :
        CanonicalForms(Texts!ObjectValue(members))
          = UNION {Texts!Enclosed("{",
                     Texts!OneOfEach(Texts!Members(members, order, CanonicalForms)), "}") :
                     order \in Texts!SortedNames(DOMAIN members)}
  <2> TAKE members
  <2> DEFINE v == Texts!ObjectValue(members)
  <2>1. v.kind = "object" /\ v.members = members
    BY DEF Texts!ObjectValue
  <2> HIDE DEF v
  <2>2. Texts!TextsOf(v, CanonicalForms)
          = UNION {Texts!Enclosed("{",
                     Texts!OneOfEach(Texts!Members(v.members, order, CanonicalForms)), "}") :
                     order \in Texts!SortedNames(DOMAIN v.members)}
    BY <2>1 DEF Texts!TextsOf, Texts!Atom
  <2>3. CanonicalForms(v) = Texts!TextsOf(v, CanonicalForms)
    BY <1>1
  <2>4. CanonicalForms(v)
          = UNION {Texts!Enclosed("{",
                     Texts!OneOfEach(Texts!Members(v.members, order, CanonicalForms)), "}") :
                     order \in Texts!SortedNames(DOMAIN v.members)}
    BY <2>2, <2>3, Zenon
  <2> QED
    BY <2>1, <2>4, Zenon DEF v
<1> QED
  BY <1>2, <1>3, <1>4, <1>5, <1>6

(* The canonical spelling of a string is a token.                          *)
LEMMA CanonicalSpelling ==
  ASSUME NEW s, IsString(s)
  PROVE  <<Texts!StringToken(Texts!CanonicalString(s))>> \in Seq(JsonToken)
<1> DEFINE c == Texts!CanonicalString(s)
<1>1. /\ DOMAIN s = 1..Len(s) /\ Len(s) \in Nat
      /\ \A i \in 1..Len(s) : s[i] \in Nat /\ Texts!IsCodePoint(s[i])
  BY DEF IsString
<1>2. /\ DOMAIN c = 1..Len(s)
      /\ \A i \in 1..Len(s) : c[i] \in [point : Nat, spelling : Texts!Spelling]
      /\ \A i \in 1..Len(s) : c[i].point = s[i]
  BY <1>1 DEF Texts!CanonicalString, Texts!Spelling
<1>3. c \in Seq([point : Nat, spelling : Texts!Spelling])
  <2>1. c = [i \in 1..Len(s) |-> c[i]]
    BY <1>1 DEF Texts!CanonicalString
  <2> HIDE DEF c
  <2> QED
    BY <1>1, <1>2, <2>1
<1> HIDE DEF c
<1>4. Texts!IsSpelledString(c)
  BY <1>1, <1>2, <1>3 DEF Texts!IsSpelledString
<1>5. Texts!StringToken(c) \in JsonToken
  BY <1>3, <1>4 DEF JsonToken
<1> QED
  BY <1>5 DEF c

(* A text in brackets is one text.                                         *)
LEMMA EnclosedOnce ==
  ASSUME NEW set, AtMostOne(set), NEW a \in Texts!Symbol, NEW b \in Texts!Symbol
  PROVE  AtMostOne(Texts!Enclosed(a, set, b))
<1>1. /\ <<Texts!SymbolToken(a)>> \in Seq(JsonToken)
      /\ <<Texts!SymbolToken(b)>> \in Seq(JsonToken)
  <2>1. Texts!SymbolToken(a) \in JsonToken /\ Texts!SymbolToken(b) \in JsonToken
    BY DEF JsonToken
  <2> QED
    BY <2>1
<1> DEFINE f(x) == <<Texts!SymbolToken(a)>> \o x \o <<Texts!SymbolToken(b)>>
<1>2. \A x \in Seq(JsonToken) : f(x) \in Seq(JsonToken)
  BY <1>1
<1>3. Texts!Enclosed(a, set, b) = {f(x) : x \in set}
  BY DEF Texts!Enclosed
<1> HIDE DEF f
<1> QED
  BY <1>2, <1>3 DEF AtMostOne

(* One of each, if there is one of each.                                   *)
LEMMA OneOfEachOnce ==
  ASSUME NEW l \in Nat, NEW sets, DOMAIN sets = 1..l, \A i \in 1..l : AtMostOne(sets[i])
  PROVE  AtMostOne(Texts!OneOfEach(sets))
<1> DEFINE C == {c \in [DOMAIN sets -> UNION {sets[i] : i \in DOMAIN sets}] :
                   \A i \in DOMAIN sets : c[i] \in sets[i]}
<1>1. Texts!OneOfEach(sets) = {Texts!FlattenSeq(c) : c \in C}
  BY DEF Texts!OneOfEach
<1>2. ASSUME NEW c \in C PROVE Texts!FlattenSeq(c) \in Seq(JsonToken)
  <2>1. DOMAIN c = 1..l /\ c = [i \in 1..l |-> c[i]]
    OBVIOUS
  <2>2. \A i \in 1..l : c[i] \in Seq(JsonToken)
    BY DEF AtMostOne
  <2>3. c \in Seq(Seq(JsonToken))
    <3> HIDE DEF C
    <3> QED
      BY <2>1, <2>2
  <2>4. PICK f \in [0..Len(c) -> Seq(JsonToken)] : IsFlat(c, f)
    BY <2>3, FlatExists
  <2>5. Len(c) \in 0..Len(c)
    BY <2>3
  <2>6. f[Len(c)] \in Seq(JsonToken)
    BY <2>5
  <2> QED
    BY <2>4, <2>6 DEF IsFlat
<1>3. ASSUME NEW c \in C, NEW d \in C PROVE c = d
  <2>1. \A i \in 1..l : c[i] = d[i]
    BY DEF AtMostOne
  <2>2. /\ c = [i \in 1..l |-> c[i]] /\ d = [i \in 1..l |-> d[i]]
    OBVIOUS
  <2> HIDE DEF C
  <2> QED
    BY <2>1, <2>2
<1> HIDE DEF C
<1> QED
  BY <1>1, <1>2, <1>3 DEF AtMostOne

(* A value is written once if the values in it are: an atom,               *)
LEMMA AtomOnce ==
  ASSUME Texts!WritingAssumption, NEW k \in Texts!Atom
  PROVE  WrittenOnce(Texts!AtomValue(k))
<1>1. <<Texts!SymbolToken(k)>> \in Seq(JsonToken)
  <2>1. Texts!SymbolToken(k) \in JsonToken
    BY DEF JsonToken, Texts!Symbol
  <2> QED
    BY <2>1
<1>2. k \in {"null", "number", "inexact"}
  BY DEF Texts!Atom
<1>3. CASE k = "inexact"
  BY <1>3, TextsAre DEF WrittenOnce, AtMostOne
<1>4. CASE k \in {"null", "number"}
  <2>1. CanonicalForms(Texts!AtomValue(k)) = {<<Texts!SymbolToken(k)>>}
    BY <1>4, TextsAre
  <2> QED
    BY <1>1, <2>1 DEF WrittenOnce, AtMostOne
<1> QED
  BY <1>2, <1>3, <1>4

(* a string,                                                               *)
LEMMA StringOnce ==
  ASSUME Texts!WritingAssumption, NEW s, IsString(s)
  PROVE  WrittenOnce(Texts!StringValue(s))
<1>1. CanonicalForms(Texts!StringValue(s))
        = {<<Texts!StringToken(Texts!CanonicalString(s))>>}
  BY TextsAre
<1>2. <<Texts!StringToken(Texts!CanonicalString(s))>> \in Seq(JsonToken)
  BY CanonicalSpelling
<1> QED
  BY <1>1, <1>2 DEF WrittenOnce, AtMostOne

(* an array,                                                               *)
LEMMA ArrayOnce ==
  ASSUME Texts!WritingAssumption, NEW items, IsSequence(items),
         \A i \in 1..Len(items) : WrittenOnce(items[i])
  PROVE  WrittenOnce(Texts!ArrayValue(items))
<1> DEFINE sets == [i \in DOMAIN items |-> CanonicalForms(items[i])]
<1>1. CanonicalForms(Texts!ArrayValue(items))
        = Texts!Enclosed("[", Texts!OneOfEach(sets), "]")
  BY TextsAre
<1>2. DOMAIN items = 1..Len(items) /\ Len(items) \in Nat
  BY Sequences
<1>3. DOMAIN sets = 1..Len(items) /\ \A i \in 1..Len(items) : AtMostOne(sets[i])
  BY <1>2 DEF WrittenOnce
<1> HIDE DEF sets
<1>4. AtMostOne(Texts!OneOfEach(sets))
  BY <1>2, <1>3, OneOfEachOnce
<1>5. "[" \in Texts!Symbol /\ "]" \in Texts!Symbol
  BY DEF Texts!Symbol
<1> QED
  BY <1>1, <1>4, <1>5, EnclosedOnce DEF WrittenOnce

(* and an object, whose names come in one order.                           *)
LEMMA ObjectOnce ==
  ASSUME Texts!WritingAssumption, NEW members, IsFiniteSet(DOMAIN members),
         \A n \in DOMAIN members : IsString(n) /\ WrittenOnce(members[n])
  PROVE  WrittenOnce(Texts!ObjectValue(members))
<1> DEFINE sets(order) == Texts!Members(members, order, CanonicalForms)
           texts(order) == Texts!Enclosed("{", Texts!OneOfEach(sets(order)), "}")
           orders == Texts!SortedNames(DOMAIN members)
<1>1. CanonicalForms(Texts!ObjectValue(members)) = UNION {texts(order) : order \in orders}
  BY TextsAre
<1>2. \A a, b \in orders : a = b
  BY OneOrder
<1>3. ASSUME NEW order \in orders PROVE AtMostOne(texts(order))
  <2>1. order \in Seq(DOMAIN members) /\ Len(order) \in Nat
    BY SortedAre DEF IsSorted
  <2>2. /\ DOMAIN order = 1..Len(order)
        /\ \A i \in 1..Len(order) : order[i] \in DOMAIN members
    BY <2>1
  <2>3. DOMAIN sets(order) = 1..Len(order)
    BY <2>2 DEF Texts!Members
  <2>4. ASSUME NEW i \in 1..Len(order) PROVE AtMostOne(sets(order)[i])
    <3> DEFINE n == order[i]
               open == <<Texts!StringToken(Texts!CanonicalString(n))>>
    <3>1. n \in DOMAIN members
      BY <2>2
    <3>2. sets(order)[i] = {open \o x : x \in CanonicalForms(members[n])}
      BY <2>2 DEF Texts!Members
    <3> HIDE DEF n, sets
    <3>3. open \in Seq(JsonToken) /\ AtMostOne(CanonicalForms(members[n]))
      BY <3>1, CanonicalSpelling DEF WrittenOnce
    <3> HIDE DEF open
    <3>4. \A x \in Seq(JsonToken) : open \o x \in Seq(JsonToken)
      BY <3>3
    <3> QED
      BY <3>2, <3>3, <3>4 DEF AtMostOne
  <2> HIDE DEF sets
  <2>5. AtMostOne(Texts!OneOfEach(sets(order)))
    BY <2>1, <2>3, <2>4, OneOfEachOnce
  <2>6. "{" \in Texts!Symbol /\ "}" \in Texts!Symbol
    BY DEF Texts!Symbol
  <2> QED
    BY <2>5, <2>6, EnclosedOnce
<1> HIDE DEF texts, orders
<1>4. AtMostOne(UNION {texts(order) : order \in orders})
  BY <1>2, <1>3 DEF AtMostOne
<1> QED
  BY <1>1, <1>4 DEF WrittenOnce

-----------------------------------------------------------------------------
(* Reading: the frames hold values that are written once *)

(* The assumptions about what a value is written as, and about the strings *)
(* that a text from outside may hold.                                      *)
Assumed == Texts!WritingAssumption /\ Texts!SpelledAssumption

(* A value has at most one text, and the names of an object are strings.   *)
IsValue(v) ==
  /\ WrittenOnce(v)
  /\ v.kind = "object" =>
       IsFiniteSet(DOMAIN v.members) /\ \A n \in DOMAIN v.members : IsString(n)

(* An array or object that is being read: its names are counted.           *)
IsCounted(f) ==
  /\ f = [kind |-> f.kind, items |-> f.items, members |-> f.members, name |-> f.name,
          written |-> f.written]
  /\ f.kind \in {"array", "object"}
  /\ IsSequence(f.items)
  /\ IsFiniteSet(DOMAIN f.members)
  /\ f.name # <<>> => /\ f.kind = "object" /\ f.name = <<f.name[1]>>
                      /\ f.name[1] \notin DOMAIN f.members
  /\ f.written = Cardinality(DOMAIN f.members) + (IF f.name = <<>> THEN 0 ELSE 1)

HoldsValues(f) ==
  /\ \A i \in 1..Len(f.items) : IsValue(f.items[i])
  /\ \A n \in DOMAIN f.members : IsString(n) /\ IsValue(f.members[n])
  /\ f.name # <<>> => IsString(f.name[1])

IsFrame(f) == IsCounted(f) /\ (Assumed => HoldsValues(f))

(* Two fields of a frame, changed at once.                                 *)
LEMMA FrameWith ==
  ASSUME NEW a, NEW b, NEW c, NEW d, NEW e, NEW x, NEW y,
         NEW o, o = [kind |-> a, items |-> b, members |-> c, name |-> d, written |-> e]
  PROVE  /\ [o EXCEPT !.members = x, !.name = y]
              = [kind |-> a, items |-> b, members |-> x, name |-> y, written |-> e]
         /\ [o EXCEPT !.name = x, !.written = y]
              = [kind |-> a, items |-> b, members |-> c, name |-> x, written |-> y]
<1> DEFINE p == [o EXCEPT !.members = x]
           q == [o EXCEPT !.name = x]
<1>1. /\ [o EXCEPT !.members = x, !.name = y] = [p EXCEPT !.name = y]
      /\ [o EXCEPT !.name = x, !.written = y] = [q EXCEPT !.written = y]
  OBVIOUS
<1>2. p = [kind |-> a, items |-> b, members |-> x, name |-> d, written |-> e]
  OBVIOUS
<1>3. q = [kind |-> a, items |-> b, members |-> c, name |-> x, written |-> e]
  OBVIOUS
<1> HIDE DEF p, q
<1>4. [p EXCEPT !.name = y] = [kind |-> a, items |-> b, members |-> x, name |-> y, written |-> e]
  BY <1>2
<1>5. [q EXCEPT !.written = y]
        = [kind |-> a, items |-> b, members |-> c, name |-> x, written |-> y]
  BY <1>3
<1> QED
  BY <1>1, <1>4, <1>5

(* What a new frame, one that gets a value and one that gets a name are.   *)
LEMMA NewFrame ==
  ASSUME NEW k \in {"array", "object"}
  PROVE  IsFrame(Texts!Frame(k)) /\ Texts!Frame(k).name = <<>>
<1> DEFINE f == Texts!Frame(k)
<1>1. /\ f = [kind |-> k, items |-> <<>>, members |-> <<>>, name |-> <<>>, written |-> 0]
  BY DEF Texts!Frame, Texts!Nothing
<1> HIDE DEF f
<1>2. /\ f.kind = k /\ f.items = <<>> /\ f.members = <<>> /\ f.name = <<>> /\ f.written = 0
  BY <1>1
<1>3. DOMAIN f.members = {} /\ Len(f.items) = 0
  BY <1>2
<1>4. IsSequence(f.items) /\ IsFiniteSet(DOMAIN f.members) /\ Cardinality(DOMAIN f.members) = 0
  BY <1>2, <1>3, Sequences, FS_EmptySet
<1>5. IsCounted(f)
  BY <1>1, <1>2, <1>4 DEF IsCounted
<1>6. HoldsValues(f)
  BY <1>2, <1>3 DEF HoldsValues
<1> QED
  BY <1>2, <1>5, <1>6 DEF IsFrame, f

LEMMA FilledArray ==
  ASSUME NEW o, IsFrame(o), o.kind = "array", NEW v, Assumed => IsValue(v)
  PROVE  LET f == [o EXCEPT !.items = Append(@, v)]
         IN  IsFrame(f) /\ f.kind = "array"
<1> DEFINE f == [o EXCEPT !.items = Append(@, v)]
<1>1. IsCounted(o) /\ (Assumed => HoldsValues(o))
  BY DEF IsFrame
<1>2. o = [kind |-> o.kind, items |-> o.items, members |-> o.members, name |-> o.name,
           written |-> o.written]
  BY <1>1 DEF IsCounted
<1>3. /\ f = [kind |-> o.kind, items |-> Append(o.items, v), members |-> o.members,
              name |-> o.name, written |-> o.written]
  BY <1>2
<1> HIDE DEF f
<1>4. /\ f.kind = o.kind /\ f.items = Append(o.items, v) /\ f.members = o.members
      /\ f.name = o.name /\ f.written = o.written
  BY <1>3
<1>5. IsSequence(o.items)
  BY <1>1 DEF IsCounted
<1>6. /\ IsSequence(f.items) /\ Len(f.items) = Len(o.items) + 1
      /\ f.items[Len(o.items) + 1] = v /\ Len(o.items) \in Nat
      /\ \A i \in 1..Len(o.items) : f.items[i] = o.items[i]
  BY <1>4, <1>5, Sequences
<1>7. IsCounted(f)
  BY <1>1, <1>3, <1>4, <1>6 DEF IsCounted
<1>8. ASSUME Assumed PROVE HoldsValues(f)
  <2>1. \A i \in 1..Len(f.items) : i \in 1..Len(o.items) \/ i = Len(o.items) + 1
    BY <1>6
  <2>2. HoldsValues(o) /\ IsValue(v)
    BY <1>1, <1>8
  <2>3. \A i \in 1..Len(f.items) : IsValue(f.items[i])
    BY <1>6, <2>1, <2>2 DEF HoldsValues
  <2> QED
    BY <1>4, <2>2, <2>3 DEF HoldsValues
<1> QED
  BY <1>4, <1>7, <1>8 DEF IsFrame, f

LEMMA FilledObject ==
  ASSUME NEW o, IsFrame(o), o.kind = "object", o.name # <<>>, NEW v, Assumed => IsValue(v)
  PROVE  IsFrame([o EXCEPT !.members = Texts!With(@, o.name[1], v), !.name = Texts!Nothing])
<1> DEFINE f == [o EXCEPT !.members = Texts!With(@, o.name[1], v), !.name = Texts!Nothing]
           n == o.name[1]
           m == Texts!With(o.members, n, v)
<1>1. IsCounted(o) /\ (Assumed => HoldsValues(o))
  BY DEF IsFrame
<1>2. o = [kind |-> o.kind, items |-> o.items, members |-> o.members, name |-> o.name,
           written |-> o.written]
  BY <1>1 DEF IsCounted
<1>3. f = [kind |-> o.kind, items |-> o.items, members |-> m,
           name |-> <<>>, written |-> o.written]
  <2>1. f = [o EXCEPT !.members = m, !.name = <<>>]
    BY DEF Texts!Nothing
  <2> HIDE DEF f, m
  <2> QED
    BY <1>2, <2>1, FrameWith
<1>4. n \notin DOMAIN o.members /\ IsFiniteSet(DOMAIN o.members)
      /\ o.written = Cardinality(DOMAIN o.members) + 1
  BY <1>1 DEF IsCounted
<1>5. /\ DOMAIN m = DOMAIN o.members \cup {n} /\ m[n] = v
      /\ \A x \in DOMAIN o.members : m[x] = o.members[x]
  <2> HIDE DEF n
  <2> QED
    BY <1>4 DEF Texts!With
<1> HIDE DEF f, n, m
<1>6. /\ f.kind = o.kind /\ f.items = o.items /\ f.members = m
      /\ f.name = <<>> /\ f.written = o.written
  BY <1>3
<1>7. IsFiniteSet(DOMAIN m) /\ Cardinality(DOMAIN m) = Cardinality(DOMAIN o.members) + 1
  <2>1. /\ IsFiniteSet(DOMAIN o.members \cup {n})
        /\ Cardinality(DOMAIN o.members \cup {n})
             = IF n \in DOMAIN o.members THEN Cardinality(DOMAIN o.members)
               ELSE Cardinality(DOMAIN o.members) + 1
    BY <1>4, FS_AddElement
  <2> QED
    BY <1>4, <1>5, <2>1
<1>8. IsCounted(f)
  <2>1. Cardinality(DOMAIN m) \in Nat
    BY <1>7, FS_CardinalityType
  <2> QED
    BY <1>1, <1>3, <1>4, <1>6, <1>7, <2>1 DEF IsCounted
<1>9. ASSUME Assumed PROVE HoldsValues(f)
  <2>1. HoldsValues(o) /\ IsValue(v)
    BY <1>1, <1>9
  <2>2. IsString(n)
    BY <2>1 DEF HoldsValues, n
  <2>3. \A x \in DOMAIN m : IsString(x) /\ IsValue(m[x])
    BY <1>5, <2>1, <2>2 DEF HoldsValues
  <2> QED
    BY <1>6, <2>1, <2>3 DEF HoldsValues
<1> QED
  BY <1>8, <1>9 DEF IsFrame, f

LEMMA NamedFrame ==
  ASSUME NEW o, IsFrame(o), o.kind = "object", o.name = <<>>,
         NEW n, n \notin DOMAIN o.members, Assumed => IsString(n)
  PROVE  LET f == [o EXCEPT !.name = <<n>>, !.written = @ + 1]
         IN  IsFrame(f) /\ f.name # <<>>
<1> DEFINE f == [o EXCEPT !.name = <<n>>, !.written = @ + 1]
<1>1. IsCounted(o) /\ (Assumed => HoldsValues(o))
  BY DEF IsFrame
<1>2. o = [kind |-> o.kind, items |-> o.items, members |-> o.members, name |-> o.name,
           written |-> o.written]
  BY <1>1 DEF IsCounted
<1>3. f = [kind |-> o.kind, items |-> o.items, members |-> o.members,
           name |-> <<n>>, written |-> o.written + 1]
  <2> DEFINE x == <<n>>
             y == o.written + 1
  <2>1. f = [o EXCEPT !.name = x, !.written = y]
    OBVIOUS
  <2> HIDE DEF f, x, y
  <2>2. f = [kind |-> o.kind, items |-> o.items, members |-> o.members, name |-> x,
             written |-> y]
    BY <1>2, <2>1, FrameWith
  <2> QED
    BY <2>2 DEF x, y
<1> HIDE DEF f
<1>4. /\ f.kind = o.kind /\ f.items = o.items /\ f.members = o.members
      /\ f.name = <<n>> /\ f.written = o.written + 1
  BY <1>3
<1>5. f.name # <<>> /\ f.name[1] = n
  BY <1>4
<1>6. o.written = Cardinality(DOMAIN o.members) /\ Cardinality(DOMAIN o.members) \in Nat
  BY <1>1, FS_CardinalityType DEF IsCounted
<1>7. IsCounted(f)
  BY <1>1, <1>3, <1>4, <1>5, <1>6 DEF IsCounted
<1>8. ASSUME Assumed PROVE HoldsValues(f)
  BY <1>1, <1>4, <1>5, <1>8 DEF HoldsValues
<1> QED
  BY <1>5, <1>7, <1>8 DEF IsFrame, f

(* Whatever is around a value waits for it. *)
IsStack(s) ==
  /\ IsSequence(s)
  /\ \A i \in 1..Len(s) : IsFrame(s[i])
  /\ \A i \in 1..Len(s) : i < Len(s) /\ s[i].kind = "object" => s[i].name # <<>>

TakesValue(s) ==
  /\ IsSequence(s)
  /\ \A i \in 1..Len(s) : IsFrame(s[i])
  /\ \A i \in 1..Len(s) : s[i].kind = "object" => s[i].name # <<>>

LEMMA EmptyStack == IsStack(<<>>) /\ TakesValue(<<>>)
<1>1. IsSequence(<<>>) /\ Len(<<>>) = 0
  BY Sequences
<1> QED
  BY <1>1 DEF IsStack, TakesValue

(* A frame on top of those that wait, and what is left without it.         *)
LEMMA Pushed ==
  ASSUME NEW s, TakesValue(s), NEW f, IsFrame(f)
  PROVE  IsStack(Append(s, f))
<1> DEFINE t == Append(s, f)
<1>1. /\ IsSequence(t) /\ Len(t) = Len(s) + 1 /\ t[Len(s) + 1] = f /\ Len(s) \in Nat
      /\ \A i \in 1..Len(s) : t[i] = s[i]
  BY Sequences DEF TakesValue
<1> HIDE DEF t
<1>2. \A i \in 1..Len(t) : i \in 1..Len(s) \/ i = Len(s) + 1
  BY <1>1
<1>3. \A i \in 1..Len(t) : IsFrame(t[i])
  BY <1>1, <1>2 DEF TakesValue
<1>4. \A i \in 1..Len(t) : i < Len(t) => i \in 1..Len(s)
  BY <1>1
<1>5. \A i \in 1..Len(t) : i < Len(t) /\ t[i].kind = "object" => t[i].name # <<>>
  BY <1>1, <1>4 DEF TakesValue
<1> QED
  BY <1>1, <1>3, <1>5 DEF IsStack, t

LEMMA Popped ==
  ASSUME NEW s, IsStack(s), s # <<>>
  PROVE  /\ TakesValue(Texts!Front(s)) /\ IsFrame(Texts!Last(s))
         /\ Texts!Last(s).kind # "object" \/ Texts!Last(s).name # <<>> => TakesValue(s)
<1> DEFINE t == Texts!Front(s)
<1>1. PICK S : s \in Seq(S)
  BY DEF IsStack, IsSequence
<1>2. Len(s) \in Nat /\ Len(s) > 0 /\ Texts!Last(s) = s[Len(s)] /\ Len(s) \in 1..Len(s)
  BY <1>1 DEF Texts!Last
<1>3. t \in Seq(S) /\ Len(t) = Len(s) - 1 /\ \A i \in 1..Len(t) : t[i] = s[i]
  <2> DEFINE m == Len(s) - 1
  <2>1. t = SubSeq(s, 1, m) /\ m \in Nat /\ m <= Len(s)
    BY <1>2 DEF Texts!Front
  <2> HIDE DEF t, m
  <2>2. t \in Seq(S)
    BY <1>1, <2>1
  <2>3. Len(t) = m
    BY <1>1, <2>1
  <2>4. \A i \in 1..m : t[i] = s[i]
    BY <1>1, <2>1
  <2> QED
    BY <2>2, <2>3, <2>4 DEF m
<1> HIDE DEF t
<1>4. \A i \in 1..Len(t) : i \in 1..Len(s) /\ i < Len(s)
  BY <1>2, <1>3
<1>5. TakesValue(t)
  BY <1>3, <1>4 DEF IsStack, TakesValue, IsSequence
<1>6. \A i \in 1..Len(s) : i < Len(s) \/ i = Len(s)
  BY <1>2
<1>7. IsFrame(Texts!Last(s))
  BY <1>2 DEF IsStack
<1>8. ASSUME Texts!Last(s).kind # "object" \/ Texts!Last(s).name # <<>>
      PROVE  TakesValue(s)
  BY <1>2, <1>6, <1>8 DEF IsStack, TakesValue
<1> QED
  BY <1>5, <1>7, <1>8 DEF t

(* Where no name is awaited, a value may come.                             *)
LEMMA NoneAwaits ==
  ASSUME IsStack(frames), ~ Texts!AwaitsName
  PROVE  TakesValue(frames)
<1>1. CASE frames = <<>>
  BY <1>1, EmptyStack
<1>2. CASE frames # <<>>
  <2>1. Texts!Last(frames).kind # "object" \/ Texts!Last(frames).name # <<>>
    BY <1>2 DEF Texts!AwaitsName, Texts!Top, Texts!Nothing
  <2> QED
    BY <1>2, <2>1, Popped
<1> QED
  BY <1>1, <1>2

(* The frames after a token, and the value, if it is complete. *)
Advanced ==
  /\ IsStack(frames')
  /\ reading' \in {"decoding", "decoded", "refused"}
  /\ reading' = "decoded" => frames' = <<>> /\ (Assumed => IsValue(decoded'))

(* A value goes into the frame around it, or is the result.                *)
LEMMA Delivered ==
  ASSUME reading = "decoding", NEW s, TakesValue(s), NEW v, Assumed => IsValue(v),
         Texts!Deliver(s, v)
  PROVE  Advanced
<1>1. CASE s = <<>>
  BY <1>1, EmptyStack DEF Texts!Deliver, Advanced
<1>2. CASE s # <<>>
  <2> DEFINE o == Texts!Last(s)
             a == [o EXCEPT !.items = Append(@, v)]
             b == [o EXCEPT !.members = Texts!With(@, o.name[1], v), !.name = Texts!Nothing]
             f == IF o.kind = "array" THEN a ELSE b
  <2>1. frames' = Append(Texts!Front(s), f) /\ decoded' = decoded /\ reading' = reading
    BY <1>2 DEF Texts!Deliver
  <2>2. IsStack(s)
    BY DEF IsStack, TakesValue
  <2>3. TakesValue(Texts!Front(s)) /\ IsFrame(o)
    BY <1>2, <2>2, Popped
  <2>4. o.kind = "object" => o.name # <<>>
    <3>1. PICK S : s \in Seq(S)
      BY DEF TakesValue, IsSequence
    <3>2. Len(s) \in 1..Len(s)
      BY <1>2, <3>1
    <3> QED
      BY <3>2 DEF TakesValue, Texts!Last
  <2>5. o.kind \in {"array", "object"}
    BY <2>3 DEF IsFrame, IsCounted
  <2> HIDE DEF o
  <2>6. CASE o.kind = "array"
    <3>1. IsFrame(a)
      BY <2>3, <2>6, FilledArray
    <3>2. f = a
      BY <2>6
    <3> HIDE DEF a, f
    <3> QED
      BY <2>1, <2>3, <3>1, <3>2, Pushed DEF Advanced
  <2>7. CASE o.kind = "object"
    <3>1. IsFrame(b)
      BY <2>3, <2>4, <2>7, FilledObject
    <3>2. f = b
      BY <2>7
    <3> HIDE DEF b, f
    <3> QED
      BY <2>1, <2>3, <3>1, <3>2, Pushed DEF Advanced
  <2> QED
    BY <2>5, <2>6, <2>7
<1> QED
  BY <1>1, <1>2

IsSpelled(x) ==
  x \in Seq([point : Nat, spelling : Texts!Spelling]) /\ Texts!IsSpelledString(x)

(* The characters of a spelled string are a string.                        *)
LEMMA PointsAreStrings ==
  ASSUME NEW x, IsSpelled(x)
  PROVE  IsString(Texts!Points(x))
<1> DEFINE p == Texts!Points(x)
<1>1. /\ DOMAIN x = 1..Len(x) /\ Len(x) \in Nat
      /\ \A i \in 1..Len(x) : x[i].point \in Nat /\ Texts!IsCodePoint(x[i].point)
  <2>1. /\ x \in Seq([point : Nat, spelling : Texts!Spelling])
        /\ \A i \in DOMAIN x : Texts!IsCodePoint(x[i].point)
    BY DEF IsSpelled, Texts!IsSpelledString
  <2>2. DOMAIN x = 1..Len(x) /\ Len(x) \in Nat
    BY <2>1
  <2>3. \A i \in 1..Len(x) : x[i] \in [point : Nat, spelling : Texts!Spelling]
    <3> DEFINE R == [point : Nat, spelling : Texts!Spelling]
    <3>1. x \in Seq(R)
      BY <2>1
    <3> HIDE DEF R
    <3>2. \A i \in 1..Len(x) : x[i] \in R
      BY ONLY <3>1
    <3> QED
      BY <3>2 DEF R
  <2>4. \A i \in 1..Len(x) : x[i].point \in Nat
    BY <2>3
  <2> QED
    BY <2>1, <2>2, <2>4
<1>2. p = [i \in 1..Len(x) |-> x[i].point]
  BY <1>1 DEF Texts!Points
<1> HIDE DEF p
<1>3. p \in Seq(Nat) /\ Len(p) = Len(x)
  BY <1>1, <1>2
<1>4. \A i \in 1..Len(p) : Texts!IsCodePoint(p[i])
  BY <1>1, <1>2, <1>3
<1> QED
  BY <1>3, <1>4 DEF IsString, p

LEMMA TokensAre ==
  ASSUME NEW t \in JsonToken
  PROVE  t.token = "string" => IsSpelled(t.spelled)
<1>1. CASE \E s \in Texts!Symbol : t = Texts!SymbolToken(s)
  BY <1>1 DEF Texts!SymbolToken, Texts!Symbol, Texts!Atom
<1>2. CASE \E s \in {x \in Seq([point : Nat, spelling : Texts!Spelling]) :
                       Texts!IsSpelledString(x)} : t = Texts!StringToken(s)
  BY <1>2 DEF Texts!StringToken, IsSpelled
<1> QED
  BY <1>1, <1>2 DEF JsonToken

(* What a token does is one of these.                                      *)
LEMMA DecodeCases ==
  ASSUME NEW t, Texts!DecodeJSONValue(t)
  PROVE  \/ Texts!Refuse
         \/ t.token = "string" /\ Texts!AwaitsName /\ Texts!ReadName(t.spelled)
         \/ /\ t.token = "string" /\ ~ Texts!AwaitsName
            /\ Texts!Deliver(frames, Texts!StringValue(Texts!Points(t.spelled)))
         \/ Texts!Close("object") \/ Texts!Close("array")
         \/ ~ Texts!AwaitsName /\ (Texts!Open("object") \/ Texts!Open("array"))
         \/ /\ t.token \in Texts!Atom /\ ~ Texts!AwaitsName
            /\ Texts!Deliver(frames, Texts!AtomValue(t.token))
<1> DEFINE k == t.token
<1>0. k = t.token
  OBVIOUS
<1> HIDE DEF k
<1>1. CASE k = "string"
  BY <1>0, <1>1 DEF Texts!DecodeJSONValue
<1>2. CASE k = "}"
  BY <1>0, <1>2 DEF Texts!DecodeJSONValue
<1>3. CASE k = "]"
  BY <1>0, <1>3 DEF Texts!DecodeJSONValue
<1>4. CASE k = "{"
  BY <1>0, <1>4 DEF Texts!DecodeJSONValue, Texts!Atom
<1>5. CASE k = "["
  BY <1>0, <1>5 DEF Texts!DecodeJSONValue, Texts!Atom
<1>6. CASE k \in Texts!Atom
  BY <1>0, <1>6 DEF Texts!DecodeJSONValue, Texts!Atom
<1>7. CASE k \notin {"string", "}", "]", "{", "["} \cup Texts!Atom
  BY <1>0, <1>7 DEF Texts!DecodeJSONValue
<1> QED
  BY <1>1, <1>2, <1>3, <1>4, <1>5, <1>6, <1>7

(* Each of them keeps the frames as they should be: a refusal,             *)
LEMMA TokenRefused ==
  ASSUME IsStack(frames), Texts!Refuse
  PROVE  Advanced
BY DEF Texts!Refuse, Advanced

(* the name of a member,                                                   *)
LEMMA NameIsRead ==
  ASSUME IsStack(frames), reading = "decoding", Texts!AwaitsName,
         NEW x, Assumed => IsSpelled(x), Texts!ReadName(x)
  PROVE  Advanced
<1> DEFINE n == Texts!Points(x)
           o == Texts!Last(frames)
           f == [o EXCEPT !.name = <<n>>, !.written = @ + 1]
<1>1. frames # <<>> /\ o.kind = "object" /\ o.name = <<>>
  BY DEF Texts!AwaitsName, Texts!Top, Texts!Nothing
<1>2. TakesValue(Texts!Front(frames)) /\ IsFrame(o)
  BY <1>1, Popped
<1>3. CASE Texts!IsRepeated(o, n)
  <2>1. Texts!Refuse
    BY <1>3 DEF Texts!ReadName, Texts!Top
  <2> QED
    BY <2>1, TokenRefused
<1>4. CASE ~ Texts!IsRepeated(o, n)
  <2>1. frames' = Append(Texts!Front(frames), f) /\ decoded' = decoded /\ reading' = reading
    BY <1>4 DEF Texts!ReadName, Texts!Top
  <2>2. n \notin DOMAIN o.members
    BY <1>4 DEF Texts!IsRepeated
  <2>3. Assumed => IsString(n)
    BY PointsAreStrings
  <2> HIDE DEF n, o
  <2>4. IsFrame(f)
    BY <1>1, <1>2, <2>2, <2>3, NamedFrame
  <2> HIDE DEF f
  <2> QED
    BY <1>2, <2>1, <2>4, Pushed DEF Advanced
<1> QED
  BY <1>3, <1>4

(* a bracket that opens,                                                   *)
LEMMA FrameOpened ==
  ASSUME IsStack(frames), reading = "decoding", ~ Texts!AwaitsName,
         NEW k \in {"array", "object"}, Texts!Open(k)
  PROVE  Advanced
<1>1. frames' = Append(frames, Texts!Frame(k)) /\ reading' = reading
  BY DEF Texts!Open
<1>2. IsStack(frames')
  BY <1>1, NoneAwaits, NewFrame, Pushed
<1> QED
  BY <1>1, <1>2 DEF Advanced

(* one that closes,                                                        *)
LEMMA FrameClosed ==
  ASSUME IsStack(frames), reading = "decoding", NEW k \in {"array", "object"}, Texts!Close(k)
  PROVE  Advanced
<1> DEFINE o == Texts!Last(frames)
           v == IF k = "array" THEN Texts!ArrayValue(o.items) ELSE Texts!ObjectValue(o.members)
<1>1. CASE ~ (frames # <<>> /\ o.kind = k /\ o.name = <<>>)
  <2>1. Texts!Refuse
    BY <1>1 DEF Texts!Close, Texts!Top, Texts!Nothing
  <2> QED
    BY <2>1, TokenRefused
<1>2. CASE frames # <<>> /\ o.kind = k /\ o.name = <<>>
  <2>1. Texts!Deliver(Texts!Front(frames), v)
    BY <1>2 DEF Texts!Close, Texts!Top, Texts!Nothing
  <2>2. TakesValue(Texts!Front(frames)) /\ IsFrame(o)
    BY <1>2, Popped
  <2> HIDE DEF o
  <2>3. ASSUME Assumed PROVE IsValue(v)
    <3>1. IsCounted(o) /\ HoldsValues(o) /\ Texts!WritingAssumption
      BY <2>2, <2>3 DEF IsFrame, Assumed
    <3>2. CASE k = "array"
      <4>1. IsSequence(o.items) /\ \A i \in 1..Len(o.items) : WrittenOnce(o.items[i])
        BY <3>1 DEF IsCounted, HoldsValues, IsValue
      <4>2. v = Texts!ArrayValue(o.items) /\ v.kind = "array"
        BY <3>2 DEF Texts!ArrayValue
      <4> QED
        BY <3>1, <4>1, <4>2, ArrayOnce DEF IsValue
    <3>3. CASE k = "object"
      <4>1. /\ IsFiniteSet(DOMAIN o.members)
            /\ \A n \in DOMAIN o.members : IsString(n) /\ WrittenOnce(o.members[n])
        BY <3>1 DEF IsCounted, HoldsValues, IsValue
      <4>2. v = Texts!ObjectValue(o.members) /\ v.members = o.members
        BY <3>3 DEF Texts!ObjectValue
      <4> QED
        BY <3>1, <4>1, <4>2, ObjectOnce DEF IsValue
    <3> QED
      BY <3>2, <3>3
  <2> HIDE DEF v
  <2> QED
    BY <2>1, <2>2, <2>3, Delivered
<1> QED
  BY <1>1, <1>2

(* and any token.                                                          *)
LEMMA TokenIsDecoded ==
  ASSUME IsStack(frames), reading = "decoding", NEW t, Assumed => t \in JsonToken,
         Texts!DecodeJSONValue(t)
  PROVE  Advanced
<1>1. CASE Texts!Refuse
  BY <1>1, TokenRefused
<1>2. CASE t.token = "string" /\ Texts!AwaitsName /\ Texts!ReadName(t.spelled)
  BY <1>2, TokensAre, NameIsRead
<1>3. CASE /\ t.token = "string" /\ ~ Texts!AwaitsName
           /\ Texts!Deliver(frames, Texts!StringValue(Texts!Points(t.spelled)))
  <2> DEFINE s == Texts!Points(t.spelled)
             v == Texts!StringValue(s)
  <2>1. ASSUME Assumed PROVE IsValue(v)
    <3>1. IsString(s)
      BY <1>3, <2>1, TokensAre, PointsAreStrings
    <3>2. v.kind = "string"
      BY DEF Texts!StringValue
    <3> QED
      BY <2>1, <3>1, <3>2, StringOnce DEF IsValue, Assumed
  <2> HIDE DEF v
  <2> QED
    BY <1>3, <2>1, NoneAwaits, Delivered DEF v
<1>4. CASE Texts!Close("object") \/ Texts!Close("array")
  BY <1>4, FrameClosed
<1>5. CASE ~ Texts!AwaitsName /\ (Texts!Open("object") \/ Texts!Open("array"))
  BY <1>5, FrameOpened
<1>6. CASE /\ t.token \in Texts!Atom /\ ~ Texts!AwaitsName
           /\ Texts!Deliver(frames, Texts!AtomValue(t.token))
  <2> DEFINE v == Texts!AtomValue(t.token)
  <2>1. ASSUME Assumed PROVE IsValue(v)
    <3>1. v.kind # "object"
      BY <1>6 DEF Texts!AtomValue, Texts!Atom
    <3> QED
      BY <1>6, <2>1, <3>1, AtomOnce DEF IsValue, Assumed
  <2> HIDE DEF v
  <2> QED
    BY <1>6, <2>1, NoneAwaits, Delivered DEF v
<1> QED
  BY <1>1, <1>2, <1>3, <1>4, <1>5, <1>6, DecodeCases

-----------------------------------------------------------------------------
(* The invariant of reading *)

(* The invariant: frames and the value are as above, and a text that is    *)
(* read again is no longer than the one that was written.                  *)
TextInv ==
  /\ reading \in {"decoding", "decoded", "accepted", "refused"}
  /\ IsSequence(tokens)
  /\ IsStack(frames)
  /\ reading \in {"decoded", "accepted"} => frames = <<>> /\ (Assumed => IsValue(decoded))
  /\ Assumed => /\ rewritten \in Seq(JsonToken)
                /\ rewritten # <<>> => Len(tokens) <= Len(rewritten)

(* What comes next is a token, and there is room for it.                   *)
LEMMA NextTokenIs ==
  ASSUME TextInv, NEW t \in Texts!NextToken
  PROVE  /\ IsSequence(Append(tokens, t))
         /\ Assumed => /\ t \in JsonToken
                       /\ rewritten # <<>> => Len(Append(tokens, t)) <= Len(rewritten)
<1>1. IsSequence(tokens) /\ IsSequence(Append(tokens, t))
      /\ Len(Append(tokens, t)) = Len(tokens) + 1 /\ Len(tokens) \in Nat
  BY Sequences DEF TextInv
<1>2. ASSUME Assumed, rewritten = <<>> PROVE t \in JsonToken
  <2>1. \/ \E s \in Texts!Symbol : t = Texts!SymbolToken(s)
        \/ \E x \in Spelled : t = Texts!StringToken(x)
    BY <1>2 DEF Texts!NextToken, Texts!Nothing
  <2>2. \A x \in Spelled : /\ x \in Seq([point : Nat, spelling : Texts!Spelling])
                           /\ Texts!IsSpelledString(x)
    BY <1>2 DEF Assumed, Texts!SpelledAssumption, Texts!IsSpelledString
  <2> QED
    BY <2>1, <2>2 DEF JsonToken
<1>3. ASSUME Assumed, rewritten # <<>>
      PROVE  t \in JsonToken /\ Len(Append(tokens, t)) <= Len(rewritten)
  <2>1. rewritten \in Seq(JsonToken) /\ Len(tokens) <= Len(rewritten)
    BY <1>3 DEF TextInv
  <2>2. Len(tokens) # Len(rewritten) /\ t = rewritten[Len(tokens) + 1]
    BY <1>3 DEF Texts!NextToken, Texts!Nothing
  <2>3. Len(rewritten) \in Nat
    BY <2>1
  <2>4. Len(tokens) + 1 \in 1..Len(rewritten)
    BY <1>1, <2>1, <2>2, <2>3
  <2>5. rewritten[Len(tokens) + 1] \in JsonToken
    BY <2>1, <2>4
  <2> QED
    BY <1>1, <2>2, <2>4, <2>5
<1> QED
  BY <1>1, <1>2, <1>3

(* The invariant holds, whatever is read.                                  *)
LEMMA TextInvHolds == Texts!Spec => []TextInv
<1>1. Texts!Init => TextInv
  <2> SUFFICES ASSUME Texts!Init PROVE TextInv
    OBVIOUS
  <2>1. IsSequence(<<>>) /\ IsStack(<<>>)
    BY Sequences, EmptyStack
  <2>2. <<>> \in Seq(JsonToken)
    OBVIOUS
  <2> QED
    BY <2>1, <2>2 DEF Texts!Init, TextInv, Texts!Nothing
<1>2. TextInv /\ [Texts!Next]_Texts!vars => TextInv'
  <2> SUFFICES ASSUME TextInv, [Texts!Next]_Texts!vars PROVE TextInv'
    OBVIOUS
  <2>1. CASE Texts!ReadToken
    <3>1. reading = "decoding" /\ rewritten' = rewritten
      BY <2>1 DEF Texts!ReadToken
    <3>2. PICK t \in Texts!NextToken : Texts!DecodeJSONValue(t) /\ tokens' = Append(tokens, t)
      BY <2>1 DEF Texts!ReadToken
    <3>3. /\ IsSequence(tokens')
          /\ Assumed => /\ t \in JsonToken
                        /\ rewritten # <<>> => Len(tokens') <= Len(rewritten)
      BY <3>2, NextTokenIs
    <3>4. IsStack(frames)
      BY DEF TextInv
    <3>5. Advanced
      BY <3>1, <3>2, <3>3, <3>4, TokenIsDecoded
    <3> QED
      BY <3>1, <3>3, <3>5 DEF TextInv, Advanced
  <2>2. CASE Texts!ReadTrailingData
    <3>1. /\ reading' = "refused" /\ frames' = frames /\ rewritten' = rewritten
      BY <2>2 DEF Texts!ReadTrailingData
    <3>2. PICK t \in Texts!NextToken : tokens' = Append(tokens, t)
      BY <2>2 DEF Texts!ReadTrailingData
    <3>3. /\ IsSequence(tokens')
          /\ Assumed => (rewritten # <<>> => Len(tokens') <= Len(rewritten))
      BY <3>2, NextTokenIs
    <3> QED
      BY <3>1, <3>3 DEF TextInv
  <2>3. CASE Texts!EndOfText
    BY <2>3 DEF Texts!EndOfText, TextInv
  <2>4. CASE Texts!WriteAndReadAgain
    <3>1. /\ reading = "accepted" /\ rewritten' \in CanonicalForms(decoded)
          /\ tokens' = <<>> /\ frames' = <<>> /\ reading' = "decoding"
      BY <2>4 DEF Texts!WriteAndReadAgain
    <3>2. ASSUME Assumed PROVE rewritten' \in Seq(JsonToken) /\ Len(tokens') <= Len(rewritten')
      <4>1. CanonicalForms(decoded) \subseteq Seq(JsonToken)
        BY <3>1, <3>2 DEF TextInv, IsValue, WrittenOnce, AtMostOne
      <4>2. rewritten' \in Seq(JsonToken)
        BY <3>1, <4>1
      <4> QED
        BY <3>1, <4>2
    <3>3. IsSequence(<<>>) /\ IsStack(<<>>)
      BY Sequences, EmptyStack
    <3> QED
      BY <3>1, <3>2, <3>3 DEF TextInv
  <2>5. CASE UNCHANGED Texts!vars
    BY <2>5 DEF TextInv, Texts!vars
  <2> QED
    BY <2>1, <2>2, <2>3, <2>4, <2>5 DEF Texts!Next
<1> QED
  BY <1>1, <1>2, PTL DEF Texts!Spec

(* What follows from it: the types, the count of the members, one text per *)
(* value, and the order of the names.                                      *)
LEMMA TextsTyped == TextInv => Texts!TypeOK
<1> SUFFICES ASSUME TextInv PROVE Texts!TypeOK
  OBVIOUS
<1>1. /\ IsStack(frames) /\ reading \in {"decoding", "decoded", "accepted", "refused"}
      /\ reading \in {"decoded", "accepted"} => frames = <<>>
  BY DEF TextInv
<1>2. DOMAIN frames = 1..Len(frames)
  BY <1>1, Sequences DEF IsStack
<1>3. \A i \in 1..Len(frames) :
        /\ frames[i].kind \in {"array", "object"}
        /\ frames[i].name # <<>> => frames[i].kind = "object"
  BY <1>1 DEF IsStack, IsFrame, IsCounted
<1>4. \A i \in 1..Len(frames) :
        i < Len(frames) /\ frames[i].kind = "object" => frames[i].name # <<>>
  BY <1>1 DEF IsStack
<1> QED
  BY <1>1, <1>2, <1>3, <1>4 DEF Texts!TypeOK, Texts!Nothing

LEMMA MembersAreCounted == TextInv => Texts!NoMemberIsLost
<1> SUFFICES ASSUME TextInv, NEW i \in DOMAIN frames
             PROVE  frames[i].written
                      = Texts!Cardinality(DOMAIN frames[i].members) + Len(frames[i].name)
  BY DEF Texts!NoMemberIsLost
<1> DEFINE f == frames[i]
<1>1. IsCounted(f)
  BY Sequences DEF TextInv, IsStack, IsFrame
<1> HIDE DEF f
<1>2. /\ f.name # <<>> => f.name = <<f.name[1]>>
      /\ f.written = Cardinality(DOMAIN f.members) + (IF f.name = <<>> THEN 0 ELSE 1)
  BY <1>1 DEF IsCounted
<1>3. Len(f.name) = IF f.name = <<>> THEN 0 ELSE 1
  <2>1. CASE f.name = <<>>
    BY <2>1
  <2>2. CASE f.name # <<>>
    <3>1. Len(<<f.name[1]>>) = 1
      OBVIOUS
    <3> QED
      BY <1>2, <2>2, <3>1
  <2> QED
    BY <2>1, <2>2
<1> QED
  BY <1>2, <1>3, SameCount DEF f

LEMMA OneText == Assumed /\ TextInv => Texts!OneTextPerValue
<1> SUFFICES ASSUME Assumed, TextInv, reading = "accepted"
             PROVE  Texts!Cardinality(CanonicalForms(decoded)) <= 1
  BY DEF Texts!OneTextPerValue
<1> DEFINE set == CanonicalForms(decoded)
<1>1. \A x, y \in set : x = y
  BY DEF TextInv, IsValue, WrittenOnce, AtMostOne
<1> HIDE DEF set
<1>2. set = {} \/ \E x : set = {x}
  BY <1>1
<1>3. Cardinality(set) <= 1
  <2>1. Cardinality(set) = 0 \/ Cardinality(set) = 1
    BY <1>2, FS_EmptySet, FS_Singleton, Zenon
  <2> QED
    BY <2>1
<1> QED
  BY <1>3, SameCount DEF set

LEMMA NamesSorted == Assumed /\ TextInv => Texts!NamesInOrder
<1> SUFFICES ASSUME Assumed, TextInv, reading = "accepted", decoded.kind = "object",
                    NEW order \in Texts!SortedNames(DOMAIN decoded.members),
                    NEW i \in 1..(Len(order) - 1)
             PROVE  Texts!Precedes(order[i], order[i + 1])
  BY DEF Texts!NamesInOrder
<1> DEFINE names == DOMAIN decoded.members
<1>1. IsFiniteSet(names) /\ \A n \in names : IsString(n)
  BY DEF TextInv, IsValue
<1>2. IsSorted(names, order)
  BY <1>1, SortedAre
<1>3. i \in 1..Len(order) /\ i + 1 \in 1..Len(order) /\ i < i + 1
  BY <1>2 DEF IsSorted
<1> QED
  BY <1>2, <1>3 DEF IsSorted

-----------------------------------------------------------------------------
(* Side by side: a behaviour of Library is one of its part.                *)

LEMMA RoutesApart == LibrarySpec => []~(part = "routes") \/ Boundary!Spec
<1>1. LibraryInit /\ part = "routes" => Boundary!Init
  BY DEF LibraryInit
<1>2. [LibraryNext]_libraryVars /\ part = "routes" => (part = "routes")' /\ [Boundary!Next]_wire
  BY DEF LibraryNext, RouteStep, StringStep, WalkStep, ListStep, MetadataStep,
     TextStep, GrantStep, libraryVars
<1>3. [LibraryNext]_libraryVars /\ ~(part = "routes") => (~(part = "routes"))'
  BY DEF LibraryNext, RouteStep, StringStep, WalkStep, ListStep, MetadataStep,
     TextStep, GrantStep, libraryVars
<1> QED
  BY <1>1, <1>2, <1>3, PTL DEF LibrarySpec, Boundary!Spec

LEMMA StringsApart == LibrarySpec => []~(part = "strings") \/ Strings!Spec
<1>1. LibraryInit /\ part = "strings" => Strings!Init
  BY DEF LibraryInit
<1>2. [LibraryNext]_libraryVars /\ part = "strings"
        => (part = "strings")' /\ [Strings!Next]_(Strings!vars)
  BY DEF LibraryNext, RouteStep, StringStep, WalkStep, ListStep, MetadataStep,
     TextStep, GrantStep, libraryVars, stringVars, Strings!vars
<1>3. [LibraryNext]_libraryVars /\ ~(part = "strings") => (~(part = "strings"))'
  BY DEF LibraryNext, RouteStep, StringStep, WalkStep, ListStep, MetadataStep,
     TextStep, GrantStep, libraryVars
<1> QED
  BY <1>1, <1>2, <1>3, PTL DEF LibrarySpec, Strings!Spec

LEMMA WalkApart == LibrarySpec => []~(part = "walk") \/ Walk!Spec
<1>1. LibraryInit /\ part = "walk" => Walk!Init
  BY DEF LibraryInit
<1>2. [LibraryNext]_libraryVars /\ part = "walk"
        => (part = "walk")' /\ [Walk!Next]_(Walk!vars)
  BY DEF LibraryNext, RouteStep, StringStep, WalkStep, ListStep, MetadataStep,
     TextStep, GrantStep, libraryVars, walkVars, Walk!vars
<1>3. [LibraryNext]_libraryVars /\ ~(part = "walk") => (~(part = "walk"))'
  BY DEF LibraryNext, RouteStep, StringStep, WalkStep, ListStep, MetadataStep,
     TextStep, GrantStep, libraryVars
<1> QED
  BY <1>1, <1>2, <1>3, PTL DEF LibrarySpec, Walk!Spec

LEMMA ListsApart == LibrarySpec => []~(part = "lists") \/ Scopes!Spec
<1>1. LibraryInit /\ part = "lists" => Scopes!Init
  BY DEF LibraryInit
<1>2. [LibraryNext]_libraryVars /\ part = "lists"
        => (part = "lists")' /\ [Scopes!Next]_(Scopes!vars)
  BY DEF LibraryNext, RouteStep, StringStep, WalkStep, ListStep, MetadataStep,
     TextStep, GrantStep, libraryVars, listVars, Scopes!vars
<1>3. [LibraryNext]_libraryVars /\ ~(part = "lists") => (~(part = "lists"))'
  BY DEF LibraryNext, RouteStep, StringStep, WalkStep, ListStep, MetadataStep,
     TextStep, GrantStep, libraryVars
<1> QED
  BY <1>1, <1>2, <1>3, PTL DEF LibrarySpec, Scopes!Spec

LEMMA MetadataApart == LibrarySpec => []~(part = "metadata") \/ Metadata!Spec
<1>1. LibraryInit /\ part = "metadata" => Metadata!Init
  BY DEF LibraryInit
<1>2. [LibraryNext]_libraryVars /\ part = "metadata"
        => (part = "metadata")' /\ [Metadata!Next]_(Metadata!vars)
  BY DEF LibraryNext, RouteStep, StringStep, WalkStep, ListStep, MetadataStep,
     TextStep, GrantStep, libraryVars, peerVars, Metadata!vars
<1>3. [LibraryNext]_libraryVars /\ ~(part = "metadata") => (~(part = "metadata"))'
  BY DEF LibraryNext, RouteStep, StringStep, WalkStep, ListStep, MetadataStep,
     TextStep, GrantStep, libraryVars
<1> QED
  BY <1>1, <1>2, <1>3, PTL DEF LibrarySpec, Metadata!Spec

LEMMA TextsApart == LibrarySpec => []~(part = "texts") \/ Texts!Spec
<1>1. LibraryInit /\ part = "texts" => Texts!Init
  BY DEF LibraryInit
<1>2. [LibraryNext]_libraryVars /\ part = "texts"
        => (part = "texts")' /\ [Texts!Next]_(Texts!vars)
  BY DEF LibraryNext, RouteStep, StringStep, WalkStep, ListStep, MetadataStep,
     TextStep, GrantStep, libraryVars, textVars, Texts!vars
<1>3. [LibraryNext]_libraryVars /\ ~(part = "texts") => (~(part = "texts"))'
  BY DEF LibraryNext, RouteStep, StringStep, WalkStep, ListStep, MetadataStep,
     TextStep, GrantStep, libraryVars
<1> QED
  BY <1>1, <1>2, <1>3, PTL DEF LibrarySpec, Texts!Spec

LEMMA GrantsApart == LibrarySpec => []~(part = "grants") \/ Spec
<1>1. LibraryInit /\ part = "grants" => Init
  BY DEF LibraryInit
<1>2. [LibraryNext]_libraryVars /\ part = "grants" => (part = "grants")' /\ [Next]_vars
  BY DEF LibraryNext, RouteStep, StringStep, WalkStep, ListStep, MetadataStep,
     TextStep, GrantStep, libraryVars
<1>3. [LibraryNext]_libraryVars /\ ~(part = "grants") => (~(part = "grants"))'
  BY DEF LibraryNext, RouteStep, StringStep, WalkStep, ListStep, MetadataStep,
     TextStep, GrantStep, libraryVars
<1> QED
  BY <1>1, <1>2, <1>3, PTL DEF LibrarySpec, Spec

(* The variables of every part have their types.                           *)
THEOREM TypeCorrect ==
  /\ Assumptions /\ NoneAssumption
  /\ Scopes!ItemAssumption /\ Walk!HeapAssumption /\ Metadata!SizeAssumption
  /\ LibrarySpec
  => []LibraryTypeOK
<1> SUFFICES ASSUME Assumptions, NoneAssumption, Scopes!ItemAssumption,
                    Walk!HeapAssumption, Metadata!SizeAssumption
             PROVE  LibrarySpec => []LibraryTypeOK
  OBVIOUS
<1>1. WireInv => wire.route \in Seq(Node \cup {Foreign})
  BY DEF WireInv, AnyContext, Contexts
<1>2. Spec => []TypeOK
  BY TransitTypes
<1>3. Scopes!Spec => []Scopes!TypeOK
  BY ListTypes
<1>4. Walk!Spec => []Walk!TypeOK
  BY WalkTypes
<1>5. Metadata!Spec => []PeersMatch
  BY PeersAgree
<1> QED
  BY <1>1, <1>2, <1>3, <1>4, <1>5, ScanTypes, WireInvHolds, RoutesApart, StringsApart,
     TextInvHolds, TextsTyped, WalkApart, ListsApart, MetadataApart, TextsApart,
     GrantsApart, PTL DEF LibraryTypeOK, PeersMatch

(* Product accepts exactly the contexts that came along a private path,    *)
(* and what a receiver returns can be sent on, with routes of any length   *)
(* and nodes of any name (callcontext.go:112, :158, :243, :263).           *)
THEOREM BoundariesAlwaysExact == LibrarySpec => []BoundariesAreExact
BY BoundariesHold, RoutesApart, PTL DEF BoundariesAreExact

(* In a text of any length, nothing that the scan lets pass is replaced by *)
(* encoding/json; a text that it refuses at a chunk has one that is        *)
(* replaced or malformed, in whatever way it goes on; one that it finds    *)
(* unfinished leaves a string open; and however deep the objects are, no   *)
(* member of one is lost (idempotency.go:578, :630, :640, :652, :672).     *)
THEOREM AllIsRead == LibrarySpec => []NothingIsLostInReading
BY ScanAgrees, StringsApart, TextInvHolds, MembersAreCounted, TextsApart, PTL
   DEF NothingIsLostInReading

(* A value that was read from a text of any length and nesting has at most *)
(* one canonical text, in whatever order Go walks its maps, and its names  *)
(* are in the order of RFC 8785, with strings of any characters            *)
(* (idempotency.go:348, :356, :519).                                       *)
THEOREM WrittenAsOne ==
  Texts!WritingAssumption /\ Texts!SpelledAssumption /\ LibrarySpec => []OneTextPerValue
<1> SUFFICES ASSUME Texts!WritingAssumption, Texts!SpelledAssumption
             PROVE  LibrarySpec => []OneTextPerValue
  OBVIOUS
<1>1. Assumed
  BY DEF Assumed
<1>2. TextInv => Texts!OneTextPerValue /\ Texts!NamesInOrder
  BY <1>1, OneText, NamesSorted
<1> QED
  BY <1>2, TextInvHolds, TextsApart, PTL DEF OneTextPerValue

(* The walk over any finite heap is never deeper than there are locations, *)
(* and refuses only an address that is within itself                       *)
(* (idempotency.go:236-253).                                               *)
THEOREM OnlyNestedIsRefused ==
  Walk!HeapAssumption /\ LibrarySpec => []RefusedOnlyIfNested
<1> SUFFICES ASSUME Walk!HeapAssumption PROVE LibrarySpec => []RefusedOnlyIfNested
  OBVIOUS
<1>1. Walk!Spec => [](Walk!DepthIsBounded /\ Walk!RefusedOnlyIfNested)
  BY WalkRefuses
<1> QED
  BY <1>1, WalkApart, PTL DEF RefusedOnlyIfNested

(* Lists of scopes that were accepted compare as sets, and a name that a   *)
(* grant may hold has a replay key (replay.go:256, :284,                   *)
(* product_delegation.go:354).                                             *)
THEOREM ListsCompareAsSets ==
  Scopes!ItemAssumption /\ LibrarySpec => []ListsAreSets
<1> SUFFICES ASSUME Scopes!ItemAssumption PROVE LibrarySpec => []ListsAreSets
  OBVIOUS
<1>1. Scopes!Spec => [](Scopes!ListsAreSets /\ Scopes!GrantedNameHasKey)
  BY OrderedLists
<1> QED
  BY <1>1, ListsApart, PTL DEF ListsAreSets

(* Metadata that may be sent is read as it was meant, and what is read is  *)
(* in the one spelling that its sender's code writes, for tokens of any    *)
(* size, generations up to any bound and values repeated, dropped, padded  *)
(* or respelled on the way (metadata.go:80, :107, :131, :146).             *)
THEOREM OneSpellingEach ==
  Metadata!SizeAssumption /\ LibrarySpec => []IdentityHasOneSpelling
<1> SUFFICES ASSUME Metadata!SizeAssumption PROVE LibrarySpec => []IdentityHasOneSpelling
  OBVIOUS
<1>1. Metadata!Spec => []PeersMatch
  BY PeersAgree
<1> QED
  BY <1>1, MetadataApart, PTL DEF IdentityHasOneSpelling, PeersMatch

(* Whatever the Agent reads out of a text, respelled, relabelled, damaged  *)
(* or of another release, was signed as that kind of grant, with the key   *)
(* the Agent was given, in every field (grant.go:238, :580, :797).         *)
THEOREM ReadIsAsSigned == Assumptions /\ LibrarySpec => []GrantReadAsSigned
<1> SUFFICES ASSUME Assumptions PROVE LibrarySpec => []GrantReadAsSigned
  OBVIOUS
<1>1. Spec => []ReadAsSigned
  BY TextsReadAsSigned
<1> QED
  BY <1>1, GrantsApart, PTL DEF GrantReadAsSigned

(* An untouched text is accepted exactly when its claims are, if it fits   *)
(* and the halves of the signing key agree (grant.go:187, :220, :380).     *)
THEOREM TextsAreTheirClaims == Assumptions /\ LibrarySpec => []GrantTextIsItsClaims
<1> SUFFICES ASSUME Assumptions PROVE LibrarySpec => []GrantTextIsItsClaims
  OBVIOUS
<1>1. Spec => []TextIsItsClaims
  BY IntactTexts
<1> QED
  BY <1>1, GrantsApart, PTL DEF GrantTextIsItsClaims

(* What is read out of a key file is the key last read out of it, however  *)
(* often it was refused in between, unless the block of that key has been  *)
(* damaged (DamagedBlockIsSkipped) or the file published anew; for any key *)
(* material, any edits and any number of blocks (grant.go:380, :409, :434, *)
(* :462-474).                                                              *)
THEOREM KeysStay == Assumptions /\ LibrarySpec => KeyStaysOrIsRefused
<1> SUFFICES ASSUME Assumptions PROVE LibrarySpec => KeyStaysOrIsRefused
  OBVIOUS
<1>1. Spec => [][KeyStays]_vars
  BY FilesKeepKeys
<1>2. Spec => []TransitInv
  BY TransitInvHolds
<1>3. ASSUME TransitInv, UNCHANGED vars PROVE KeyStays
  <2>1. signerFile' = signerFile /\ readerFile' = readerFile
    BY <1>3 DEF vars
  <2>2. /\ ParseGrantPrivateKey(signerFile).seed \in {signerKey, Missing}
        /\ ParseGrantPublicKey(readerFile) \in {readerKey, Missing}
    BY <1>3 DEF TransitInv, KeysHeld, KeyIsHeld
  <2> QED
    BY <2>1, <2>2, Zenon DEF KeyStays
<1> QED
  BY <1>1, <1>2, <1>3, GrantsApart, PTL DEF KeyStaysOrIsRefused, libraryVars
=============================================================================
