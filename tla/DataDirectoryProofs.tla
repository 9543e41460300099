-------------------------- MODULE DataDirectoryProofs --------------------------
(***************************************************************************)
(* Theorems of DataDirectory, for any datasets, years, backups of other    *)
(* directories and bounds: its safety properties, and that the whole is    *)
(* one swap.                                                               *)
(*                                                                         *)
(* The invariant has four parts.  Typed says what the variables hold.      *)
(* LakeFits says what the writer of the lake may find, and that the pair   *)
(* in place, and the backup, are such that services can work with them.    *)
(* JournalFits is the one that matters: while a restore is undecided each  *)
(* component is in one of five situations, and the steps still to be done  *)
(* say in which.  The notes in the journal may lack the last rename, when  *)
(* a crash has cut it off; recovery adds it first.  A roll-back therefore  *)
(* has an account of its own (RolledBackTo), of what each of its fourteen  *)
(* steps may rely on.  StartFits says what a restore that has no journal   *)
(* yet relies on: that nothing else writes, and that its backup is good.   *)
(*                                                                         *)
(* The exception is Mistaken: a component whose new contents equal its old *)
(* ones, when a roll-back of it was cut short.  It is why recovery may     *)
(* refuse what recovery has left.                                          *)
(***************************************************************************)
EXTENDS DataDirectory, SequenceTheorems, TLAPS

--------------------------------------------------------------------------------
(* What the variables hold.                                                *)

Databases == [catalogue : SUBSET Datasets, rows : 0..MaxRows]
Lakes == [target : SUBSET Files, temp : [Files -> {"none", "own", "alias"}]]
Contents(c) == {{}} \cup {{x} : x \in IF c = "database" THEN Databases ELSE Lakes}

IsPair(p) == /\ DOMAIN p = Components
             /\ p = [c \in Components |-> p[c]]
             /\ \A c \in Components : p[c] \in Contents(c)

Typed ==
    /\ LakeTypeOK
    /\ rows \in 0..MaxRows
    /\ present \subseteq Components
    /\ serving \in BOOLEAN /\ staged \in BOOLEAN /\ manifest \in BOOLEAN /\ refused \in BOOLEAN
    /\ clone \in Contents("database")
    /\ \A a \in archive : IsPair(a)
    /\ DOMAIN aside = Asides /\ aside = [p \in Asides |-> aside[p]]
    /\ \A p \in Asides : IsPair(aside[p])
    /\ journal = [phase |-> journal.phase, original |-> journal.original,
                  installed |-> journal.installed, moved |-> journal.moved,
                  placed |-> journal.placed]
    /\ journal.phase \in {"none", "prepared"} \cup Final
    /\ IsPair(journal.original) /\ IsPair(journal.installed)
    /\ journal.moved \subseteq Components /\ journal.placed \subseteq Components
    /\ torn \subseteq Asides

--------------------------------------------------------------------------------
(* The lake and its writer.                                                *)

\* A pair that services can work with: what is catalogued can be read, and nothing that
\* is left over keeps a writer out.
Usable(p) ==
    /\ \A db \in p["database"] : db.catalogue # {} => p["market"] # {}
    /\ \A lake \in p["market"] :
         /\ \A f \in lake.target : lake.temp[f] # "own"
         /\ \A db \in p["database"] : \A f \in ListedIn(db.catalogue) :
              f \in lake.target /\ lake.temp[f] = "none"

LakeFits ==
    /\ writer # NoWriter => serving /\ present = Components
    /\ ~At("idle") /\ writer.dataset \in catalogue => writer.created = {}
    /\ writer.at \in {"create", "link"} => File \notin target
    /\ "database" \notin present => catalogue = {} /\ rows = 0
    /\ "market" \notin present => target = {} /\ temp = NoFiles
    /\ LeftoversAreRecoverable
    /\ journal = NoJournal => Usable(Live)
    /\ \A a \in archive : Usable(a)

--------------------------------------------------------------------------------
(* A component while the restore is undecided.                             *)

Original(c)  == journal.original[c]
Installed(c) == journal.installed[c]
SetAside(c)  == aside["rollback"][c]
ToPlace(c)   == aside["new"][c]
Discarded(c) == aside["discarded"][c]

\* Where its new contents are: in the stage, in place, or discarded.
Untouched(c) == LiveOf(c) = Original(c) /\ SetAside(c) = {}
                /\ ToPlace(c) = Installed(c) /\ Discarded(c) = {}
Moved(c)     == LiveOf(c) = {} /\ SetAside(c) = Original(c)
                /\ ToPlace(c) = Installed(c) /\ Discarded(c) = {}
Placed(c)    == LiveOf(c) = Installed(c) /\ SetAside(c) = Original(c)
                /\ ToPlace(c) = {} /\ Discarded(c) = {}
Undone(c)    == LiveOf(c) = {} /\ SetAside(c) = Original(c)
                /\ ToPlace(c) = {} /\ Discarded(c) = Installed(c)
Restored(c)  == LiveOf(c) = Original(c) /\ SetAside(c) = {}
                /\ ToPlace(c) = {} /\ Discarded(c) = Installed(c)

\* Its new contents equal the old ones and its rollback was cut short between a rename and
\* the note of it: recovery takes the old ones in place for the new ones.
Mistaken(c) ==
    /\ Restored(c) /\ Original(c) = Installed(c) /\ Had(c)
    /\ c \in journal.moved /\ c \in journal.placed

ComponentFits(c) ==
    /\ Untouched(c) \/ Moved(c) \/ Placed(c) \/ Undone(c) \/ Restored(c)
    /\ c \in journal.moved => Had(c)
    /\ c \in journal.placed => Installed(c) # {} /\ (Placed(c) \/ Undone(c) \/ Mistaken(c))
    /\ SetAside(c) # {} /\ Discarded(c) # {} => c \in journal.moved

--------------------------------------------------------------------------------
(* What the restore or recovery under way has still to do.                 *)

Item(word, c) == <<word, c>>
Then(word, c, rest) == <<Item(word, c)>> \o rest

Cleaning == Then("clean", "both", <<>>)
Committing == Then("commit", "both", Cleaning)

MoveThen(c, rest) ==
    IF Had(c) THEN Then("move", c, Then("note move", c, rest)) ELSE rest
PlaceThen(c, rest) ==
    IF Installed(c) # {} THEN Then("place", c, Then("note place", c, rest)) ELSE rest

\* The database goes first.
After(c) ==
    IF c = "market" THEN Committing
    ELSE MoveThen("market", PlaceThen("market", Committing))
OtherFits(c) == IF c = "database" THEN Untouched("market") ELSE Placed("database")

RestoreAt(c) ==
    LET placing == PlaceThen(c, After(c)) IN
    /\ OtherFits(c)
    /\ \/ /\ todo = Then("move", c, Then("note move", c, placing))
          /\ Untouched(c) /\ Had(c)
       \/ /\ todo = Then("note move", c, placing)
          /\ Moved(c) /\ Had(c)
       \/ /\ todo = Then("place", c, Then("note place", c, After(c)))
          /\ Moved(c) /\ Installed(c) # {}
       \/ /\ todo = Then("note place", c, After(c))
          /\ Placed(c) /\ Installed(c) # {}

Restoring ==
    \/ \E c \in Components : RestoreAt(c)
    \/ todo = Committing /\ \A c \in Components : Placed(c)

\* The places of a component in RollBackSteps.
Reconciled(c) == IF c = "database" THEN 1 ELSE 3
Undoing(c) == IF c = "database" THEN 9 ELSE 5

AsideIsNoted(c) == SetAside(c) # {} => c \in journal.moved
NewIsNoted(c) == Placed(c) /\ Installed(c) # {} => c \in journal.placed
NewIsGone(c) == ~Mistaken(c) /\ (Placed(c) => Installed(c) = {})
OldIsBack(c) == LiveOf(c) = Original(c) /\ SetAside(c) = {}

RolledBackTo(k, c) ==
    /\ k > Reconciled(c) => AsideIsNoted(c)
    /\ k > Reconciled(c) + 1 => NewIsNoted(c)
    /\ k > Undoing(c) => NewIsGone(c)
    /\ k > Undoing(c) + 1 => c \notin journal.placed
    /\ k > Undoing(c) + 2 => OldIsBack(c)

RollingBack ==
    \E k \in 1..13 :
        /\ todo = SubSeq(RollBackSteps, k, 14)
        /\ \A c \in Components : RolledBackTo(k, c)

JournalFits ==
    /\ journal.phase = "none" => journal = NoJournal
    /\ serving => journal = NoJournal
    /\ journal = NoJournal =>
         todo = <<>> /\ ~staged /\ ~manifest /\ Empty /\ ~refused
    /\ \A p \in torn : aside[p]["market"] # {}
    /\ journal # NoJournal => Usable(journal.original) /\ Usable(journal.installed)
    /\ journal.phase = "committed" => Live = journal.installed
    /\ journal.phase = "rolled_back" => Live = journal.original
    /\ journal.phase = "prepared" =>
         /\ staged /\ manifest /\ torn = {}
         /\ \A c \in Components : ComponentFits(c)
         /\ todo = <<>> \/ Restoring \/ RollingBack
         /\ refused => \E c \in Components : Mistaken(c)
    /\ journal.phase \in Final =>
         /\ todo \in {<<>>, Cleaning}
         /\ refused => todo = <<>> /\ ~(StageFits /\ AsidesFit)

DirectoryInv == Typed /\ LakeFits /\ JournalFits

--------------------------------------------------------------------------------
(* A restore that has no journal yet.                                      *)

\* Nothing but the restore changes the directory, and the backup it was given is a good
\* one.  Each restore has left at most one stage without a journal.
StartFits ==
    /\ prep \in {"none", "locked", "requeued", "ready", "staged"}
    /\ restores \in Nat /\ strays \in 0..restores
    /\ prep \in {"locked", "requeued", "ready"} => strays < restores
    /\ prep = "staged" => strays > 0
    /\ prep # "none" => ~serving /\ journal = NoJournal /\ bundle # {}
    /\ prep \in {"locked", "requeued"} => "database" \in present
    /\ \A a \in bundle : IsPair(a) /\ Usable(a)

Sound == DirectoryInv /\ StartFits

--------------------------------------------------------------------------------
(* Renames.                                                                *)

LEMMA ComponentsAre ==
    /\ "database" \in Components /\ "market" \in Components
    /\ \A c \in Components : c = "database" \/ c = "market"
BY DEF Components

\* What is in place is a pair.
LEMMA LiveIsTyped ==
    ASSUME Typed
    PROVE  /\ \A c \in Components : LiveOf(c) \in Contents(c) /\ Live[c] = LiveOf(c)
           /\ IsPair(Live)
<1>1. LiveOf("database") \in Contents("database")
  BY DEF Typed, LakeTypeOK, LiveOf, Database, Contents, Databases
<1>2. LiveOf("market") \in Contents("market")
  BY DEF Typed, LakeTypeOK, LiveOf, Lake, Contents, Lakes
<1> QED
  BY <1>1, <1>2, ComponentsAre DEF Live, IsPair

\* What a component in place becomes, and that the other stays as it is.
LEMMA Renamed ==
    ASSUME Typed, NEW c \in Components, NEW contents \in Contents(c), PutLive(c, contents)
    PROVE  /\ LiveOf(c)' = contents
           /\ \A d \in Components \ {c} : LiveOf(d)' = LiveOf(d)
           /\ writer' = writer /\ LakeTypeOK' /\ rows' \in 0..MaxRows /\ present' \subseteq Components
<1> 0 \in 0..MaxRows
  BY DirectoryBounds
<1>1. CASE c = "database" /\ contents = {}
  BY <1>1, ComponentsAre DEF PutLive, Typed, LakeTypeOK, LiveOf
<1>2. CASE c = "market" /\ contents = {}
  BY <1>2, ComponentsAre DEF PutLive, Typed, LakeTypeOK, LiveOf, NoFiles
<1>3. ASSUME c = "database", NEW db \in Databases, contents = {db}
      PROVE  /\ LiveOf(c)' = contents /\ UNCHANGED <<target, temp, writer>>
             /\ catalogue' \in SUBSET Datasets /\ rows' \in 0..MaxRows
             /\ present' = present \cup {c}
  BY <1>3 DEF PutLive, Databases, LiveOf, Database
<1>4. ASSUME c = "market", NEW lake \in Lakes, contents = {lake}
      PROVE  /\ LiveOf(c)' = contents /\ UNCHANGED <<catalogue, rows, writer>>
             /\ target' \in SUBSET Files /\ temp' \in [Files -> {"none", "own", "alias"}]
             /\ present' = present \cup {c}
  BY <1>4 DEF PutLive, Lakes, LiveOf, Lake
<1> QED
  BY <1>1, <1>2, <1>3, <1>4, ComponentsAre DEF Contents, Typed, LakeTypeOK, LiveOf

\* A rename keeps what is known of the lake and its writer.
LEMMA RenamedLake ==
    ASSUME Typed, LakeFits, ~serving, ~serving', journal' # NoJournal, UNCHANGED archive,
           NEW c \in Components, NEW contents \in Contents(c), PutLive(c, contents),
           c = "market" => \A lake \in contents : \A f \in lake.target : lake.temp[f] # "own"
    PROVE  LakeFits'
<1>1. writer = NoWriter /\ writer' = NoWriter /\ NoWriter.at = "idle"
  BY DEF LakeFits, PutLive, NoWriter
<1>2. \A a \in archive : Usable(a)
  BY DEF LakeFits
<1>3. ~At("idle")' => FALSE
  BY <1>1 DEF At
<1>4. /\ "database" \notin present' => catalogue' = {} /\ rows' = 0
      /\ "market" \notin present' => target' = {} /\ temp' = NoFiles
  BY ComponentsAre DEF PutLive, LakeFits
<1>5. LeftoversAreRecoverable'
  <2>1. CASE c = "database"
    BY <2>1 DEF PutLive, LakeFits, LeftoversAreRecoverable
  <2>2. CASE c = "market" /\ contents = {}
    BY <2>2 DEF PutLive, LeftoversAreRecoverable
  <2>3. ASSUME c = "market", NEW lake \in Lakes, contents = {lake}
        PROVE  LeftoversAreRecoverable'
    BY <2>3 DEF PutLive, LeftoversAreRecoverable
  <2> QED
    BY <2>1, <2>2, <2>3, ComponentsAre DEF Contents
<1> QED
  BY <1>1, <1>2, <1>3, <1>4, <1>5 DEF LakeFits

\* One component of a pair is replaced.
LEMMA PairReplaced ==
    ASSUME NEW pair, IsPair(pair), NEW c \in Components, NEW contents \in Contents(c)
    PROVE  /\ IsPair([pair EXCEPT ![c] = contents])
           /\ \A d \in Components :
                [pair EXCEPT ![c] = contents][d] = IF d = c THEN contents ELSE pair[d]
<1>1. pair = [d \in Components |-> pair[d]] /\ \A d \in Components : pair[d] \in Contents(d)
  BY DEF IsPair
<1>2. [pair EXCEPT ![c] = contents] = [d \in Components |-> IF d = c THEN contents ELSE pair[d]]
  BY <1>1
<1> DEFINE new == [d \in Components |-> IF d = c THEN contents ELSE pair[d]]
<1>3. \A d \in Components : new[d] = IF d = c THEN contents ELSE pair[d]
  OBVIOUS
<1>4. IsPair(new)
  BY <1>1, <1>3 DEF IsPair
<1> QED
  BY <1>2, <1>3, <1>4

Shelving(shelves, p, c, contents) == shelves = [aside EXCEPT ![p][c] = contents]

\* What lies aside when one component of one place is replaced.
LEMMA Shelved ==
    ASSUME Typed, NEW p \in Asides, NEW c \in Components, NEW contents \in Contents(c),
           NEW shelves, Shelving(shelves, p, c, contents)
    PROVE  /\ shelves[p][c] = contents
           /\ \A q \in Asides, d \in Components :
                q # p \/ d # c => shelves[q][d] = aside[q][d]
           /\ DOMAIN shelves = Asides /\ shelves = [q \in Asides |-> shelves[q]]
           /\ \A q \in Asides : IsPair(shelves[q])
<1>1. /\ DOMAIN aside = Asides /\ aside = [q \in Asides |-> aside[q]]
      /\ \A q \in Asides : IsPair(aside[q])
  BY DEF Typed
<1>2. \A q \in Asides : shelves[q] = IF q = p THEN [aside[p] EXCEPT ![c] = contents] ELSE aside[q]
  BY <1>1 DEF Shelving
<1>3. shelves[p] = [aside[p] EXCEPT ![c] = contents] /\ IsPair(aside[p])
  BY <1>1, <1>2
<1>4. IsPair(shelves[p]) /\ shelves[p][c] = contents
      /\ \A d \in Components : d # c => shelves[p][d] = aside[p][d]
  BY <1>3, PairReplaced
<1>5. DOMAIN shelves = Asides /\ shelves = [q \in Asides |-> shelves[q]]
  BY <1>1 DEF Shelving
<1> QED
  BY <1>1, <1>2, <1>4, <1>5

\* A rename out of place empties it and fills the other.
LEMMA PutAside ==
    ASSUME Typed, NEW p \in Asides, NEW c \in Components, MoveAside(c, p)
    PROVE  /\ aside'[p][c] = LiveOf(c) /\ LiveOf(c)' = {}
           /\ \A q \in Asides, d \in Components :
                q # p \/ d # c => aside'[q][d] = aside[q][d]
           /\ \A d \in Components \ {c} : LiveOf(d)' = LiveOf(d)
<1>1. {} \in Contents(c) /\ LiveOf(c) \in Contents(c)
  BY LiveIsTyped DEF Contents
<1>2. PICK contents \in Contents(c) : contents = LiveOf(c)
  BY <1>1
<1>3. Shelving(aside', p, c, contents) /\ PutLive(c, {})
  BY <1>2 DEF MoveAside, Shelving
<1>4. LiveOf(c)' = {} /\ \A d \in Components \ {c} : LiveOf(d)' = LiveOf(d)
  BY <1>1, <1>3, Renamed
<1>5. /\ aside'[p][c] = contents
      /\ \A q \in Asides, d \in Components : q # p \/ d # c => aside'[q][d] = aside[q][d]
  BY <1>2, <1>3, Shelved
<1> QED
  BY <1>2, <1>4, <1>5

\* A rename into place does the reverse.
LEMMA TakenBack ==
    ASSUME Typed, NEW p \in Asides, NEW c \in Components, PutBack(c, p)
    PROVE  /\ LiveOf(c)' = aside[p][c] /\ aside'[p][c] = {}
           /\ \A q \in Asides, d \in Components :
                q # p \/ d # c => aside'[q][d] = aside[q][d]
           /\ \A d \in Components \ {c} : LiveOf(d)' = LiveOf(d)
<1>1. {} \in Contents(c) /\ aside[p][c] \in Contents(c)
  BY DEF Contents, Typed, IsPair
<1> QED
  BY <1>1, Shelved, Renamed DEF PutBack, Shelving

\* A rename of the restore or of its recovery keeps what is known of the variables and of
\* the lake.
LEMMA RenameIsSound ==
    ASSUME Typed, LakeFits, ~serving, UNCHANGED <<Rest, journal>>, journal # NoJournal,
           NEW p \in Asides, NEW c \in Components,
           \/ MoveAside(c, p)
           \/ /\ PutBack(c, p)
              /\ \A lake \in aside[p]["market"] : \A f \in lake.target : lake.temp[f] # "own"
    PROVE  Typed' /\ LakeFits'
<1>1. /\ {} \in Contents(c) /\ LiveOf(c) \in Contents(c) /\ aside[p][c] \in Contents(c)
  BY LiveIsTyped DEF Contents, Typed, IsPair
<1>2. PICK stored \in Contents(c), contents \in Contents(c) :
        /\ Shelving(aside', p, c, stored) /\ PutLive(c, contents)
        /\ c = "market" => \A lake \in contents : \A f \in lake.target : lake.temp[f] # "own"
  BY <1>1 DEF MoveAside, PutBack, Shelving
<1>3. LakeFits'
  BY <1>2, RenamedLake DEF Rest, backup
<1>4. Typed'
  <2>1. LakeTypeOK' /\ rows' \in 0..MaxRows /\ present' \subseteq Components
    BY <1>2, Renamed
  <2>2. /\ DOMAIN aside' = Asides /\ aside' = [q \in Asides |-> aside'[q]]
        /\ \A q \in Asides : IsPair(aside'[q])
    BY <1>2, Shelved
  <2> QED
    BY <2>1, <2>2 DEF Typed, Rest, backup
<1> QED
  BY <1>3, <1>4

--------------------------------------------------------------------------------
(* Positions in a plan.                                                    *)

Step ==
    {"move", "note move", "place", "note place", "commit", "clean",
     "reconcile move", "reconcile place", "discard", "note discard",
     "put back", "note put back", "rolled back"} \X {"database", "market", "both"}

\* Sequences of one and two steps are sequences of steps.
LEMMA ShortSequences ==
    ASSUME NEW S, NEW x \in S, NEW y \in S
    PROVE  /\ <<x>> \in Seq(S) /\ <<y>> \in Seq(S) /\ <<x, y>> \in Seq(S)
           /\ <<x, y>> = <<x>> \o <<y>>
<1>1. <<x>> \in Seq(S) /\ <<y>> \in Seq(S) /\ <<x, y>> \in Seq(S)
  OBVIOUS
<1>2. Len(<<x, y>>) = 2 /\ <<x, y>>[1] = x /\ <<x, y>>[2] = y
      /\ Len(<<x>>) = 1 /\ <<x>>[1] = x /\ Len(<<y>>) = 1 /\ <<y>>[1] = y
  OBVIOUS
<1>3. /\ <<x>> \o <<y>> \in Seq(S) /\ Len(<<x>> \o <<y>>) = 2
      /\ (<<x>> \o <<y>>)[1] = x /\ (<<x>> \o <<y>>)[2] = y
  BY <1>1, <1>2, ConcatProperties
<1>4. \A i \in 1..2 : <<x, y>>[i] = (<<x>> \o <<y>>)[i]
  BY <1>2, <1>3
<1> QED
  BY <1>1, <1>2, <1>3, <1>4, SeqEqual

\* Two steps are the same only when word and component are.
LEMMA ItemsDiffer ==
    ASSUME NEW word, NEW c, NEW word2, NEW c2, Item(word, c) = Item(word2, c2)
    PROVE  word = word2 /\ c = c2
BY DEF Item

LEMMA DoingIs == \A word, c : Doing(word, c) <=> todo # <<>> /\ Head(todo) = Item(word, c)
BY DEF Doing, Item

Words == {"move", "note move", "place", "note place", "commit", "clean"}

\* The head and the tail of a sequence built from its first element.
LEMMA FirstOfSequence ==
    ASSUME NEW S, NEW first \in S, NEW rest \in Seq(S)
    PROVE  /\ <<first>> \o rest \in Seq(S) /\ <<first>> \o rest # <<>>
           /\ Head(<<first>> \o rest) = first /\ Tail(<<first>> \o rest) = rest
<1> DEFINE s == <<first>> \o rest
<1>1. /\ <<first>> \in Seq(S) /\ Len(<<first>>) = 1 /\ <<first>>[1] = first
  OBVIOUS
<1>2. /\ s \in Seq(S) /\ Len(s) = 1 + Len(rest) /\ s[1] = first
      /\ \A i \in 1..Len(rest) : s[i + 1] = rest[i]
  BY <1>1, ConcatProperties
<1> HIDE DEF s
<1>3. s # <<>> /\ Head(s) = first
  BY <1>2
<1>4. /\ Tail(s) \in Seq(S) /\ Len(Tail(s)) = Len(rest)
      /\ \A i \in 1..Len(rest) : Tail(s)[i] = rest[i]
  BY <1>2, <1>3, HeadTailProperties
<1>5. Tail(s) = rest
  BY <1>4, SeqEqual
<1> QED
  BY <1>2, <1>3, <1>5 DEF s

\* The same for a plan.
LEMMA ThenFacts ==
    ASSUME NEW word \in Words, NEW c \in {"database", "market", "both"}, NEW rest \in Seq(Step)
    PROVE  /\ Then(word, c, rest) \in Seq(Step) /\ Then(word, c, rest) # <<>>
           /\ Head(Then(word, c, rest)) = Item(word, c) /\ Tail(Then(word, c, rest)) = rest
<1>1. Item(word, c) \in Step
  BY DEF Item, Step, Words
<1> QED
  BY <1>1, FirstOfSequence, Zenon DEF Then

\* Every plan is a sequence of steps.
LEMMA PlansAreSequences ==
    /\ Cleaning \in Seq(Step) /\ Committing \in Seq(Step)
    /\ \A c \in Components : After(c) \in Seq(Step) /\ PlaceThen(c, After(c)) \in Seq(Step)
<1>1. Cleaning \in Seq(Step) /\ Committing \in Seq(Step)
  <2>1. <<>> \in Seq(Step)
    OBVIOUS
  <2> QED
    BY <2>1, ThenFacts DEF Words, Cleaning, Committing
<1>2. ASSUME NEW c \in Components, NEW rest \in Seq(Step)
      PROVE  MoveThen(c, rest) \in Seq(Step) /\ PlaceThen(c, rest) \in Seq(Step)
  <2>1. \A word \in Words : \A s \in Seq(Step) : Then(word, c, s) \in Seq(Step)
    BY ThenFacts DEF Components
  <2> QED
    BY <2>1 DEF MoveThen, PlaceThen, Words
<1> QED
  BY <1>1, <1>2, ComponentsAre DEF After

\* There is only one step to be done at a time.
LEMMA DoingOneThing ==
    \A word, c, word2, c2 : Doing(word, c) /\ Doing(word2, c2) => word = word2 /\ c = c2
BY DoingIs, ItemsDiffer

\* What is known when a restore comes to a step.
RestFits(word, c) ==
    /\ word \in Words \ {"clean"}
    /\ word # "commit" => c \in Components /\ OtherFits(c)
    /\ word = "move" => /\ Untouched(c) /\ Had(c)
                        /\ Tail(todo) = Then("note move", c, PlaceThen(c, After(c)))
    /\ word = "note move" => Moved(c) /\ Had(c) /\ Tail(todo) = PlaceThen(c, After(c))
    /\ word = "place" => /\ Moved(c) /\ Installed(c) # {}
                         /\ Tail(todo) = Then("note place", c, After(c))
    /\ word = "note place" => Placed(c) /\ Installed(c) # {} /\ Tail(todo) = After(c)
    /\ word = "commit" => Tail(todo) = Cleaning /\ \A d \in Components : Placed(d)

\* What a step of a restore finds, and what it leaves to be done.
LEMMA InTheRestore ==
    ASSUME Restoring
    PROVE  /\ \E word, c : Doing(word, c)
           /\ \A word, c : Doing(word, c) => RestFits(word, c)
<1>1. \A word \in Words, c \in {"database", "market", "both"}, rest \in Seq(Step) :
        /\ Then(word, c, rest) # <<>> /\ Head(Then(word, c, rest)) = Item(word, c)
        /\ Tail(Then(word, c, rest)) = rest
        /\ Then(word, c, rest) \in Seq(Step)
  BY ThenFacts
<1>2. ASSUME NEW word \in Words, NEW c \in {"database", "market", "both"}, NEW rest \in Seq(Step),
             todo = Then(word, c, rest)
      PROVE  Doing(word, c) /\ Tail(todo) = rest
  BY <1>1, <1>2, DoingIs
<1>3. CASE todo = Committing /\ \A c \in Components : Placed(c)
  <2>1. Doing("commit", "both") /\ Tail(todo) = Cleaning
    BY <1>2, <1>3, PlansAreSequences DEF Committing, Words
  <2>2. RestFits("commit", "both")
    BY <1>3, <2>1 DEF RestFits, Words
  <2> QED
    BY <2>1, <2>2, DoingOneThing
<1>4. ASSUME NEW c \in Components, RestoreAt(c)
      PROVE  \E word : Doing(word, c) /\ RestFits(word, c)
  <2> DEFINE placing == PlaceThen(c, After(c))
  <2>1. /\ c \in {"database", "market", "both"} /\ OtherFits(c)
        /\ placing \in Seq(Step) /\ After(c) \in Seq(Step)
    BY <1>4, PlansAreSequences DEF Components, RestoreAt
  <2>2. /\ Then("note move", c, placing) \in Seq(Step)
        /\ Then("note place", c, After(c)) \in Seq(Step)
    BY <1>1, <2>1 DEF Words
  <2>3. CASE /\ todo = Then("move", c, Then("note move", c, placing))
             /\ Untouched(c) /\ Had(c)
    <3>1. Doing("move", c) /\ Tail(todo) = Then("note move", c, placing)
      BY <1>2, <2>1, <2>2, <2>3 DEF Words
    <3>2. RestFits("move", c)
      BY <2>1, <2>3, <3>1 DEF RestFits, Words
    <3> QED
      BY <3>1, <3>2
  <2>4. CASE todo = Then("note move", c, placing) /\ Moved(c) /\ Had(c)
    <3>1. Doing("note move", c) /\ Tail(todo) = placing
      BY <1>2, <2>1, <2>4 DEF Words
    <3>2. RestFits("note move", c)
      BY <2>1, <2>4, <3>1 DEF RestFits, Words
    <3> QED
      BY <3>1, <3>2
  <2>5. CASE /\ todo = Then("place", c, Then("note place", c, After(c)))
             /\ Moved(c) /\ Installed(c) # {}
    <3>1. Doing("place", c) /\ Tail(todo) = Then("note place", c, After(c))
      BY <1>2, <2>1, <2>2, <2>5 DEF Words
    <3>2. RestFits("place", c)
      BY <2>1, <2>5, <3>1 DEF RestFits, Words
    <3> QED
      BY <3>1, <3>2
  <2>6. CASE todo = Then("note place", c, After(c)) /\ Placed(c) /\ Installed(c) # {}
    <3>1. Doing("note place", c) /\ Tail(todo) = After(c)
      BY <1>2, <2>1, <2>6 DEF Words
    <3>2. RestFits("note place", c)
      BY <2>1, <2>6, <3>1 DEF RestFits, Words
    <3> QED
      BY <3>1, <3>2
  <2> QED
    BY <1>4, <2>3, <2>4, <2>5, <2>6 DEF RestoreAt
<1> QED
  BY <1>3, <1>4, DoingOneThing DEF Restoring

\* After a component is moved aside its new contents are placed, or the next one begins.
LEMMA PlacingGoesOn ==
    \A c \in Components :
        todo = PlaceThen(c, After(c)) /\ OtherFits(c) /\ Moved(c) => Restoring
<1> SUFFICES ASSUME NEW c \in Components, OtherFits(c), Moved(c), todo = PlaceThen(c, After(c))
             PROVE  Restoring
  OBVIOUS
<1>1. ASSUME NEW d \in Components, OtherFits(d), Moved(d), Installed(d) # {},
             todo = PlaceThen(d, After(d))
      PROVE  Restoring
  BY <1>1 DEF PlaceThen, RestoreAt, Restoring
<1>2. ASSUME NEW d \in Components, Moved(d), Installed(d) = {}
      PROVE  Placed(d)
  BY <1>2 DEF Moved, Placed
<1>3. CASE Installed(c) # {}
  BY <1>1, <1>3
<1>4. CASE Installed(c) = {} /\ c = "market"
  BY <1>2, <1>4, ComponentsAre DEF PlaceThen, After, OtherFits, Restoring
<1>5. CASE Installed(c) = {} /\ c = "database"
  <2>1. Placed("database") /\ Untouched("market") /\ todo = After("database")
    BY <1>2, <1>5 DEF OtherFits, PlaceThen
  <2>2. OtherFits("market") /\ After("market") = Committing
    BY <2>1 DEF OtherFits, After
  <2>3. CASE Had("market")
    BY <2>1, <2>2, <2>3, ComponentsAre DEF After, MoveThen, RestoreAt, Restoring
  <2>4. CASE ~Had("market")
    <3>1. Moved("market") /\ todo = PlaceThen("market", After("market"))
      BY <2>1, <2>2, <2>4 DEF Had, Original, Untouched, Moved, After, MoveThen
    <3>2. CASE Installed("market") # {}
      BY <1>1, <2>2, <3>1, <3>2, ComponentsAre
    <3>3. CASE Installed("market") = {}
      BY <1>2, <2>1, <2>2, <3>1, <3>3, ComponentsAre DEF PlaceThen, Restoring
    <3> QED
      BY <3>2, <3>3
  <2> QED
    BY <2>3, <2>4
<1> QED
  BY <1>3, <1>4, <1>5, ComponentsAre

\* After a component is placed the next one begins, or the commit.
LEMMA PlacedGoesOn ==
    \A c \in Components : todo = After(c) /\ OtherFits(c) /\ Placed(c) => Restoring
<1> SUFFICES ASSUME NEW c \in Components, OtherFits(c), Placed(c), todo = After(c)
             PROVE  Restoring
  OBVIOUS
<1>1. CASE c = "market"
  BY <1>1, ComponentsAre DEF After, OtherFits, Restoring
<1>2. CASE c = "database"
  <2>1. Placed("database") /\ Untouched("market") /\ todo = After("database")
    BY <1>2 DEF OtherFits
  <2>2. OtherFits("market") /\ After("market") = Committing
    BY <2>1 DEF OtherFits, After
  <2>3. CASE Had("market")
    BY <2>1, <2>2, <2>3, ComponentsAre DEF After, MoveThen, RestoreAt, Restoring
  <2>4. CASE ~Had("market")
    <3>1. Moved("market") /\ todo = PlaceThen("market", After("market"))
      BY <2>1, <2>2, <2>4 DEF Had, Original, Untouched, Moved, After, MoveThen
    <3> QED
      BY <2>2, <3>1, ComponentsAre, PlacingGoesOn
  <2> QED
    BY <2>3, <2>4
<1> QED
  BY <1>1, <1>2, ComponentsAre

\* Where a restore stands after a step of it.
GoesOn ==
    \A c \in Components :
        OtherFits(c) =>
            /\ todo = MoveThen(c, PlaceThen(c, After(c))) /\ Untouched(c) => Restoring
            /\ todo = PlaceThen(c, After(c)) /\ Moved(c) => Restoring
            /\ todo = After(c) /\ Placed(c) => Restoring

LEMMA RestoreGoesOn == GoesOn
<1>1. ASSUME NEW c \in Components, OtherFits(c), Untouched(c),
             todo = MoveThen(c, PlaceThen(c, After(c)))
      PROVE  Restoring
  <2>1. CASE Had(c)
    BY <1>1, <2>1 DEF MoveThen, RestoreAt, Restoring
  <2>2. CASE ~Had(c)
    <3>1. Moved(c) /\ todo = PlaceThen(c, After(c))
      BY <1>1, <2>2 DEF Had, Original, Untouched, Moved, MoveThen
    <3> QED
      BY <1>1, <3>1, PlacingGoesOn
  <2> QED
    BY <2>1, <2>2
<1> QED
  BY <1>1, PlacingGoesOn, PlacedGoesOn DEF GoesOn

\* Where a step stands in RollBackSteps.
PositionOf(word, c) ==
    CASE word = "reconcile move"  -> Reconciled(c)
      [] word = "reconcile place" -> Reconciled(c) + 1
      [] word = "discard"         -> Undoing(c)
      [] word = "note discard"    -> Undoing(c) + 1
      [] word = "put back"        -> Undoing(c) + 2
      [] word = "note put back"   -> Undoing(c) + 3
      [] OTHER                    -> 13

UndoWords == {"reconcile move", "reconcile place", "discard", "note discard",
              "put back", "note put back"}

\* A sequence of fourteen steps is one of steps.
LEMMA FourteenItems ==
    ASSUME NEW S, NEW a \in S, NEW b \in S, NEW c \in S, NEW d \in S, NEW e \in S, NEW f \in S,
           NEW g \in S, NEW h \in S, NEW i \in S, NEW j \in S, NEW k \in S, NEW l \in S,
           NEW m \in S, NEW n \in S
    PROVE  /\ <<a, b, c, d, e, f, g, h, i, j, k, l, m, n>> \in Seq(S)
           /\ Len(<<a, b, c, d, e, f, g, h, i, j, k, l, m, n>>) = 14
OBVIOUS

\* A roll-back has fourteen steps.
LEMMA RollBackIsASequence ==
    /\ RollBackSteps \in Seq(Step) /\ Len(RollBackSteps) = 14
    /\ \A k \in 1..14 : RollBackSteps[k] \in Step
<1>1. RollBackSteps \in Seq(Step) /\ Len(RollBackSteps) = 14
  <2>1. \A word \in UndoWords \cup {"rolled back", "clean"}, c \in {"database", "market", "both"} :
          Item(word, c) \in Step
    BY DEF UndoWords, Item, Step
  <2>2. RollBackSteps =
          <<Item("reconcile move", "database"), Item("reconcile place", "database"),
            Item("reconcile move", "market"), Item("reconcile place", "market"),
            Item("discard", "market"), Item("note discard", "market"),
            Item("put back", "market"), Item("note put back", "market"),
            Item("discard", "database"), Item("note discard", "database"),
            Item("put back", "database"), Item("note put back", "database"),
            Item("rolled back", "both"), Item("clean", "both")>>
    BY DEF RollBackSteps, Item
  <2> QED
    <3>1. /\ Item("reconcile move", "database") \in Step
          /\ Item("reconcile place", "database") \in Step
          /\ Item("reconcile move", "market") \in Step /\ Item("reconcile place", "market") \in Step
          /\ Item("discard", "market") \in Step /\ Item("note discard", "market") \in Step
          /\ Item("put back", "market") \in Step /\ Item("note put back", "market") \in Step
          /\ Item("discard", "database") \in Step /\ Item("note discard", "database") \in Step
          /\ Item("put back", "database") \in Step /\ Item("note put back", "database") \in Step
          /\ Item("rolled back", "both") \in Step /\ Item("clean", "both") \in Step
      BY <2>1 DEF UndoWords
    <3>2. <<Item("reconcile move", "database"), Item("reconcile place", "database"),
            Item("reconcile move", "market"), Item("reconcile place", "market"),
            Item("discard", "market"), Item("note discard", "market"),
            Item("put back", "market"), Item("note put back", "market"),
            Item("discard", "database"), Item("note discard", "database"),
            Item("put back", "database"), Item("note put back", "database"),
            Item("rolled back", "both"), Item("clean", "both")>> \in Seq(Step)
      BY <3>1, FourteenItems
    <3>3. Len(RollBackSteps) = 14
      BY DEF RollBackSteps
    <3> QED
      BY <2>2, <3>2, <3>3, Zenon
<1>2. \A k \in 1..Len(RollBackSteps) : RollBackSteps[k] \in Step
  BY <1>1, ElementOfSeq
<1> QED
  BY <1>1, <1>2, Zenon

\* Which step of a roll-back comes where.
LEMMA RollBackItems ==
    /\ \A k \in 1..13 :
         \/ \E word \in UndoWords, c \in Components :
              RollBackSteps[k] = Item(word, c) /\ k = PositionOf(word, c)
         \/ RollBackSteps[k] = Item("rolled back", "both") /\ k = 13
    /\ RollBackSteps[14] = Item("clean", "both")
<1>2. /\ RollBackSteps[1] = Item("reconcile move", "database")
      /\ RollBackSteps[2] = Item("reconcile place", "database")
      /\ RollBackSteps[3] = Item("reconcile move", "market")
      /\ RollBackSteps[4] = Item("reconcile place", "market")
      /\ RollBackSteps[5] = Item("discard", "market")
      /\ RollBackSteps[6] = Item("note discard", "market")
      /\ RollBackSteps[7] = Item("put back", "market")
      /\ RollBackSteps[8] = Item("note put back", "market")
      /\ RollBackSteps[9] = Item("discard", "database")
      /\ RollBackSteps[10] = Item("note discard", "database")
      /\ RollBackSteps[11] = Item("put back", "database")
      /\ RollBackSteps[12] = Item("note put back", "database")
      /\ RollBackSteps[13] = Item("rolled back", "both")
      /\ RollBackSteps[14] = Item("clean", "both")
  BY DEF RollBackSteps, Item
<1>3. \A k \in 1..13 :
         \/ \E word \in UndoWords, c \in Components :
              RollBackSteps[k] = Item(word, c) /\ k = PositionOf(word, c)
         \/ RollBackSteps[k] = Item("rolled back", "both") /\ k = 13
  <2> SUFFICES ASSUME NEW k \in 1..13
               PROVE  \/ \E word \in UndoWords, c \in Components :
                           RollBackSteps[k] = Item(word, c) /\ k = PositionOf(word, c)
                      \/ RollBackSteps[k] = Item("rolled back", "both") /\ k = 13
    OBVIOUS
  <2>1. \/ k = 1 \/ k = 2 \/ k = 3 \/ k = 4 \/ k = 5 \/ k = 6 \/ k = 7 \/ k = 8 \/ k = 9
        \/ k = 10 \/ k = 11 \/ k = 12 \/ k = 13
    OBVIOUS
  <2>2. ASSUME NEW word \in UndoWords, NEW c \in Components,
               RollBackSteps[k] = Item(word, c), k = PositionOf(word, c)
        PROVE  \E w \in UndoWords, d \in Components :
                   RollBackSteps[k] = Item(w, d) /\ k = PositionOf(w, d)
    BY <2>2
  <2>3. ASSUME NEW w \in UndoWords, NEW d \in Components, NEW n \in 1..13,
               RollBackSteps[n] = Item(w, d), n = PositionOf(w, d), k = n
        PROVE  \E word \in UndoWords, c \in Components :
                   RollBackSteps[k] = Item(word, c) /\ k = PositionOf(word, c)
    BY <2>3
  <2>4. /\ PositionOf("reconcile move", "database") = 1 /\ PositionOf("reconcile place", "database") = 2
        /\ PositionOf("reconcile move", "market") = 3 /\ PositionOf("reconcile place", "market") = 4
        /\ PositionOf("discard", "market") = 5 /\ PositionOf("note discard", "market") = 6
        /\ PositionOf("put back", "market") = 7 /\ PositionOf("note put back", "market") = 8
        /\ PositionOf("discard", "database") = 9 /\ PositionOf("note discard", "database") = 10
        /\ PositionOf("put back", "database") = 11 /\ PositionOf("note put back", "database") = 12
    BY DEF PositionOf, Reconciled, Undoing
  <2>5. \A w \in UndoWords, d \in Components :
          RollBackSteps[k] = Item(w, d) /\ k = PositionOf(w, d) =>
            \E word \in UndoWords, c \in Components :
                RollBackSteps[k] = Item(word, c) /\ k = PositionOf(word, c)
    OBVIOUS
  <2>6. /\ \A w \in {"reconcile move", "reconcile place", "discard", "note discard",
                     "put back", "note put back"} : w \in UndoWords
        /\ "database" \in Components /\ "market" \in Components
    BY DEF UndoWords, Components
  <2>7. CASE k = 1   BY <1>2, <2>4, <2>5, <2>6, <2>7
  <2>8. CASE k = 2   BY <1>2, <2>4, <2>5, <2>6, <2>8
  <2>9. CASE k = 3   BY <1>2, <2>4, <2>5, <2>6, <2>9
  <2>10. CASE k = 4  BY <1>2, <2>4, <2>5, <2>6, <2>10
  <2>11. CASE k = 5  BY <1>2, <2>4, <2>5, <2>6, <2>11
  <2>12. CASE k = 6  BY <1>2, <2>4, <2>5, <2>6, <2>12
  <2>13. CASE k = 7  BY <1>2, <2>4, <2>5, <2>6, <2>13
  <2>14. CASE k = 8  BY <1>2, <2>4, <2>5, <2>6, <2>14
  <2>15. CASE k = 9  BY <1>2, <2>4, <2>5, <2>6, <2>15
  <2>16. CASE k = 10 BY <1>2, <2>4, <2>5, <2>6, <2>16
  <2>17. CASE k = 11 BY <1>2, <2>4, <2>5, <2>6, <2>17
  <2>18. CASE k = 12 BY <1>2, <2>4, <2>5, <2>6, <2>18
  <2>19. CASE k = 13 BY <1>2, <2>19
  <2> QED
    BY <2>1, <2>7, <2>8, <2>9, <2>10, <2>11, <2>12, <2>13, <2>14, <2>15, <2>16, <2>17, <2>18,
       <2>19
<1> QED
  BY <1>2, <1>3

\* A roll-back at its k-th step: what it does now and what is left after it.
LEMMA RestOfRollBackSteps ==
    ASSUME NEW k \in 1..13
    PROVE  /\ SubSeq(RollBackSteps, k, 14) # <<>>
           /\ Head(SubSeq(RollBackSteps, k, 14)) = RollBackSteps[k]
           /\ Tail(SubSeq(RollBackSteps, k, 14)) = SubSeq(RollBackSteps, k + 1, 14)
<1> DEFINE s == RollBackSteps
<1>1. s \in Seq(Step) /\ Len(s) = 14 /\ \A i \in 1..14 : s[i] \in Step
  BY RollBackIsASequence
<1> HIDE DEF s
<1>2. k \in Int /\ k \in 1..Len(s) /\ 14 \in k..Len(s) /\ \A i \in k..14 : s[i] \in Step
  BY <1>1
<1>3. Head(SubSeq(s, k, 14)) = s[k] /\ Tail(SubSeq(s, k, 14)) = SubSeq(s, k + 1, 14)
  BY <1>1, <1>2, HeadTailOfSubSeq
<1>4. Len(SubSeq(s, k, 14)) = IF k <= 14 THEN 14 - k + 1 ELSE 0
  BY <1>1, <1>2, SubSeqProperties
<1>5. \A t : Len(t) = (IF k <= 14 THEN 14 - k + 1 ELSE 0) => t # <<>>
  OBVIOUS
<1>6. SubSeq(s, k, 14) # <<>>
  BY <1>4, <1>5, Zenon
<1> QED
  BY <1>3, <1>6 DEF s

\* The same, for the steps that are left.
LEMMA InRollBackSteps ==
    ASSUME NEW k \in 1..13, todo = SubSeq(RollBackSteps, k, 14)
    PROVE  /\ todo # <<>> /\ Head(todo) = RollBackSteps[k]
           /\ Tail(todo) = SubSeq(RollBackSteps, k + 1, 14)
BY RestOfRollBackSteps

\* The whole of a roll-back, and its last step.
LEMMA EndsOfRollBackSteps ==
    SubSeq(RollBackSteps, 1, 14) = RollBackSteps /\ SubSeq(RollBackSteps, 14, 14) = Cleaning
<1>1. SubSeq(RollBackSteps, 1, 14) = RollBackSteps
  BY RollBackIsASequence, SubSeqFull
<1>2. /\ SubSeq(RollBackSteps, 14, 14) \in Seq(Step) /\ Len(SubSeq(RollBackSteps, 14, 14)) = 1
      /\ SubSeq(RollBackSteps, 14, 14)[1] = Item("clean", "both")
  <2>1. \A i \in 14..14 : RollBackSteps[i] \in Step
    BY RollBackIsASequence
  <2>2. SubSeq(RollBackSteps, 14, 14) \in Seq(Step) /\ Len(SubSeq(RollBackSteps, 14, 14)) = 1
    BY <2>1, SubSeqProperties
  <2>3. \A i \in 1..14 - 14 + 1 : SubSeq(RollBackSteps, 14, 14)[i] = RollBackSteps[14 + i - 1]
    BY <2>1, SubSeqProperties
  <2>4. SubSeq(RollBackSteps, 14, 14)[1] = RollBackSteps[14]
    BY <2>3
  <2> QED
    BY <2>2, <2>4, RollBackItems
<1>3. Cleaning = <<Item("clean", "both")>>
  <2>1. <<Item("clean", "both")>> \in Seq(Step)
    <3>1. Item("clean", "both") \in Step
      BY DEF Item, Step
    <3> QED
      BY <3>1, ShortSequences
  <2> QED
    BY <2>1, ConcatEmptySeq DEF Cleaning, Then
<1>4. Cleaning \in Seq(Step) /\ Len(Cleaning) = 1 /\ Cleaning[1] = Item("clean", "both")
  BY <1>3, PlansAreSequences
<1>5. \A i \in 1..Len(Cleaning) : SubSeq(RollBackSteps, 14, 14)[i] = Cleaning[i]
  <2> SUFFICES ASSUME NEW i \in 1..Len(Cleaning)
               PROVE  SubSeq(RollBackSteps, 14, 14)[i] = Cleaning[i]
    OBVIOUS
  <2>1. i = 1
    BY <1>4 DEF Item
  <2> QED
    BY <1>2, <1>4, <2>1
<1>6. SubSeq(RollBackSteps, 14, 14) = Cleaning
  BY <1>2, <1>4, <1>5, SeqEqual
<1> QED
  BY <1>1, <1>6

\* What is known when a roll-back comes to a step.
LEMMA InTheRollBack ==
    ASSUME RollingBack, NEW word, NEW c, Doing(word, c)
    PROVE  /\ \/ word \in UndoWords /\ c \in Components
              \/ word = "rolled back" /\ c = "both"
           /\ PositionOf(word, c) \in 1..13
           /\ Tail(todo) = SubSeq(RollBackSteps, PositionOf(word, c) + 1, 14)
           /\ \A d \in Components : RolledBackTo(PositionOf(word, c), d)
<1>1. PICK k \in 1..13 : /\ todo = SubSeq(RollBackSteps, k, 14)
                         /\ \A d \in Components : RolledBackTo(k, d)
  BY DEF RollingBack
<1>2. /\ RollBackSteps[k] = Item(word, c)
      /\ Tail(todo) = SubSeq(RollBackSteps, k + 1, 14)
  BY <1>1, InRollBackSteps, DoingIs
<1>3. k = PositionOf(word, c)
      /\ \/ word \in UndoWords /\ c \in Components
         \/ word = "rolled back" /\ c = "both"
  <2>1. PositionOf("rolled back", "both") = 13
    BY DEF PositionOf
  <2>2. CASE RollBackSteps[k] = Item("rolled back", "both") /\ k = 13
    <3>1. word = "rolled back" /\ c = "both"
      BY <1>2, <2>2, ItemsDiffer
    <3> QED
      BY <2>1, <2>2, <3>1
  <2>3. ASSUME NEW w \in UndoWords, NEW d \in Components,
               RollBackSteps[k] = Item(w, d), k = PositionOf(w, d)
        PROVE  k = PositionOf(word, c) /\ word \in UndoWords /\ c \in Components
    <3>1. w = word /\ d = c
      BY <1>2, <2>3 DEF Item
    <3> QED
      BY <2>3, <3>1
  <2>4. k \in 1..13
    BY <1>1
  <2>5. \/ \E w \in UndoWords, d \in Components :
             RollBackSteps[k] = Item(w, d) /\ k = PositionOf(w, d)
        \/ RollBackSteps[k] = Item("rolled back", "both") /\ k = 13
    BY <2>4, RollBackItems, Zenon
  <2> QED
    BY <2>2, <2>3, <2>5
<1> QED
  BY <1>1, <1>2, <1>3

\* What is known when a restore, a cleanup or a recovery takes a step.
LEMMA WhatIsDoing ==
    ASSUME DirectoryInv, NEW word, NEW c, Doing(word, c)
    PROVE  /\ journal # NoJournal /\ ~serving
           /\ \/ journal.phase = "prepared" /\ word \in Words \ {"clean"} /\ Restoring
              \/ journal.phase = "prepared" /\ word \in UndoWords \cup {"rolled back"} /\ RollingBack
              \/ journal.phase \in Final /\ word = "clean" /\ Tail(todo) = <<>> /\ ~refused
<1>1. todo # <<>> /\ Head(todo) = Item(word, c)
  BY DoingIs
<1>2. journal # NoJournal /\ ~serving /\ journal.phase \in {"prepared"} \cup Final
  BY <1>1 DEF DirectoryInv, Typed, JournalFits
<1>3. CASE journal.phase = "prepared" /\ Restoring
  BY <1>2, <1>3, InTheRestore DEF RestFits
<1>4. CASE journal.phase = "prepared" /\ RollingBack
  BY <1>2, <1>4, InTheRollBack
<1>5. CASE journal.phase \in Final
  <2>1. todo = Cleaning /\ ~refused
    BY <1>1, <1>5 DEF DirectoryInv, JournalFits
  <2>2. Head(todo) = Item("clean", "both") /\ Tail(todo) = <<>>
    <3>1. <<>> \in Seq(Step)
      OBVIOUS
    <3> QED
      BY <2>1, <3>1, ThenFacts DEF Cleaning, Words
  <2>3. word = "clean" /\ Tail(todo) = <<>>
    BY <1>1, <2>2, ItemsDiffer
  <2> QED
    BY <1>2, <1>5, <2>1, <2>3
<1> QED
  BY <1>1, <1>2, <1>3, <1>4, <1>5 DEF DirectoryInv, JournalFits

--------------------------------------------------------------------------------
(* A component that a step leaves alone, and a journal that a step writes. *)

Same(d) ==
    /\ LiveOf(d)' = LiveOf(d)
    /\ Original(d)' = Original(d) /\ Installed(d)' = Installed(d)
    /\ SetAside(d)' = SetAside(d) /\ ToPlace(d)' = ToPlace(d) /\ Discarded(d)' = Discarded(d)
    /\ (d \in journal.moved)' <=> d \in journal.moved
    /\ (d \in journal.placed)' <=> d \in journal.placed

\* All that is said of a component is kept when nothing of it changes.
LEMMA SameComponent ==
    ASSUME NEW d \in Components, Same(d)
    PROVE  /\ Untouched(d)' = Untouched(d) /\ Moved(d)' = Moved(d) /\ Placed(d)' = Placed(d)
           /\ Had(d)' = Had(d) /\ Mistaken(d)' = Mistaken(d)
           /\ ComponentFits(d) => ComponentFits(d)'
           /\ \A k \in 1..14 : RolledBackTo(k, d) => RolledBackTo(k, d)'
<1>1. /\ Untouched(d)' = Untouched(d) /\ Moved(d)' = Moved(d) /\ Placed(d)' = Placed(d)
      /\ Undone(d)' = Undone(d) /\ Restored(d)' = Restored(d)
  BY DEF Same, Untouched, Moved, Placed, Undone, Restored
<1>2. Had(d)' = Had(d)
  BY DEF Same, Had, Original
<1>3. Mistaken(d)' = Mistaken(d)
  BY <1>1, <1>2 DEF Same, Mistaken
<1>4. ComponentFits(d) => ComponentFits(d)'
  BY <1>1, <1>2, <1>3 DEF Same, ComponentFits
<1>5. \A k \in 1..14 : RolledBackTo(k, d) => RolledBackTo(k, d)'
  BY <1>1, <1>3 DEF Same, RolledBackTo, AsideIsNoted, NewIsNoted, NewIsGone, OldIsBack
<1> QED
  BY <1>1, <1>2, <1>3, <1>4, <1>5

Noted(phase, moved, placed) ==
    journal' = [phase |-> phase, original |-> journal.original, installed |-> journal.installed,
                moved |-> moved, placed |-> placed]

\* A journal written by a step is typed, and has the fields it was given.
LEMMA NotedIsTyped ==
    ASSUME Typed, NEW phase \in {"none", "prepared"} \cup Final,
           NEW moved \in SUBSET Components, NEW placed \in SUBSET Components,
           Noted(phase, moved, placed), UNCHANGED <<live, backup, stage, serving>>,
           refused' \in BOOLEAN
    PROVE  /\ Typed' /\ journal'.phase = phase
           /\ journal'.original = journal.original /\ journal'.installed = journal.installed
           /\ journal'.moved = moved /\ journal'.placed = placed
<1>1. /\ journal'.phase = phase
      /\ journal'.original = journal.original /\ journal'.installed = journal.installed
      /\ journal'.moved = moved /\ journal'.placed = placed
      /\ journal' = [phase |-> journal'.phase, original |-> journal'.original,
                     installed |-> journal'.installed, moved |-> journal'.moved,
                     placed |-> journal'.placed]
  BY DEF Noted
<1>2. LakeTypeOK'
  BY DEF Typed, LakeTypeOK, live, lakeVars
<1> QED
  BY <1>1, <1>2 DEF Typed, live, backup, stage

\* Each way in which the steps write the journal.
LEMMA NotesAre ==
    ASSUME Typed
    PROVE  /\ \A m, p : journal' = [journal EXCEPT !.moved = m, !.placed = p]
                          => Noted(journal.phase, m, p)
           /\ \A m : journal' = [journal EXCEPT !.moved = m]
                          => Noted(journal.phase, m, journal.placed)
           /\ \A p : journal' = [journal EXCEPT !.placed = p]
                          => Noted(journal.phase, journal.moved, p)
           /\ \A f : journal' = [journal EXCEPT !.phase = f]
                          => Noted(f, journal.moved, journal.placed)
           /\ journal' = journal => Noted(journal.phase, journal.moved, journal.placed)
BY DEF Typed, Noted

\* A step that leaves the directory and the backup alone.
LEMMA LakeUntouched ==
    ASSUME LakeFits, UNCHANGED <<live, serving, archive>>,
           journal' = NoJournal => journal = NoJournal \/ Usable(Live)
    PROVE  LakeFits'
<1>1. LiveOf("database")' = LiveOf("database") /\ LiveOf("market")' = LiveOf("market")
  BY DEF LiveOf, live, lakeVars
<1>2. Live' = Live
  BY <1>1, ComponentsAre DEF Live
<1> QED
  BY <1>2 DEF LakeFits, LeftoversAreRecoverable, live, lakeVars, At, File, Usable

LEMMA PhaseOfNoJournal == NoJournal.phase = "none"
BY DEF NoJournal

LEMMA AbsentIsAPair == IsPair(Absent) /\ \A c \in Components : Absent[c] = {}
BY DEF IsPair, Absent, Contents

\* What JournalFits asks of an undecided restore.
LEMMA PreparedFits ==
    ASSUME journal'.phase = "prepared", ~serving', staged', manifest', torn' = {},
           Usable(journal'.original), Usable(journal'.installed),
           \A c \in Components : ComponentFits(c)',
           (todo = <<>> \/ Restoring \/ RollingBack)',
           (refused => \E c \in Components : Mistaken(c))'
    PROVE  JournalFits'
<1>1. journal' # NoJournal /\ journal'.phase \notin Final
  BY DEF NoJournal, Final
<1> QED
  BY <1>1 DEF JournalFits

\* Until the decision, no lake that lies aside keeps a writer out.
LEMMA AsideIsUsable ==
    ASSUME DirectoryInv, journal.phase = "prepared", NEW p \in Asides
    PROVE  \A lake \in aside[p]["market"] : \A f \in lake.target : lake.temp[f] # "own"
<1>1. /\ ComponentFits("market") /\ journal # NoJournal
      /\ Usable(journal.original) /\ Usable(journal.installed)
  BY ComponentsAre DEF DirectoryInv, JournalFits, NoJournal
<1>2. aside[p]["market"] \in {{}, journal.original["market"], journal.installed["market"]}
  BY <1>1 DEF ComponentFits, Untouched, Moved, Placed, Undone, Restored, Original, Installed,
     SetAside, ToPlace, Discarded, Asides
<1> QED
  BY <1>1, <1>2 DEF Usable

\* What a step of a restore under way, or of its roll-back, has to show.
LEMMA StepOfPrepared ==
    ASSUME DirectoryInv, journal.phase = "prepared", ~serving,
           journal'.phase = "prepared", Typed', LakeFits',
           UNCHANGED <<serving, staged, manifest, torn>>,
           \A d \in Components : Original(d)' = Original(d) /\ Installed(d)' = Installed(d),
           journal'.original = journal.original, journal'.installed = journal.installed,
           NEW c \in Components, ComponentFits(c)', \A d \in Components \ {c} : Same(d),
           Mistaken(c) => Mistaken(c)',
           refused' => refused \/ Mistaken(c)',
           (todo = <<>> \/ Restoring \/ RollingBack)'
    PROVE  DirectoryInv'
<1>1. /\ staged /\ manifest /\ torn = {} /\ Usable(journal.original) /\ Usable(journal.installed)
      /\ \A d \in Components : ComponentFits(d)
      /\ refused => \E d \in Components : Mistaken(d)
  BY DEF DirectoryInv, JournalFits, NoJournal
<1>2. \A d \in Components : ComponentFits(d)'
  BY <1>1, SameComponent
<1>3. (refused => \E d \in Components : Mistaken(d))'
  BY <1>1, SameComponent
<1>4. Usable(journal'.original) /\ Usable(journal'.installed)
  BY <1>1
<1>5. ~serving' /\ staged' /\ manifest' /\ torn' = {}
  BY <1>1
<1>6. JournalFits'
  BY <1>2, <1>3, <1>4, <1>5, PreparedFits
<1> QED
  BY <1>6 DEF DirectoryInv

\* The steps that remain, named for the journal they are read from.
LEMMA PlansKept ==
    ASSUME NEW c \in Components, \A d \in Components : Had(d)' = Had(d),
           \A d \in Components : Installed(d)' = Installed(d)
    PROVE  After(c)' = After(c) /\ PlaceThen(c, After(c))' = PlaceThen(c, After(c))
BY ComponentsAre DEF After, PlaceThen, MoveThen, Had, Installed

--------------------------------------------------------------------------------
(* The steps of a restore.                                                 *)

\* A component that is not yet placed is not noted as placed.
LEMMA NotYetPlaced ==
    ASSUME NEW c \in Components, ComponentFits(c), Untouched(c) \/ Moved(c)
    PROVE  c \notin journal.placed /\ ~Mistaken(c)
BY DEF ComponentFits, Untouched, Moved, Placed, Undone, Restored, Mistaken

\* A step on one component leaves the other as the plan needs it.
LEMMA OtherKept ==
    ASSUME NEW c \in Components, OtherFits(c), \A d \in Components \ {c} : Same(d)
    PROVE  OtherFits(c)'
BY ComponentsAre, SameComponent DEF OtherFits

\* Renaming and noting keep the invariant.
LEMMA RestoreKeeps ==
    ASSUME DirectoryInv, NEW c \in Components,
           Move(c) \/ NoteMove(c) \/ Place(c) \/ NotePlace(c)
    PROVE  DirectoryInv'
<1>1. PICK word \in {"move", "note move", "place", "note place"} :
        /\ Doing(word, c)
        /\ word = "move" => Move(c)
        /\ word = "note move" => NoteMove(c)
        /\ word = "place" => Place(c)
        /\ word = "note place" => NotePlace(c)
  BY DEF Move, NoteMove, Place, NotePlace
<1>2. journal.phase = "prepared" /\ ~serving /\ Restoring /\ journal # NoJournal
  BY <1>1, WhatIsDoing DEF UndoWords, Final
<1>3. RestFits(word, c)
  BY <1>1, <1>2, InTheRestore
<1>4. /\ ComponentFits(c) /\ OtherFits(c) /\ Typed /\ LakeFits
      /\ UNCHANGED Rest /\ todo' = Tail(todo)
  BY <1>1, <1>2, <1>3 DEF DirectoryInv, JournalFits, RestFits, Move, NoteMove, Place, NotePlace, Done
<1>5. CASE word = "move"
  <2>1. MoveAside(c, "rollback") /\ journal' = journal /\ "rollback" \in Asides
    BY <1>1, <1>5 DEF Move, Asides
  <2>2. Untouched(c) /\ Had(c) /\ Tail(todo) = Then("note move", c, PlaceThen(c, After(c)))
    BY <1>3, <1>5 DEF RestFits
  <2>3. Typed' /\ LakeFits'
    BY <1>2, <1>4, <2>1, RenameIsSound
  <2>4. /\ LiveOf(c)' = {} /\ aside'["rollback"][c] = LiveOf(c)
        /\ aside'["new"][c] = aside["new"][c] /\ aside'["discarded"][c] = aside["discarded"][c]
        /\ \A d \in Components \ {c} : LiveOf(d)' = LiveOf(d) /\ \A q \in Asides : aside'[q][d] = aside[q][d]
    BY <1>4, <2>1, PutAside DEF Asides
  <2>5. \A d \in Components \ {c} : Same(d)
    BY <2>1, <2>4 DEF Same, Original, Installed, SetAside, ToPlace, Discarded, Asides
  <2>6. c \notin journal.placed /\ ~Mistaken(c)
    BY <1>4, <2>2, NotYetPlaced
  <2>7. Moved(c)' /\ Had(c)'
    BY <2>1, <2>2, <2>4 DEF Untouched, Moved, Had, Original, Installed, SetAside, ToPlace, Discarded
  <2>8. ComponentFits(c)'
    BY <2>1, <2>6, <2>7 DEF ComponentFits, Moved
  <2>9. OtherFits(c)'
    BY <1>4, <2>5, OtherKept
  <2>10. PlaceThen(c, After(c))' = PlaceThen(c, After(c))
    BY <2>1, PlansKept DEF Had, Installed
  <2>11. todo' = Then("note move", c, PlaceThen(c, After(c))')
    BY <1>4, <2>2, <2>10
  <2>12. Restoring'
    BY <2>7, <2>9, <2>11 DEF Restoring, RestoreAt
  <2> QED
    BY <1>2, <1>4, <2>1, <2>3, <2>5, <2>6, <2>8, <2>12, StepOfPrepared DEF Rest, Original, Installed
<1>6. CASE word = "note move"
  <2> DEFINE moved == journal.moved \cup {c}
  <2>1. /\ journal' = [journal EXCEPT !.moved = moved] /\ UNCHANGED <<live, aside>>
    BY <1>1, <1>6 DEF NoteMove
  <2>2. Moved(c) /\ Had(c) /\ Tail(todo) = PlaceThen(c, After(c))
    BY <1>3, <1>6 DEF RestFits
  <2>3. moved \in SUBSET Components /\ journal.placed \in SUBSET Components
        /\ Noted("prepared", moved, journal.placed)
    BY <1>2, <1>4, <2>1, NotesAre DEF Typed
  <2> HIDE DEF moved
  <2>4. UNCHANGED <<live, backup, stage, serving>> /\ refused' = refused
    BY <1>4, <2>1 DEF Rest, stage
  <2>5. Typed' /\ journal'.phase = "prepared" /\ journal'.original = journal.original
        /\ journal'.installed = journal.installed /\ journal'.moved = moved
        /\ journal'.placed = journal.placed
    BY <1>4, <2>3, <2>4, NotedIsTyped DEF Typed
  <2>6. LakeFits'
    <3>1. journal' # NoJournal
      BY <2>5, PhaseOfNoJournal
    <3> QED
      BY <1>4, <2>4, <3>1, LakeUntouched DEF backup
  <2>7. \A d \in Components : LiveOf(d)' = LiveOf(d)
    BY <2>4, ComponentsAre DEF LiveOf, live, lakeVars
  <2>8. \A d \in Components \ {c} : Same(d)
    <3>1. \A d \in Components \ {c} : d \in journal'.moved <=> d \in journal.moved
      <4>1. journal'.moved = moved
        BY <2>5
      <4> QED
        BY <4>1 DEF moved
    <3> QED
      BY <2>1, <2>5, <2>7, <3>1 DEF Same, Original, Installed, SetAside, ToPlace, Discarded
  <2>9. c \notin journal.placed /\ ~Mistaken(c)
    BY <1>4, <2>2, NotYetPlaced
  <2>10. Moved(c)' /\ Had(c)'
    BY <2>1, <2>2, <2>5, <2>7 DEF Moved, Had, Original, Installed, SetAside, ToPlace, Discarded
  <2>11. ComponentFits(c)'
    BY <2>5, <2>9, <2>10 DEF ComponentFits, Moved
  <2>12. OtherFits(c)'
    BY <1>4, <2>8, OtherKept
  <2>13. todo' = PlaceThen(c, After(c))'
    BY <1>4, <2>2, <2>5, PlansKept DEF Had, Installed
  <2>14. GoesOn'
    BY RestoreGoesOn, PTL
  <2>15. Restoring'
    BY <2>10, <2>12, <2>13, <2>14 DEF GoesOn
  <2> QED
    BY <1>2, <1>4, <2>4, <2>5, <2>6, <2>8, <2>9, <2>11, <2>15, StepOfPrepared
    DEF stage, Original, Installed
<1>7. CASE word = "place"
  <2>1. PutBack(c, "new") /\ journal' = journal /\ "new" \in Asides
    BY <1>1, <1>7 DEF Place, Asides
  <2>2. Moved(c) /\ Installed(c) # {} /\ Tail(todo) = Then("note place", c, After(c))
    BY <1>3, <1>7 DEF RestFits
  <2>3. Typed' /\ LakeFits'
    BY <1>2, <1>4, <2>1, RenameIsSound, AsideIsUsable
  <2>4. /\ LiveOf(c)' = aside["new"][c] /\ aside'["new"][c] = {}
        /\ aside'["rollback"][c] = aside["rollback"][c]
        /\ aside'["discarded"][c] = aside["discarded"][c]
        /\ \A d \in Components \ {c} : LiveOf(d)' = LiveOf(d) /\ \A q \in Asides : aside'[q][d] = aside[q][d]
    <3>1. /\ LiveOf(c)' = aside["new"][c] /\ aside'["new"][c] = {}
          /\ \A q \in Asides, d \in Components :
               q # "new" \/ d # c => aside'[q][d] = aside[q][d]
          /\ \A d \in Components \ {c} : LiveOf(d)' = LiveOf(d)
      BY <1>4, <2>1, TakenBack
    <3>2. "rollback" \in Asides /\ "discarded" \in Asides
      BY DEF Asides
    <3> QED
      BY <3>1, <3>2
  <2>5. \A d \in Components \ {c} : Same(d)
    BY <2>1, <2>4 DEF Same, Original, Installed, SetAside, ToPlace, Discarded, Asides
  <2>6. c \notin journal.placed /\ ~Mistaken(c)
    BY <1>4, <2>2, NotYetPlaced
  <2>7. Placed(c)' /\ Installed(c)' # {} /\ Had(c)' = Had(c)
    BY <2>1, <2>2, <2>4 DEF Placed, Moved, Had, Original, Installed, SetAside, ToPlace, Discarded
  <2>8. ComponentFits(c)'
    BY <1>4, <2>1, <2>6, <2>7 DEF ComponentFits, Placed
  <2>9. OtherFits(c)'
    BY <1>4, <2>5, OtherKept
  <2>10. After(c)' = After(c)
    BY <2>1, PlansKept DEF Had, Installed
  <2>11. todo' = Then("note place", c, After(c)')
    BY <1>4, <2>2, <2>10
  <2>12. Restoring'
    BY <2>7, <2>9, <2>11 DEF Restoring, RestoreAt
  <2> QED
    BY <1>2, <1>4, <2>1, <2>3, <2>5, <2>6, <2>8, <2>12, StepOfPrepared DEF Rest, Original, Installed
<1>8. CASE word = "note place"
  <2> DEFINE placed == journal.placed \cup {c}
  <2>1. /\ journal' = [journal EXCEPT !.placed = placed] /\ UNCHANGED <<live, aside>>
    BY <1>1, <1>8 DEF NotePlace
  <2>2. Placed(c) /\ Installed(c) # {} /\ Tail(todo) = After(c)
    BY <1>3, <1>8 DEF RestFits
  <2>3. placed \in SUBSET Components /\ journal.moved \in SUBSET Components
        /\ Noted("prepared", journal.moved, placed)
    BY <1>2, <1>4, <2>1, NotesAre DEF Typed
  <2> HIDE DEF placed
  <2>4. UNCHANGED <<live, backup, stage, serving>> /\ refused' = refused
    BY <1>4, <2>1 DEF Rest, stage
  <2>5. Typed' /\ journal'.phase = "prepared" /\ journal'.original = journal.original
        /\ journal'.installed = journal.installed /\ journal'.moved = journal.moved
        /\ journal'.placed = placed
    BY <1>4, <2>3, <2>4, NotedIsTyped DEF Typed
  <2>6. LakeFits'
    <3>1. journal' # NoJournal
      BY <2>5, PhaseOfNoJournal
    <3> QED
      BY <1>4, <2>4, <3>1, LakeUntouched DEF backup
  <2>7. \A d \in Components : LiveOf(d)' = LiveOf(d)
    BY <2>4, ComponentsAre DEF LiveOf, live, lakeVars
  <2>8. \A d \in Components \ {c} : Same(d)
    <3>1. \A d \in Components \ {c} : d \in journal'.placed <=> d \in journal.placed
      <4>1. journal'.placed = placed
        BY <2>5
      <4> QED
        BY <4>1 DEF placed
    <3> QED
      BY <2>1, <2>5, <2>7, <3>1 DEF Same, Original, Installed, SetAside, ToPlace, Discarded
  <2>9. ~Mistaken(c)
    BY <2>2 DEF Mistaken, Restored, Placed
  <2>10. Placed(c)' /\ Installed(c)' # {} /\ Had(c)' = Had(c)
    BY <2>1, <2>2, <2>5, <2>7 DEF Placed, Had, Original, Installed, SetAside, ToPlace, Discarded
  <2>11. ComponentFits(c)'
    BY <1>4, <2>5, <2>10 DEF ComponentFits, Placed
  <2>12. OtherFits(c)'
    BY <1>4, <2>8, OtherKept
  <2>13. todo' = After(c)'
    BY <1>4, <2>2, <2>5, PlansKept DEF Had, Installed
  <2>14. GoesOn'
    BY RestoreGoesOn, PTL
  <2>15. Restoring'
    BY <2>10, <2>12, <2>13, <2>14 DEF GoesOn
  <2> QED
    BY <1>2, <1>4, <2>4, <2>5, <2>6, <2>8, <2>9, <2>11, <2>15, StepOfPrepared
    DEF stage, Original, Installed
<1> QED
  BY <1>1, <1>5, <1>6, <1>7, <1>8

\* The pair in place is known by its components.
LEMMA LiveIs ==
    ASSUME NEW pair, IsPair(pair), \A c \in Components : LiveOf(c) = pair[c]
    PROVE  Live = pair
BY DEF Live, IsPair

\* A step that leaves the directory alone.
LEMMA LiveKept ==
    ASSUME UNCHANGED live
    PROVE  Live' = Live /\ \A c \in Components : LiveOf(c)' = LiveOf(c)
<1>1. LiveOf("database")' = LiveOf("database") /\ LiveOf("market")' = LiveOf("market")
  BY DEF LiveOf, live, lakeVars
<1> QED
  BY <1>1, ComponentsAre DEF Live

\* The commit: both components are placed, and the journal says so.
LEMMA CommitKeeps ==
    ASSUME DirectoryInv, Commit
    PROVE  /\ DirectoryInv'
           /\ journal.phase = "prepared" /\ ~serving /\ ~serving' /\ journal'.phase = "committed"
           /\ journal'.original = journal.original /\ journal'.installed = journal.installed
<1>1. /\ Doing("commit", "both") /\ journal' = [journal EXCEPT !.phase = "committed"]
      /\ todo' = Tail(todo) /\ UNCHANGED <<live, aside, Rest>>
  BY DEF Commit, Done
<1>2. journal.phase = "prepared" /\ ~serving /\ Restoring /\ journal # NoJournal
  <2>1. "commit" \notin UndoWords \cup {"rolled back"} /\ "commit" # "clean"
    BY DEF UndoWords
  <2> QED
    BY <1>1, <2>1, WhatIsDoing
<1>3. Tail(todo) = Cleaning /\ \A d \in Components : Placed(d)
  BY <1>1, <1>2, InTheRestore DEF RestFits
<1>4. ~refused
  <2>1. \A d \in Components : ~Mistaken(d)
    BY <1>3 DEF Mistaken, Restored, Placed, Had, Original
  <2> QED
    BY <1>2, <2>1 DEF DirectoryInv, JournalFits
<1>5. /\ Typed /\ LakeFits /\ torn = {}
      /\ Usable(journal.original) /\ Usable(journal.installed)
  BY <1>2 DEF DirectoryInv, JournalFits
<1>6. Noted("committed", journal.moved, journal.placed)
      /\ journal.moved \in SUBSET Components /\ journal.placed \in SUBSET Components
  BY <1>1, <1>5, NotesAre DEF Typed
<1>7. UNCHANGED <<live, backup, stage, serving>> /\ refused' = refused
  BY <1>1 DEF Rest, stage
<1>8. /\ Typed' /\ journal'.phase = "committed" /\ journal'.original = journal.original
      /\ journal'.installed = journal.installed
  BY <1>5, <1>6, <1>7, NotedIsTyped DEF Typed, Final
<1>9. journal' # NoJournal /\ journal'.phase \in Final
  BY <1>8, PhaseOfNoJournal DEF Final
<1>10. LakeFits'
  BY <1>5, <1>7, <1>9, LakeUntouched DEF backup
<1>11. Live' = journal'.installed
  <2>1. Live = journal.installed
    BY <1>3, <1>5, LiveIs DEF Placed, Installed, Typed
  <2> QED
    BY <1>7, <1>8, <2>1, LiveKept
<1>12. JournalFits'
  <2>1. ~serving' /\ ~refused' /\ torn' = {} /\ todo' = Cleaning
    BY <1>1, <1>2, <1>3, <1>4, <1>5, <1>7 DEF stage
  <2>2. Usable(journal'.original) /\ Usable(journal'.installed)
    BY <1>5, <1>8
  <2> QED
    BY <1>8, <1>9, <1>11, <2>1, <2>2 DEF JournalFits
<1> QED
  BY <1>2, <1>7, <1>8, <1>10, <1>12 DEF DirectoryInv

\* A step of a cleanup, and a recovery that begins one or refuses to.
LEMMA StepOfFinal ==
    ASSUME DirectoryInv, journal.phase \in Final, Typed', UNCHANGED <<live, backup, serving, journal>>,
           \A p \in torn' : aside'[p]["market"] # {},
           todo' \in {<<>>, Cleaning},
           refused' => todo' = <<>> /\ ~(StageFits /\ AsidesFit)'
    PROVE  DirectoryInv'
<1>1. journal # NoJournal /\ ~serving
  BY PhaseOfNoJournal DEF Final, DirectoryInv, JournalFits
<1>2. LakeFits'
  BY <1>1, LakeUntouched DEF DirectoryInv, backup
<1>3. Live' = Live
  BY LiveKept
<1>4. JournalFits'
  <2>1. /\ Usable(journal.original) /\ Usable(journal.installed)
        /\ journal.phase = "committed" => Live = journal.installed
        /\ journal.phase = "rolled_back" => Live = journal.original
    BY <1>1 DEF DirectoryInv, JournalFits
  <2>2. Usable(journal'.original) /\ Usable(journal'.installed)
    BY <2>1
  <2> QED
    BY <1>1, <1>3, <2>1, <2>2 DEF JournalFits, Final
<1> QED
  BY <1>2, <1>4 DEF DirectoryInv

\* A cleanup touches neither the directory nor the backup.
LEMMA CleanupKeeps ==
    ASSUME DirectoryInv, CleanupStep
    PROVE  /\ DirectoryInv' /\ UNCHANGED <<live, backup, serving>> /\ journal.phase \in Final
           /\ journal' = journal \/ journal' = NoJournal
<1>1. Doing("clean", "both")
  BY DEF CleanupStep, RemoveManifest, FinishCleanup, RemoveAside
<1>2. /\ journal.phase \in Final /\ Tail(todo) = <<>> /\ ~refused /\ ~serving
      /\ journal # NoJournal /\ todo = Cleaning
  <2>1. "clean" \notin UndoWords \cup {"rolled back"}
    BY DEF UndoWords
  <2>2. /\ journal.phase \in Final /\ Tail(todo) = <<>> /\ ~refused /\ ~serving
        /\ journal # NoJournal
    BY <1>1, <2>1, WhatIsDoing
  <2>3. todo # <<>>
    BY <1>1, DoingIs
  <2> QED
    BY <2>2, <2>3 DEF DirectoryInv, JournalFits
<1>3. /\ Typed /\ LakeFits /\ \A p \in torn : aside[p]["market"] # {}
      /\ torn \subseteq Asides
  BY DEF DirectoryInv, JournalFits, Typed
<1>4. CASE RemoveManifest
  <2>1. /\ UNCHANGED <<live, backup, serving, journal>> /\ aside' = aside /\ torn' = torn
        /\ todo' = todo /\ refused' = refused /\ staged' = staged /\ manifest' = FALSE
    BY <1>4 DEF RemoveManifest, control
  <2>2. Typed'
    BY <1>3, <2>1 DEF Typed, LakeTypeOK, live, lakeVars, backup
  <2> QED
    BY <1>2, <1>3, <2>1, <2>2, StepOfFinal
<1>5. ASSUME NEW p \in Asides, NEW c \in Components, RemoveAside(p, c)
      PROVE  DirectoryInv' /\ UNCHANGED <<live, backup, serving, journal>>
  <2>1. /\ UNCHANGED <<live, backup, serving, journal>> /\ UNCHANGED <<staged, manifest>>
        /\ todo' = todo /\ refused' = refused /\ aside[p][c] # {}
        /\ \/ /\ aside' = [aside EXCEPT ![p][c] = {}]
              /\ torn' = IF c = "market" THEN torn \ {p} ELSE torn
           \/ /\ c = "market" /\ p \notin torn
              /\ torn' = torn \cup {p} /\ UNCHANGED aside
    BY <1>5 DEF RemoveAside, control
  <2>2. /\ DOMAIN aside' = Asides /\ aside' = [q \in Asides |-> aside'[q]]
        /\ \A q \in Asides : IsPair(aside'[q])
        /\ torn' \subseteq Asides
        /\ \A q \in torn' : aside'[q]["market"] # {}
    <3>1. CASE /\ aside' = [aside EXCEPT ![p][c] = {}]
               /\ torn' = IF c = "market" THEN torn \ {p} ELSE torn
      <4>1. {} \in Contents(c) /\ Shelving(aside', p, c, {})
        BY <3>1 DEF Contents, Shelving
      <4>2. /\ DOMAIN aside' = Asides /\ aside' = [q \in Asides |-> aside'[q]]
            /\ \A q \in Asides : IsPair(aside'[q])
            /\ \A q \in Asides, d \in Components :
                q # p \/ d # c => aside'[q][d] = aside[q][d]
        BY <1>3, <4>1, Shelved
      <4> QED
        BY <1>3, <3>1, <4>2, ComponentsAre
    <3>2. CASE /\ c = "market" /\ p \notin torn
               /\ torn' = torn \cup {p} /\ UNCHANGED aside
      BY <1>3, <2>1, <3>2 DEF Typed
    <3> QED
      BY <2>1, <3>1, <3>2
  <2>3. Typed'
    BY <1>3, <2>1, <2>2 DEF Typed, LakeTypeOK, live, lakeVars, backup
  <2> QED
    BY <1>2, <2>1, <2>2, <2>3, StepOfFinal
<1>6. CASE FinishCleanup
  <2>1. /\ Empty /\ ~manifest /\ UNCHANGED <<live, backup, serving>> /\ aside' = aside
        /\ torn' = torn /\ refused' = refused /\ manifest' = manifest
    BY <1>6 DEF FinishCleanup
  <2>2. CASE staged
    <3>1. staged' = FALSE /\ journal' = journal /\ todo' = todo
      BY <1>6, <2>2 DEF FinishCleanup
    <3>2. Typed'
      BY <1>3, <2>1, <3>1 DEF Typed, LakeTypeOK, live, lakeVars, backup
    <3>3. DirectoryInv'
      BY <1>2, <1>3, <2>1, <3>1, <3>2, StepOfFinal
    <3> QED
      BY <1>2, <2>1, <3>1, <3>3
  <2>3. CASE ~staged
    <3>1. staged' = staged /\ journal' = NoJournal /\ todo' = <<>>
      BY <1>2, <1>6, <2>3 DEF FinishCleanup, Done
    <3>2. Typed'
      <4>1. /\ IsPair(Absent) /\ journal'.phase = "none"
            /\ journal' = [phase |-> journal'.phase, original |-> journal'.original,
                           installed |-> journal'.installed, moved |-> journal'.moved,
                           placed |-> journal'.placed]
            /\ journal'.original = Absent /\ journal'.installed = Absent
            /\ journal'.moved = {} /\ journal'.placed = {}
        BY <3>1, AbsentIsAPair DEF NoJournal
      <4>2. LakeTypeOK'
        BY <1>3, <2>1 DEF Typed, LakeTypeOK, live, lakeVars
      <4> QED
        BY <1>3, <2>1, <3>1, <4>1, <4>2 DEF Typed, live, backup
    <3>3. Usable(Live)
      BY <1>2 DEF DirectoryInv, JournalFits, Final
    <3>4. LakeFits'
      BY <1>3, <2>1, <3>3, LakeUntouched DEF backup
    <3>5. JournalFits'
      <4>1. journal'.phase = "none" /\ ~serving'
        BY <1>2, <2>1, <3>1, PhaseOfNoJournal
      <4>2. ~staged' /\ ~manifest' /\ Empty' /\ ~refused' /\ \A p \in torn' : aside'[p]["market"] # {}
        BY <1>2, <1>3, <2>1, <2>3, <3>1 DEF Empty
      <4> QED
        BY <3>1, <4>1, <4>2 DEF JournalFits, Final
    <3> QED
      BY <1>2, <2>1, <3>1, <3>2, <3>4, <3>5 DEF DirectoryInv
  <2> QED
    BY <2>2, <2>3
<1> QED
  BY <1>2, <1>4, <1>5, <1>6 DEF CleanupStep, RemoveManifest

--------------------------------------------------------------------------------
(* Recovery.                                                               *)

\* Recovery never refuses an undecided restore at its start.
LEMMA PreparedIsRecoverable ==
    ASSUME DirectoryInv, journal.phase = "prepared"
    PROVE  StageFits /\ AsidesFit /\ LiveFits
<1>1. /\ staged /\ manifest /\ torn = {}
      /\ \A c \in Components : ComponentFits(c)
  BY DEF DirectoryInv, JournalFits
<1>2. StageFits
  BY <1>1 DEF StageFits
<1>3. \A c \in Components :
        /\ SetAside(c) \in {{}, Original(c)} /\ ToPlace(c) \in {{}, Installed(c)}
        /\ Discarded(c) \in {{}, Installed(c)} /\ LiveOf(c) \in {{}, Original(c), Installed(c)}
  BY <1>1 DEF ComponentFits, Untouched, Moved, Placed, Undone, Restored
<1>4. AsidesFit
  BY <1>1, <1>3 DEF AsidesFit, Holds, SetAside, ToPlace, Discarded, Original, Installed
<1>5. LiveFits
  BY <1>3 DEF LiveFits, Original, Installed
<1> QED
  BY <1>2, <1>4, <1>5

LEMMA CleaningIs == Cleaning = <<<<"clean", "both">>>>
<1>1. <<Item("clean", "both")>> \in Seq(Step)
  <2>1. Item("clean", "both") \in Step
    BY DEF Item, Step
  <2> QED
    BY <2>1, ShortSequences
<1> QED
  BY <1>1, ConcatEmptySeq DEF Cleaning, Then, Item

\* Whether recovery begins or refuses, nothing has changed yet.
LEMMA BeginRecoveryKeeps ==
    ASSUME DirectoryInv, BeginRecovery
    PROVE  DirectoryInv' /\ UNCHANGED <<live, backup, serving, journal>>
<1>1. /\ UNCHANGED <<live, serving, backup, journal, stage>> /\ ~serving /\ journal # NoJournal
      /\ Typed /\ LakeFits
  BY DEF BeginRecovery, DirectoryInv
<1>2. Typed' /\ refused' \in BOOLEAN
  <2>1. refused' \in BOOLEAN
    BY <1>1 DEF BeginRecovery, Refuse, Typed
  <2> QED
    BY <1>1, <2>1 DEF Typed, LakeTypeOK, live, lakeVars, backup, stage
<1>3. CASE journal.phase \in Final
  <2>1. \A p \in torn' : aside'[p]["market"] # {}
    BY <1>1 DEF DirectoryInv, JournalFits, stage
  <2>2. LiveFits
    BY <1>3 DEF LiveFits, DirectoryInv, JournalFits, Final
  <2>3. CASE StageFits /\ AsidesFit
    <3>1. todo' = Cleaning /\ ~refused'
      BY <1>3, <2>2, <2>3, CleaningIs DEF BeginRecovery, DirectoryInv, JournalFits
    <3> QED
      BY <1>1, <1>2, <1>3, <2>1, <3>1, StepOfFinal
  <2>4. CASE ~(StageFits /\ AsidesFit)
    <3>1. todo' = <<>>
      BY <2>4 DEF BeginRecovery, Refuse
    <3>2. StageFits' = StageFits /\ AsidesFit' = AsidesFit
      BY <1>1 DEF StageFits, AsidesFit, Holds, stage
    <3> QED
      BY <1>1, <1>2, <1>3, <2>1, <2>4, <3>1, <3>2, StepOfFinal
  <2> QED
    BY <2>3, <2>4
<1>4. CASE journal.phase = "prepared"
  <2>1. todo' = RollBackSteps /\ refused' = refused
    BY <1>4, PreparedIsRecoverable DEF BeginRecovery, Final
  <2>2. \A d \in Components : Same(d)
    <3>1. \A d \in Components : LiveOf(d)' = LiveOf(d)
      BY <1>1, LiveKept
    <3> QED
      BY <1>1, <3>1 DEF Same, Original, Installed, SetAside, ToPlace, Discarded, stage
  <2>3. RollingBack'
    <3>1. todo' = SubSeq(RollBackSteps, 1, 14)
      BY <2>1, EndsOfRollBackSteps
    <3>2. \A d \in Components : RolledBackTo(1, d)'
      BY DEF RolledBackTo, Reconciled, Undoing
    <3> QED
      BY <3>1, <3>2 DEF RollingBack
  <2>4. LakeFits'
    BY <1>1, LakeUntouched DEF backup
  <2>5. /\ "market" \in Components /\ ComponentFits("market")'
        /\ Mistaken("market")' = Mistaken("market")
    BY <1>4, <2>2, SameComponent, ComponentsAre DEF DirectoryInv, JournalFits
  <2>6. \A d \in Components : Original(d)' = Original(d) /\ Installed(d)' = Installed(d)
    BY <2>2 DEF Same
  <2>7. UNCHANGED <<serving, staged, manifest, torn>> /\ journal' = journal
    BY <1>1 DEF stage
  <2> QED
    BY <1>1, <1>2, <1>4, <2>1, <2>2, <2>3, <2>4, <2>5, <2>6, <2>7, StepOfPrepared
<1> QED
  BY <1>1, <1>3, <1>4 DEF DirectoryInv, Typed, JournalFits

\* The places of a component in a roll-back.
LEMMA Positions ==
    ASSUME NEW c \in Components
    PROVE  /\ Reconciled(c) \in 1..3 /\ Undoing(c) \in 5..9 /\ Reconciled(c) + 1 < Undoing(c)
           /\ PositionOf("reconcile move", c) = Reconciled(c)
           /\ PositionOf("reconcile place", c) = Reconciled(c) + 1
           /\ PositionOf("discard", c) = Undoing(c)
           /\ PositionOf("note discard", c) = Undoing(c) + 1
           /\ PositionOf("put back", c) = Undoing(c) + 2
           /\ PositionOf("note put back", c) = Undoing(c) + 3
BY ComponentsAre DEF PositionOf, Reconciled, Undoing

\* Where the steps on the database come.
LEMMA TurnsOfDatabase ==
    ASSUME NEW word \in UndoWords
    PROVE  PositionOf(word, "database") \in {1, 2, 9, 10, 11, 12}
<1>1. /\ PositionOf("reconcile move", "database") = 1
      /\ PositionOf("reconcile place", "database") = 2
      /\ PositionOf("discard", "database") = 9 /\ PositionOf("note discard", "database") = 10
      /\ PositionOf("put back", "database") = 11 /\ PositionOf("note put back", "database") = 12
  BY DEF PositionOf, Reconciled, Undoing
<1> QED
  BY <1>1 DEF UndoWords

\* Where the steps on the lake come.
LEMMA TurnsOfMarket ==
    ASSUME NEW word \in UndoWords
    PROVE  PositionOf(word, "market") \in {3, 4, 5, 6, 7, 8}
<1>1. /\ PositionOf("reconcile move", "market") = 3
      /\ PositionOf("reconcile place", "market") = 4
      /\ PositionOf("discard", "market") = 5 /\ PositionOf("note discard", "market") = 6
      /\ PositionOf("put back", "market") = 7 /\ PositionOf("note put back", "market") = 8
  BY DEF PositionOf, Reconciled, Undoing
<1> QED
  BY <1>1 DEF UndoWords

\* A step of a roll-back asks nothing new of the component it is not about.
LEMMA NotItsTurn ==
    ASSUME NEW c \in Components, NEW d \in Components \ {c}, NEW word \in UndoWords,
           RolledBackTo(PositionOf(word, c), d)
    PROVE  RolledBackTo(PositionOf(word, c) + 1, d)
<1>1. \A k \in 1..13 :
        /\ k # Reconciled(d) /\ k # Reconciled(d) + 1
        /\ k # Undoing(d) /\ k # Undoing(d) + 1 /\ k # Undoing(d) + 2
        /\ RolledBackTo(k, d)
        => RolledBackTo(k + 1, d)
  <2>1. Reconciled(d) \in 1..3 /\ Undoing(d) \in 5..9
    BY Positions
  <2> QED
    BY <2>1 DEF RolledBackTo
<1>2. /\ PositionOf(word, c) \in 1..13
      /\ PositionOf(word, c) # Reconciled(d) /\ PositionOf(word, c) # Reconciled(d) + 1
      /\ PositionOf(word, c) # Undoing(d) /\ PositionOf(word, c) # Undoing(d) + 1
      /\ PositionOf(word, c) # Undoing(d) + 2
  <2>1. CASE c = "database" /\ d = "market"
    <3>1. /\ Reconciled(d) = 3 /\ Undoing(d) = 5
          /\ PositionOf(word, c) \in {1, 2, 9, 10, 11, 12}
      BY <2>1, TurnsOfDatabase DEF Reconciled, Undoing
    <3> QED
      BY <3>1
  <2>2. CASE c = "market" /\ d = "database"
    <3>1. /\ Reconciled(d) = 1 /\ Undoing(d) = 9
          /\ PositionOf(word, c) \in {3, 4, 5, 6, 7, 8}
      BY <2>2, TurnsOfMarket DEF Reconciled, Undoing
    <3> QED
      BY <3>1
  <2> QED
    BY <2>1, <2>2, ComponentsAre
<1> QED
  BY <1>1, <1>2

\* What a step of a roll-back has to show.
LEMMA StepOfRollBack ==
    ASSUME DirectoryInv, NEW c \in Components, NEW word \in UndoWords, Doing(word, c),
           Typed', LakeFits', UNCHANGED Calm, journal'.phase = "prepared",
           journal'.original = journal.original, journal'.installed = journal.installed,
           ComponentFits(c)', \A d \in Components \ {c} : Same(d),
           Mistaken(c) => Mistaken(c)',
           \/ todo' = Tail(todo) /\ refused' = refused /\ RolledBackTo(PositionOf(word, c) + 1, c)'
           \/ todo' = <<>> /\ Mistaken(c)'
    PROVE  DirectoryInv'
<1>1. journal.phase = "prepared" /\ ~serving /\ RollingBack
  <2>1. word \notin Words
    BY DEF UndoWords, Words
  <2>2. "clean" \in Words
    BY DEF Words
  <2> QED
    BY <2>1, <2>2, WhatIsDoing
<1>2. (todo = <<>> \/ Restoring \/ RollingBack)'
  <2>1. CASE todo' = <<>>
    BY <2>1
  <2>2. CASE todo' = Tail(todo) /\ RolledBackTo(PositionOf(word, c) + 1, c)'
    <3>1. /\ todo' = SubSeq(RollBackSteps, PositionOf(word, c) + 1, 14)
          /\ \A d \in Components : RolledBackTo(PositionOf(word, c), d)
      BY <1>1, <2>2, InTheRollBack
    <3>2. PositionOf(word, c) + 1 \in 1..13
      BY TurnsOfDatabase, TurnsOfMarket, ComponentsAre
    <3>3. ASSUME NEW d \in Components
          PROVE  RolledBackTo(PositionOf(word, c) + 1, d)'
      <4>1. CASE d = c
        BY <2>2, <4>1
      <4>2. CASE d # c
        <5>1. RolledBackTo(PositionOf(word, c) + 1, d)
          BY <3>1, <4>2, NotItsTurn
        <5>2. PICK k \in 1..14 : k = PositionOf(word, c) + 1
          BY <3>2
        <5>3. RolledBackTo(k, d) => RolledBackTo(k, d)'
          BY <4>2, SameComponent
        <5> QED
          BY <5>1, <5>2, <5>3
      <4> QED
        BY <4>1, <4>2
    <3> QED
      BY <3>1, <3>2, <3>3 DEF RollingBack
  <2> QED
    BY <2>1, <2>2
<1>3. \A d \in Components : Original(d)' = Original(d) /\ Installed(d)' = Installed(d)
  BY DEF Original, Installed
<1>4. UNCHANGED <<serving, staged, manifest, torn>> /\ (refused' => refused \/ Mistaken(c)')
  BY DEF Calm
<1> QED
  BY <1>1, <1>2, <1>3, <1>4, StepOfPrepared

\* What a step of a roll-back finds.
LEMMA InUndo ==
    ASSUME DirectoryInv, NEW c \in Components, NEW word \in UndoWords, Doing(word, c)
    PROVE  /\ journal.phase = "prepared" /\ ~serving /\ journal # NoJournal
           /\ Typed /\ LakeFits /\ ComponentFits(c)
           /\ RolledBackTo(PositionOf(word, c), c)
           /\ journal.moved \in SUBSET Components /\ journal.placed \in SUBSET Components
<1>1. journal.phase = "prepared" /\ ~serving /\ journal # NoJournal /\ RollingBack
  <2>1. word \notin Words /\ word # "clean"
    BY DEF UndoWords, Words
  <2>2. /\ journal # NoJournal /\ ~serving
        /\ \/ journal.phase = "prepared" /\ word \in Words \ {"clean"} /\ Restoring
           \/ journal.phase = "prepared" /\ word \in UndoWords \cup {"rolled back"} /\ RollingBack
           \/ journal.phase \in Final /\ word = "clean" /\ Tail(todo) = <<>> /\ ~refused
    BY WhatIsDoing
  <2> QED
    BY <2>1, <2>2
<1>2. RolledBackTo(PositionOf(word, c), c)
  BY <1>1, InTheRollBack
<1> QED
  BY <1>1, <1>2 DEF DirectoryInv, JournalFits, Typed

\* The note that a step writes is about one component.
LEMMA OneNote ==
    ASSUME Typed, LakeFits, journal.phase = "prepared",
           NEW moved \in SUBSET Components, NEW placed \in SUBSET Components,
           Noted("prepared", moved, placed),
           UNCHANGED <<live, aside, backup, serving, staged, manifest, torn>>, refused' \in BOOLEAN,
           NEW c \in Components,
           \A d \in Components \ {c} : /\ d \in moved <=> d \in journal.moved
                                       /\ d \in placed <=> d \in journal.placed
    PROVE  /\ Typed' /\ LakeFits' /\ journal'.phase = "prepared"
           /\ journal'.original = journal.original /\ journal'.installed = journal.installed
           /\ journal'.moved = moved /\ journal'.placed = placed
           /\ \A d \in Components \ {c} : Same(d)
           /\ Untouched(c)' = Untouched(c) /\ Moved(c)' = Moved(c) /\ Placed(c)' = Placed(c)
           /\ Undone(c)' = Undone(c) /\ Restored(c)' = Restored(c)
           /\ Had(c)' = Had(c) /\ Installed(c)' = Installed(c) /\ Original(c)' = Original(c)
           /\ SetAside(c)' = SetAside(c) /\ Discarded(c)' = Discarded(c) /\ LiveOf(c)' = LiveOf(c)
<1>1. UNCHANGED <<live, backup, stage, serving>>
  BY DEF stage
<1>2. /\ Typed' /\ journal'.phase = "prepared"
      /\ journal'.original = journal.original /\ journal'.installed = journal.installed
      /\ journal'.moved = moved /\ journal'.placed = placed
  BY <1>1, NotedIsTyped
<1>3. LakeFits'
  <2>1. journal' # NoJournal
    BY <1>2, PhaseOfNoJournal
  <2> QED
    BY <1>1, <2>1, LakeUntouched DEF backup
<1>4. /\ \A d \in Components : LiveOf(d)' = LiveOf(d)
      /\ \A d \in Components : Original(d)' = Original(d) /\ Installed(d)' = Installed(d)
      /\ \A d \in Components : /\ SetAside(d)' = SetAside(d) /\ ToPlace(d)' = ToPlace(d)
                               /\ Discarded(d)' = Discarded(d)
  BY <1>1, <1>2, LiveKept DEF Original, Installed, SetAside, ToPlace, Discarded
<1>5. \A d \in Components \ {c} : Same(d)
  BY <1>2, <1>4 DEF Same
<1>6. /\ Untouched(c)' = Untouched(c) /\ Moved(c)' = Moved(c) /\ Placed(c)' = Placed(c)
      /\ Undone(c)' = Undone(c) /\ Restored(c)' = Restored(c)
  BY <1>4 DEF Untouched, Moved, Placed, Undone, Restored
<1>7. Had(c)' = Had(c)
  BY <1>2 DEF Had
<1> QED
  BY <1>2, <1>3, <1>4, <1>5, <1>6, <1>7

LEMMA HadIs == \A c : Had(c) <=> Original(c) # {}
BY DEF Had, Original

\* What a component's six turns of the roll-back start from and have to show.
Turns ==
    \A c \in Components :
        /\ AsideIsNoted(c) => RolledBackTo(PositionOf("reconcile move", c) + 1, c)
        /\ RolledBackTo(PositionOf("reconcile place", c), c) => AsideIsNoted(c)
        /\ AsideIsNoted(c) /\ NewIsNoted(c)
             => RolledBackTo(PositionOf("reconcile place", c) + 1, c)
        /\ RolledBackTo(PositionOf("discard", c), c) => AsideIsNoted(c) /\ NewIsNoted(c)
        /\ AsideIsNoted(c) /\ NewIsNoted(c) /\ NewIsGone(c)
             => RolledBackTo(PositionOf("discard", c) + 1, c)
        /\ RolledBackTo(PositionOf("note discard", c), c) => AsideIsNoted(c) /\ NewIsGone(c)
        /\ AsideIsNoted(c) /\ NewIsNoted(c) /\ NewIsGone(c) /\ c \notin journal.placed
             => RolledBackTo(PositionOf("note discard", c) + 1, c)
        /\ RolledBackTo(PositionOf("put back", c), c)
             => AsideIsNoted(c) /\ NewIsGone(c) /\ c \notin journal.placed
        /\ AsideIsNoted(c) /\ NewIsNoted(c) /\ NewIsGone(c) /\ c \notin journal.placed /\ OldIsBack(c)
             => /\ RolledBackTo(PositionOf("put back", c) + 1, c)
                /\ RolledBackTo(PositionOf("note put back", c) + 1, c)
        /\ RolledBackTo(PositionOf("note put back", c), c)
             => NewIsGone(c) /\ c \notin journal.placed /\ OldIsBack(c)

LEMMA TurnsOfRollBack == Turns
<1> SUFFICES ASSUME NEW c \in Components
             PROVE
            /\ AsideIsNoted(c) => RolledBackTo(PositionOf("reconcile move", c) + 1, c)
            /\ RolledBackTo(PositionOf("reconcile place", c), c) => AsideIsNoted(c)
            /\ AsideIsNoted(c) /\ NewIsNoted(c)
                 => RolledBackTo(PositionOf("reconcile place", c) + 1, c)
            /\ RolledBackTo(PositionOf("discard", c), c) => AsideIsNoted(c) /\ NewIsNoted(c)
            /\ AsideIsNoted(c) /\ NewIsNoted(c) /\ NewIsGone(c)
                 => RolledBackTo(PositionOf("discard", c) + 1, c)
            /\ RolledBackTo(PositionOf("note discard", c), c) => AsideIsNoted(c) /\ NewIsGone(c)
            /\ AsideIsNoted(c) /\ NewIsNoted(c) /\ NewIsGone(c) /\ c \notin journal.placed
                 => RolledBackTo(PositionOf("note discard", c) + 1, c)
            /\ RolledBackTo(PositionOf("put back", c), c)
                 => AsideIsNoted(c) /\ NewIsGone(c) /\ c \notin journal.placed
            /\ AsideIsNoted(c) /\ NewIsNoted(c) /\ NewIsGone(c) /\ c \notin journal.placed /\ OldIsBack(c)
                 => /\ RolledBackTo(PositionOf("put back", c) + 1, c)
                    /\ RolledBackTo(PositionOf("note put back", c) + 1, c)
            /\ RolledBackTo(PositionOf("note put back", c), c)
                 => NewIsGone(c) /\ c \notin journal.placed /\ OldIsBack(c)
  BY DEF Turns
<1>1. Reconciled(c) \in 1..3 /\ Undoing(c) \in 5..9 /\ Reconciled(c) + 1 < Undoing(c)
  BY Positions
<1>2.
        /\ AsideIsNoted(c) => RolledBackTo(Reconciled(c) + 1, c)
        /\ RolledBackTo(Reconciled(c) + 1, c) => AsideIsNoted(c)
        /\ AsideIsNoted(c) /\ NewIsNoted(c)
             => RolledBackTo((Reconciled(c) + 1) + 1, c)
        /\ RolledBackTo(Undoing(c), c) => AsideIsNoted(c) /\ NewIsNoted(c)
        /\ AsideIsNoted(c) /\ NewIsNoted(c) /\ NewIsGone(c)
             => RolledBackTo(Undoing(c) + 1, c)
        /\ RolledBackTo(Undoing(c) + 1, c) => AsideIsNoted(c) /\ NewIsGone(c)
        /\ AsideIsNoted(c) /\ NewIsNoted(c) /\ NewIsGone(c) /\ c \notin journal.placed
             => RolledBackTo((Undoing(c) + 1) + 1, c)
        /\ RolledBackTo(Undoing(c) + 2, c)
             => AsideIsNoted(c) /\ NewIsGone(c) /\ c \notin journal.placed
        /\ AsideIsNoted(c) /\ NewIsNoted(c) /\ NewIsGone(c) /\ c \notin journal.placed /\ OldIsBack(c)
             => /\ RolledBackTo((Undoing(c) + 2) + 1, c)
                /\ RolledBackTo((Undoing(c) + 3) + 1, c)
        /\ RolledBackTo(Undoing(c) + 3, c)
             => NewIsGone(c) /\ c \notin journal.placed /\ OldIsBack(c)
  BY <1>1 DEF RolledBackTo
<1>3. /\ PositionOf("reconcile move", c) = Reconciled(c)
      /\ PositionOf("reconcile place", c) = Reconciled(c) + 1
      /\ PositionOf("discard", c) = Undoing(c)
      /\ PositionOf("note discard", c) = Undoing(c) + 1
      /\ PositionOf("put back", c) = Undoing(c) + 2
      /\ PositionOf("note put back", c) = Undoing(c) + 3
  BY Positions
<1> QED
  BY <1>2, <1>3

\* A move that was not noted is noted, or the restore had not moved the component.
LEMMA ReconcileMoveKeeps ==
    ASSUME DirectoryInv, NEW c \in Components, ReconcileMove(c)
    PROVE  DirectoryInv'
<1>1. /\ Doing("reconcile move", c) /\ "reconcile move" \in UndoWords
      /\ UNCHANGED <<live, aside, Calm>>
  BY DEF ReconcileMove, UndoWords
<1>2. /\ journal.phase = "prepared" /\ Typed /\ LakeFits /\ ComponentFits(c)
      /\ journal.moved \in SUBSET Components /\ journal.placed \in SUBSET Components
  BY <1>1, InUndo
<1>3. PICK moved \in SUBSET Components, placed \in SUBSET Components :
        /\ Noted("prepared", moved, placed)
        /\ todo' = Tail(todo) /\ refused' = refused
        /\ \/ moved = journal.moved
           \/ moved = journal.moved \cup {c} /\ Had(c)
        /\ \/ placed = journal.placed
           \/ placed = journal.placed \cup {c} /\ Placed(c) /\ Installed(c) # {}
        /\ SetAside(c) # {} => c \in moved
        /\ c \in journal.moved => placed = journal.placed
  <2>1. CASE c \in journal.moved \/ SetAside(c) = {}
    <3>1. /\ Noted("prepared", journal.moved, journal.placed)
          /\ todo' = Tail(todo) /\ refused' = refused
      BY <1>2, <2>1, NotesAre DEF ReconcileMove, Done, SetAside
    <3> QED
      BY <1>2, <2>1, <3>1
  <2>2. CASE c \notin journal.moved /\ SetAside(c) # {}
    <3>1. Had(c) /\ Discarded(c) = {} /\ (Moved(c) \/ Placed(c))
      BY <1>2, <2>2, HadIs DEF ComponentFits, Untouched, Moved, Placed, Undone, Restored
    <3>2. CASE LiveOf(c) = {} /\ ToPlace(c) = Installed(c)
      <4>1. /\ journal' = [journal EXCEPT !.moved = journal.moved \cup {c}]
            /\ todo' = Tail(todo) /\ refused' = refused
        BY <2>2, <3>1, <3>2 DEF ReconcileMove, Done, SetAside, ToPlace, Installed
      <4>2. Noted("prepared", journal.moved \cup {c}, journal.placed)
        BY <1>2, <4>1, NotesAre
      <4>3. journal.moved \cup {c} \in SUBSET Components
        BY <1>2
      <4> QED
        BY <1>2, <2>2, <3>1, <4>1, <4>2, <4>3
    <3>3. CASE ~(LiveOf(c) = {} /\ ToPlace(c) = Installed(c))
      <4>1. Placed(c) /\ Installed(c) # {} /\ LiveOf(c) = Installed(c) /\ ToPlace(c) = {}
        BY <3>1, <3>3 DEF Moved, Placed
      <4>2. /\ journal' = [journal EXCEPT !.moved = journal.moved \cup {c},
                                         !.placed = journal.placed \cup {c}]
            /\ todo' = Tail(todo) /\ refused' = refused
        BY <2>2, <3>1, <3>3, <4>1 DEF ReconcileMove, Done, SetAside, ToPlace, Installed
      <4>3. Noted("prepared", journal.moved \cup {c}, journal.placed \cup {c})
        BY <1>2, <4>2, NotesAre
      <4>4. journal.moved \cup {c} \in SUBSET Components /\ journal.placed \cup {c} \in SUBSET Components
        BY <1>2
      <4> QED
        BY <2>2, <3>1, <4>1, <4>2, <4>3, <4>4
    <3> QED
      BY <3>2, <3>3
  <2> QED
    BY <2>1, <2>2
<1>4. /\ UNCHANGED <<live, aside, backup, serving, staged, manifest, torn>> /\ refused' \in BOOLEAN
      /\ \A d \in Components \ {c} : /\ d \in moved <=> d \in journal.moved
                                     /\ d \in placed <=> d \in journal.placed
  BY <1>1, <1>2, <1>3 DEF Calm, Typed
<1>5. /\ Typed' /\ LakeFits' /\ journal'.phase = "prepared"
      /\ journal'.original = journal.original /\ journal'.installed = journal.installed
      /\ journal'.moved = moved /\ journal'.placed = placed
      /\ \A d \in Components \ {c} : Same(d)
      /\ Untouched(c)' = Untouched(c) /\ Moved(c)' = Moved(c) /\ Placed(c)' = Placed(c)
      /\ Undone(c)' = Undone(c) /\ Restored(c)' = Restored(c)
      /\ Had(c)' = Had(c) /\ Installed(c)' = Installed(c) /\ Original(c)' = Original(c)
      /\ SetAside(c)' = SetAside(c) /\ Discarded(c)' = Discarded(c) /\ LiveOf(c)' = LiveOf(c)
  BY <1>2, <1>3, <1>4, OneNote
<1>6. Mistaken(c) => Mistaken(c)'
  BY <1>3, <1>5 DEF Mistaken
<1>7. ComponentFits(c)'
  BY <1>2, <1>3, <1>5, <1>6 DEF ComponentFits
<1>8. RolledBackTo(PositionOf("reconcile move", c) + 1, c)'
  <2>1. AsideIsNoted(c)'
    BY <1>3, <1>5 DEF AsideIsNoted
  <2>2. Turns'
    BY TurnsOfRollBack, PTL
  <2> QED
    BY <2>1, <2>2 DEF Turns
<1> QED
  BY <1>1, <1>3, <1>5, <1>6, <1>7, <1>8, StepOfRollBack

\* A placement that was not noted is noted.
LEMMA ReconcilePlaceKeeps ==
    ASSUME DirectoryInv, NEW c \in Components, ReconcilePlace(c)
    PROVE  DirectoryInv'
<1>1. /\ Doing("reconcile place", c) /\ "reconcile place" \in UndoWords
      /\ UNCHANGED <<live, aside, Calm>> /\ todo' = Tail(todo) /\ refused' = refused
  BY DEF ReconcilePlace, UndoWords, Done
<1>2. /\ journal.phase = "prepared" /\ Typed /\ LakeFits /\ ComponentFits(c)
      /\ journal.moved \in SUBSET Components /\ journal.placed \in SUBSET Components
      /\ RolledBackTo(PositionOf("reconcile place", c), c)
  BY <1>1, InUndo
<1>3. AsideIsNoted(c)
  BY <1>2, TurnsOfRollBack DEF Turns
<1> DEFINE NotedNow ==
      /\ c \notin journal.placed
      /\ Installed(c) # {} /\ LiveOf(c) = Installed(c) /\ ToPlace(c) = {}
      /\ c \in journal.moved \/ ~Had(c)
<1> HIDE DEF NotedNow
<1>4. PICK moved \in SUBSET Components, placed \in SUBSET Components :
        /\ moved = journal.moved /\ Noted("prepared", moved, placed)
        /\ placed = IF NotedNow THEN journal.placed \cup {c} ELSE journal.placed
  <2>1. CASE NotedNow
    <3>1. journal' = [journal EXCEPT !.placed = journal.placed \cup {c}]
      BY <2>1 DEF ReconcilePlace, Installed, ToPlace, NotedNow
    <3>2. Noted("prepared", journal.moved, journal.placed \cup {c})
      BY <1>2, <3>1, NotesAre
    <3>3. journal.placed \cup {c} \in SUBSET Components
      BY <1>2
    <3> QED
      BY <1>2, <2>1, <3>2, <3>3
  <2>2. CASE ~NotedNow
    <3>1. journal' = journal
      BY <2>2 DEF ReconcilePlace, Installed, ToPlace, NotedNow
    <3> QED
      BY <1>2, <2>2, <3>1, NotesAre
  <2> QED
    BY <2>1, <2>2
<1>5. /\ moved \in SUBSET Components /\ placed \in SUBSET Components
      /\ Noted("prepared", moved, placed)
      /\ UNCHANGED <<live, aside, backup, serving, staged, manifest, torn>> /\ refused' \in BOOLEAN
      /\ \A d \in Components \ {c} : /\ d \in moved <=> d \in journal.moved
                                     /\ d \in placed <=> d \in journal.placed
  BY <1>1, <1>2, <1>4 DEF Calm, Typed
<1>6. /\ Typed' /\ LakeFits' /\ journal'.phase = "prepared"
      /\ journal'.original = journal.original /\ journal'.installed = journal.installed
      /\ journal'.moved = moved /\ journal'.placed = placed
      /\ \A d \in Components \ {c} : Same(d)
      /\ Untouched(c)' = Untouched(c) /\ Moved(c)' = Moved(c) /\ Placed(c)' = Placed(c)
      /\ Undone(c)' = Undone(c) /\ Restored(c)' = Restored(c)
      /\ Had(c)' = Had(c) /\ Installed(c)' = Installed(c) /\ Original(c)' = Original(c)
      /\ SetAside(c)' = SetAside(c) /\ Discarded(c)' = Discarded(c) /\ LiveOf(c)' = LiveOf(c)
  BY <1>2, <1>5, OneNote
<1>7. Mistaken(c) => Mistaken(c)'
  BY <1>4, <1>6 DEF Mistaken
<1>8. NotedNow => Placed(c) \/ Mistaken(c)'
  <2> SUFFICES ASSUME NotedNow PROVE Placed(c) \/ Mistaken(c)'
    OBVIOUS
  <2>1. Placed(c) \/ Restored(c)
    BY <1>2 DEF ComponentFits, Untouched, Moved, Undone, NotedNow
  <2>2. CASE Restored(c)
    <3>1. Original(c) = Installed(c) /\ Had(c) /\ c \in journal.moved
      BY <2>2, HadIs DEF Restored, NotedNow
    <3>2. c \in placed
      BY <1>4
    <3> QED
      BY <1>4, <1>6, <2>2, <3>1, <3>2 DEF Mistaken
  <2> QED
    BY <2>1, <2>2
<1>9. ComponentFits(c)'
  <2>1. c \in placed => Installed(c) # {} /\ (Placed(c) \/ Undone(c) \/ Mistaken(c)')
    BY <1>2, <1>4, <1>7, <1>8 DEF ComponentFits, NotedNow
  <2> QED
    BY <1>2, <1>4, <1>6, <2>1 DEF ComponentFits
<1>10. AsideIsNoted(c)' /\ NewIsNoted(c)'
  <2>1. Placed(c) /\ Installed(c) # {} => c \in placed
    BY <1>3, <1>4, HadIs DEF Placed, AsideIsNoted, NotedNow
  <2> QED
    BY <1>3, <1>4, <1>6, <2>1 DEF AsideIsNoted, NewIsNoted
<1>11. Turns'
  BY TurnsOfRollBack, PTL
<1>12. RolledBackTo(PositionOf("reconcile place", c) + 1, c)'
  BY <1>10, <1>11 DEF Turns
<1> QED
  BY <1>1, <1>6, <1>7, <1>9, <1>12, StepOfRollBack

\* The new contents are gone, and now the journal says so.
LEMMA NoteDiscardKeeps ==
    ASSUME DirectoryInv, NEW c \in Components, NoteDiscard(c)
    PROVE  DirectoryInv'
<1>1. /\ Doing("note discard", c) /\ "note discard" \in UndoWords
      /\ UNCHANGED <<live, aside, Calm>> /\ todo' = Tail(todo) /\ refused' = refused
      /\ journal' = [journal EXCEPT !.placed = journal.placed \ {c}]
  BY DEF NoteDiscard, UndoWords, Done
<1>2. /\ journal.phase = "prepared" /\ Typed /\ LakeFits /\ ComponentFits(c)
      /\ journal.moved \in SUBSET Components /\ journal.placed \in SUBSET Components
      /\ RolledBackTo(PositionOf("note discard", c), c)
  BY <1>1, InUndo
<1>3. AsideIsNoted(c) /\ NewIsGone(c)
  BY <1>2, TurnsOfRollBack DEF Turns
<1>4. PICK moved \in SUBSET Components, placed \in SUBSET Components :
        moved = journal.moved /\ placed = journal.placed \ {c}
  BY <1>2
<1>5. /\ UNCHANGED <<live, aside, backup, serving, staged, manifest, torn>> /\ refused' \in BOOLEAN
      /\ Noted("prepared", moved, placed)
      /\ \A d \in Components \ {c} : /\ d \in moved <=> d \in journal.moved
                                     /\ d \in placed <=> d \in journal.placed
  BY <1>1, <1>2, <1>4, NotesAre DEF Calm, Typed
<1>6. /\ Typed' /\ LakeFits' /\ journal'.phase = "prepared"
      /\ journal'.original = journal.original /\ journal'.installed = journal.installed
      /\ journal'.moved = moved /\ journal'.placed = placed
      /\ \A d \in Components \ {c} : Same(d)
      /\ Untouched(c)' = Untouched(c) /\ Moved(c)' = Moved(c) /\ Placed(c)' = Placed(c)
      /\ Undone(c)' = Undone(c) /\ Restored(c)' = Restored(c)
      /\ Had(c)' = Had(c) /\ Installed(c)' = Installed(c) /\ Original(c)' = Original(c)
      /\ SetAside(c)' = SetAside(c) /\ Discarded(c)' = Discarded(c) /\ LiveOf(c)' = LiveOf(c)
  BY <1>2, <1>5, OneNote
<1>7. ~Mistaken(c) /\ ~Mistaken(c)' /\ c \notin journal'.placed
  BY <1>3, <1>4, <1>6 DEF NewIsGone, Mistaken
<1>8. ComponentFits(c)'
  BY <1>2, <1>4, <1>6, <1>7 DEF ComponentFits
<1>9. AsideIsNoted(c)' /\ NewIsNoted(c)' /\ NewIsGone(c)'
  BY <1>3, <1>4, <1>6, <1>7 DEF AsideIsNoted, NewIsNoted, NewIsGone
<1>10. Turns'
  BY TurnsOfRollBack, PTL
<1>11. RolledBackTo(PositionOf("note discard", c) + 1, c)'
  BY <1>7, <1>9, <1>10 DEF Turns
<1> QED
  BY <1>1, <1>6, <1>7, <1>8, <1>11, StepOfRollBack

\* The old contents are back, and now the journal says so.
LEMMA NotePutBackKeeps ==
    ASSUME DirectoryInv, NEW c \in Components, NotePutBack(c)
    PROVE  DirectoryInv'
<1>1. /\ Doing("note put back", c) /\ "note put back" \in UndoWords
      /\ UNCHANGED <<live, aside, Calm>> /\ todo' = Tail(todo) /\ refused' = refused
      /\ journal' = [journal EXCEPT !.moved = journal.moved \ {c}]
  BY DEF NotePutBack, UndoWords, Done
<1>2. /\ journal.phase = "prepared" /\ Typed /\ LakeFits /\ ComponentFits(c)
      /\ journal.moved \in SUBSET Components /\ journal.placed \in SUBSET Components
      /\ RolledBackTo(PositionOf("note put back", c), c)
  BY <1>1, InUndo
<1>3. NewIsGone(c) /\ c \notin journal.placed /\ OldIsBack(c)
  BY <1>2, TurnsOfRollBack DEF Turns
<1>4. PICK moved \in SUBSET Components : moved = journal.moved \ {c}
  BY <1>2
<1>5. /\ UNCHANGED <<live, aside, backup, serving, staged, manifest, torn>> /\ refused' \in BOOLEAN
      /\ Noted("prepared", moved, journal.placed)
      /\ \A d \in Components \ {c} : d \in moved <=> d \in journal.moved
  BY <1>1, <1>2, <1>4, NotesAre DEF Calm, Typed
<1>6. /\ Typed' /\ LakeFits' /\ journal'.phase = "prepared"
      /\ journal'.original = journal.original /\ journal'.installed = journal.installed
      /\ journal'.moved = moved /\ journal'.placed = journal.placed
      /\ \A d \in Components \ {c} : Same(d)
      /\ Untouched(c)' = Untouched(c) /\ Moved(c)' = Moved(c) /\ Placed(c)' = Placed(c)
      /\ Undone(c)' = Undone(c) /\ Restored(c)' = Restored(c)
      /\ Had(c)' = Had(c) /\ Installed(c)' = Installed(c) /\ Original(c)' = Original(c)
      /\ SetAside(c)' = SetAside(c) /\ Discarded(c)' = Discarded(c) /\ LiveOf(c)' = LiveOf(c)
  BY <1>2, <1>5, OneNote
<1>7. ~Mistaken(c) /\ ~Mistaken(c)' /\ c \notin journal'.placed
  BY <1>3, <1>6 DEF Mistaken
<1>8. ComponentFits(c)'
  BY <1>2, <1>3, <1>4, <1>6, <1>7 DEF ComponentFits, OldIsBack
<1>9. AsideIsNoted(c)' /\ NewIsNoted(c)' /\ NewIsGone(c)' /\ OldIsBack(c)'
  BY <1>3, <1>6, <1>7 DEF AsideIsNoted, NewIsNoted, NewIsGone, OldIsBack
<1>10. Turns'
  BY TurnsOfRollBack, PTL
<1>11. RolledBackTo(PositionOf("note put back", c) + 1, c)'
  BY <1>7, <1>9, <1>10 DEF Turns
<1> QED
  BY <1>1, <1>6, <1>7, <1>8, <1>11, StepOfRollBack

\* A turn that changes nothing but the plan, or refuses.
LEMMA IdleTurn ==
    ASSUME DirectoryInv, NEW c \in Components, NEW word \in UndoWords, Doing(word, c),
           UNCHANGED <<live, aside, journal, Calm>>,
           \/ /\ todo' = Tail(todo) /\ refused' = refused
              /\ AsideIsNoted(c) /\ NewIsNoted(c) /\ NewIsGone(c)
              /\ word = "put back" => c \notin journal.placed /\ OldIsBack(c)
              /\ word \in {"discard", "put back"}
           \/ todo' = <<>> /\ refused' = TRUE /\ Mistaken(c)
    PROVE  DirectoryInv'
<1>1. /\ journal.phase = "prepared" /\ Typed /\ LakeFits /\ ComponentFits(c)
  BY InUndo
<1>2. Typed' /\ LakeFits'
  <2>1. refused' \in BOOLEAN
    BY <1>1 DEF Typed
  <2>2. Typed'
    BY <1>1, <2>1 DEF Typed, LakeTypeOK, live, lakeVars, backup, Calm
  <2>3. UNCHANGED <<live, serving, archive>> /\ journal' = journal
    BY DEF Calm, backup
  <2>4. LakeFits'
    BY <1>1, <2>3, LakeUntouched
  <2> QED
    BY <2>2, <2>4
<1>3. \A d \in Components : Same(d)
  <2>1. \A d \in Components : LiveOf(d)' = LiveOf(d)
    BY LiveKept
  <2> QED
    BY <2>1 DEF Same, Original, Installed, SetAside, ToPlace, Discarded
<1>4. ComponentFits(c)' /\ Mistaken(c)' = Mistaken(c)
  BY <1>1, <1>3, SameComponent
<1>5. ASSUME todo' = Tail(todo), AsideIsNoted(c), NewIsNoted(c), NewIsGone(c),
             word = "put back" => c \notin journal.placed /\ OldIsBack(c),
             word \in {"discard", "put back"}
      PROVE  RolledBackTo(PositionOf(word, c) + 1, c)'
  <2>1. /\ LiveOf(c)' = LiveOf(c) /\ Original(c)' = Original(c) /\ Installed(c)' = Installed(c)
        /\ SetAside(c)' = SetAside(c) /\ Placed(c)' = Placed(c)
    BY <1>3, SameComponent DEF Same
  <2>2. /\ AsideIsNoted(c)' /\ NewIsNoted(c)' /\ NewIsGone(c)'
        /\ word = "put back" => c \notin journal'.placed /\ OldIsBack(c)'
    BY <1>4, <1>5, <2>1 DEF AsideIsNoted, NewIsNoted, NewIsGone, OldIsBack
  <2>3. Turns'
    BY TurnsOfRollBack, PTL
  <2>4. CASE word = "discard"
    BY <2>2, <2>3, <2>4 DEF Turns
  <2>5. CASE word = "put back"
    BY <2>2, <2>3, <2>5 DEF Turns
  <2> QED
    BY <1>5, <2>4, <2>5
<1> QED
  BY <1>1, <1>2, <1>3, <1>4, <1>5, StepOfRollBack

\* The new contents are put aside, if they are noted as placed.
LEMMA DiscardKeeps ==
    ASSUME DirectoryInv, NEW c \in Components, Discard(c)
    PROVE  DirectoryInv'
<1>1. /\ Doing("discard", c) /\ "discard" \in UndoWords
      /\ journal' = journal /\ UNCHANGED Calm
  BY DEF Discard, UndoWords
<1>2. /\ journal.phase = "prepared" /\ Typed /\ LakeFits /\ ComponentFits(c) /\ ~serving
      /\ journal # NoJournal
      /\ RolledBackTo(PositionOf("discard", c), c)
  BY <1>1, InUndo
<1>3. AsideIsNoted(c) /\ NewIsNoted(c)
  BY <1>2, TurnsOfRollBack DEF Turns
<1>4. CASE c \notin journal.placed \/ (LiveOf(c) = {} /\ Discarded(c) # {})
  <2>1. todo' = Tail(todo) /\ UNCHANGED <<live, aside, refused>>
    BY <1>4 DEF Discard, Done, Discarded
  <2>2. NewIsGone(c)
    BY <1>3, <1>4, HadIs DEF NewIsGone, NewIsNoted, Mistaken, Restored, Placed
  <2>3. UNCHANGED <<live, aside, journal, Calm>>
    BY <1>1, <2>1
  <2> QED
    BY <1>1, <1>3, <2>1, <2>2, <2>3, IdleTurn
<1>5. CASE /\ c \in journal.placed /\ ~(LiveOf(c) = {} /\ Discarded(c) # {})
           /\ LiveOf(c) # {} /\ LiveOf(c) = Installed(c) /\ Discarded(c) = {}
  <2>1. MoveAside(c, "discarded") /\ todo' = Tail(todo) /\ refused' = refused
    BY <1>5 DEF Discard, Done, Discarded, Installed
  <2>2. Placed(c) /\ ~Mistaken(c)
    BY <1>2, <1>5 DEF ComponentFits, Undone, Mistaken, Restored
  <2>3. "discarded" \in Asides /\ "new" \in Asides /\ "rollback" \in Asides
    BY DEF Asides
  <2>4. Typed' /\ LakeFits'
    <3>1. UNCHANGED <<Rest, journal>>
      BY <1>1, <2>1 DEF Calm, Rest
    <3> QED
      BY <1>2, <2>1, <2>3, <3>1, RenameIsSound
  <2>5. /\ LiveOf(c)' = {} /\ aside'["discarded"][c] = LiveOf(c)
        /\ aside'["new"][c] = aside["new"][c] /\ aside'["rollback"][c] = aside["rollback"][c]
        /\ \A d \in Components \ {c} : LiveOf(d)' = LiveOf(d) /\ \A q \in Asides : aside'[q][d] = aside[q][d]
    <3>1. /\ aside'["discarded"][c] = LiveOf(c) /\ LiveOf(c)' = {}
          /\ \A q \in Asides, d \in Components :
               q # "discarded" \/ d # c => aside'[q][d] = aside[q][d]
          /\ \A d \in Components \ {c} : LiveOf(d)' = LiveOf(d)
      BY <1>2, <2>1, <2>3, PutAside
    <3> QED
      BY <2>3, <3>1
  <2>6. \A d \in Components \ {c} : Same(d)
    BY <1>1, <2>3, <2>5 DEF Same, Original, Installed, SetAside, ToPlace, Discarded
  <2>7. Undone(c)' /\ ~Placed(c)' /\ ~Mistaken(c)' /\ Installed(c)' # {} /\ Had(c)' = Had(c)
    <3>1. /\ Original(c)' = Original(c) /\ Installed(c)' = Installed(c)
          /\ SetAside(c)' = SetAside(c) /\ ToPlace(c)' = ToPlace(c)
          /\ Discarded(c)' = Installed(c) /\ LiveOf(c)' = {} /\ Had(c)' = Had(c)
      BY <1>1, <1>5, <2>5 DEF Original, Installed, SetAside, ToPlace, Discarded, Had
    <3>2. Undone(c)' /\ ~Placed(c)' /\ Installed(c)' # {}
      BY <1>5, <2>2, <3>1 DEF Undone, Placed
    <3>3. ~Mistaken(c)'
      BY <3>1, HadIs DEF Mistaken, Restored
    <3> QED
      BY <3>1, <3>2, <3>3
  <2>8. AsideIsNoted(c)' /\ NewIsNoted(c)' /\ NewIsGone(c)'
    BY <1>1, <1>3, <2>5, <2>7 DEF AsideIsNoted, NewIsNoted, NewIsGone, SetAside
  <2>9. ComponentFits(c)'
    BY <1>1, <1>2, <2>7, <2>8 DEF ComponentFits, AsideIsNoted
  <2>10. Turns'
    BY TurnsOfRollBack, PTL
  <2>11. RolledBackTo(PositionOf("discard", c) + 1, c)'
    BY <2>8, <2>10 DEF Turns
  <2> QED
    BY <1>1, <1>2, <2>1, <2>2, <2>4, <2>6, <2>9, <2>11, StepOfRollBack
<1>6. CASE /\ c \in journal.placed /\ ~(LiveOf(c) = {} /\ Discarded(c) # {})
           /\ ~(LiveOf(c) # {} /\ LiveOf(c) = Installed(c) /\ Discarded(c) = {})
  <2>1. todo' = <<>> /\ refused' = TRUE /\ UNCHANGED <<live, aside>>
    BY <1>6 DEF Discard, Refuse, Discarded, Installed
  <2>2. Mistaken(c)
    BY <1>2, <1>6 DEF ComponentFits, Placed, Undone
  <2>3. UNCHANGED <<live, aside, journal, Calm>>
    BY <1>1, <2>1
  <2> QED
    BY <1>1, <2>1, <2>2, <2>3, IdleTurn
<1> QED
  BY <1>4, <1>5, <1>6

\* The old contents return, if they are noted as moved.
LEMMA PutOldBackKeeps ==
    ASSUME DirectoryInv, NEW c \in Components, PutOldBack(c)
    PROVE  DirectoryInv'
<1>1. /\ Doing("put back", c) /\ "put back" \in UndoWords
      /\ journal' = journal /\ UNCHANGED Calm
  BY DEF PutOldBack, UndoWords
<1>2. /\ journal.phase = "prepared" /\ Typed /\ LakeFits /\ ComponentFits(c) /\ ~serving
      /\ journal # NoJournal
      /\ RolledBackTo(PositionOf("put back", c), c)
  BY <1>1, InUndo
<1>3. AsideIsNoted(c) /\ NewIsGone(c) /\ c \notin journal.placed /\ NewIsNoted(c)
  BY <1>2, TurnsOfRollBack DEF Turns, NewIsGone, NewIsNoted
<1>4. CASE c \notin journal.moved \/ (SetAside(c) = {} /\ LiveOf(c) = Original(c))
  <2>1. todo' = Tail(todo) /\ UNCHANGED <<live, aside, refused>>
    BY <1>4 DEF PutOldBack, Done, SetAside, Original
  <2>2. OldIsBack(c)
    <3>1. CASE SetAside(c) = {} /\ LiveOf(c) = Original(c)
      BY <3>1 DEF OldIsBack
    <3>2. CASE c \notin journal.moved
      <4>1. SetAside(c) = {} /\ (Placed(c) => Installed(c) = {})
        BY <1>3, <3>2 DEF AsideIsNoted, NewIsGone
      <4> QED
        BY <1>2, <4>1 DEF ComponentFits, Untouched, Moved, Placed, Undone, Restored, OldIsBack
    <3> QED
      BY <1>4, <3>1, <3>2
  <2>3. UNCHANGED <<live, aside, journal, Calm>>
    BY <1>1, <2>1
  <2> QED
    BY <1>1, <1>3, <2>1, <2>2, <2>3, IdleTurn
<1>5. CASE c \in journal.moved /\ ~(SetAside(c) = {} /\ LiveOf(c) = Original(c))
  <2>1. /\ SetAside(c) = Original(c) /\ LiveOf(c) = {} /\ Had(c)
        /\ Moved(c) \/ Undone(c)
    BY <1>2, <1>3, <1>5
    DEF ComponentFits, Untouched, Moved, Placed, Undone, Restored, NewIsGone
  <2>2. PutBack(c, "rollback") /\ todo' = Tail(todo) /\ refused' = refused
    BY <1>5, <2>1 DEF PutOldBack, Done, SetAside, Original
  <2>3. "discarded" \in Asides /\ "new" \in Asides /\ "rollback" \in Asides
    BY DEF Asides
  <2>4. Typed' /\ LakeFits'
    <3>1. UNCHANGED <<Rest, journal>>
      BY <1>1, <2>2 DEF Calm, Rest
    <3>2. \A lake \in aside["rollback"]["market"] : \A f \in lake.target : lake.temp[f] # "own"
      BY <1>2, <2>3, AsideIsUsable
    <3> QED
      BY <1>2, <2>2, <2>3, <3>1, <3>2, RenameIsSound
  <2>5. /\ LiveOf(c)' = aside["rollback"][c] /\ aside'["rollback"][c] = {}
        /\ aside'["new"][c] = aside["new"][c] /\ aside'["discarded"][c] = aside["discarded"][c]
        /\ \A d \in Components \ {c} : LiveOf(d)' = LiveOf(d) /\ \A q \in Asides : aside'[q][d] = aside[q][d]
    <3>1. /\ LiveOf(c)' = aside["rollback"][c] /\ aside'["rollback"][c] = {}
          /\ \A q \in Asides, d \in Components :
               q # "rollback" \/ d # c => aside'[q][d] = aside[q][d]
          /\ \A d \in Components \ {c} : LiveOf(d)' = LiveOf(d)
      BY <1>2, <2>2, <2>3, TakenBack
    <3> QED
      BY <2>3, <3>1
  <2>6. \A d \in Components \ {c} : Same(d)
    BY <1>1, <2>3, <2>5 DEF Same, Original, Installed, SetAside, ToPlace, Discarded
  <2>7. /\ Original(c)' = Original(c) /\ Installed(c)' = Installed(c) /\ LiveOf(c)' = Original(c)
        /\ SetAside(c)' = {} /\ ToPlace(c)' = ToPlace(c) /\ Discarded(c)' = Discarded(c)
        /\ Had(c)' = Had(c)
    BY <1>1, <2>1, <2>5 DEF Original, Installed, SetAside, ToPlace, Discarded, Had
  <2>8. (Untouched(c) \/ Restored(c))' /\ ~Placed(c)'
    BY <2>1, <2>7, HadIs DEF Untouched, Moved, Undone, Restored, Placed
  <2>9. c \notin journal'.placed /\ ~Mistaken(c)' /\ ~Mistaken(c)
    BY <1>1, <1>3 DEF Mistaken
  <2>10. AsideIsNoted(c)' /\ NewIsNoted(c)' /\ NewIsGone(c)' /\ OldIsBack(c)'
    BY <2>7, <2>8, <2>9 DEF AsideIsNoted, NewIsNoted, NewIsGone, OldIsBack
  <2>11. ComponentFits(c)'
    BY <1>1, <1>2, <2>7, <2>8, <2>9 DEF ComponentFits
  <2>12. Turns'
    BY TurnsOfRollBack, PTL
  <2>13. RolledBackTo(PositionOf("put back", c) + 1, c)'
    BY <2>9, <2>10, <2>12 DEF Turns
  <2> QED
    BY <1>1, <1>2, <2>2, <2>4, <2>6, <2>9, <2>11, <2>13, StepOfRollBack
<1> QED
  BY <1>4, <1>5

\* A roll-back is over: both components are the old ones, and the journal says so.
LEMMA RolledBackKeeps ==
    ASSUME DirectoryInv, RolledBack
    PROVE  /\ DirectoryInv'
           /\ journal.phase = "prepared" /\ ~serving /\ ~serving' /\ journal'.phase = "rolled_back"
           /\ journal'.original = journal.original /\ journal'.installed = journal.installed
<1>1. /\ Doing("rolled back", "both") /\ journal' = [journal EXCEPT !.phase = "rolled_back"]
      /\ todo' = Tail(todo) /\ UNCHANGED <<live, aside, refused, Calm>>
  BY DEF RolledBack, Done
<1>2. journal.phase = "prepared" /\ ~serving /\ RollingBack /\ journal # NoJournal
  <2>1. PICK word : word = "rolled back"
    OBVIOUS
  <2>2. word \notin Words /\ word # "clean"
    BY <2>1 DEF Words
  <2>3. /\ journal # NoJournal /\ ~serving
        /\ \/ journal.phase = "prepared" /\ word \in Words \ {"clean"} /\ Restoring
           \/ journal.phase = "prepared" /\ word \in UndoWords \cup {"rolled back"} /\ RollingBack
           \/ journal.phase \in Final /\ word = "clean" /\ Tail(todo) = <<>> /\ ~refused
    BY <1>1, <2>1, WhatIsDoing
  <2> QED
    BY <2>2, <2>3
<1>3. Tail(todo) = Cleaning /\ \A d \in Components : RolledBackTo(13, d)
  <2>1. PositionOf("rolled back", "both") = 13
    BY DEF PositionOf
  <2>2. /\ Tail(todo) = SubSeq(RollBackSteps, 13 + 1, 14)
        /\ \A d \in Components : RolledBackTo(13, d)
    BY <1>1, <1>2, <2>1, InTheRollBack, Zenon
  <2>3. 13 + 1 = 14
    OBVIOUS
  <2> QED
    BY <2>2, <2>3, EndsOfRollBackSteps, Zenon
<1>4. \A d \in Components : ~Mistaken(d) /\ LiveOf(d) = Original(d)
  <2> SUFFICES ASSUME NEW d \in Components
               PROVE  ~Mistaken(d) /\ LiveOf(d) = Original(d)
    OBVIOUS
  <2>1. RolledBackTo(13, d) /\ Undoing(d) \in 5..9
    BY <1>3, Positions
  <2> QED
    BY <2>1 DEF RolledBackTo, NewIsGone, OldIsBack
<1>5. ~refused
  BY <1>2, <1>4 DEF DirectoryInv, JournalFits
<1>6. /\ Typed /\ LakeFits /\ torn = {}
      /\ Usable(journal.original) /\ Usable(journal.installed)
  BY <1>2 DEF DirectoryInv, JournalFits
<1>7. Noted("rolled_back", journal.moved, journal.placed)
      /\ journal.moved \in SUBSET Components /\ journal.placed \in SUBSET Components
  BY <1>1, <1>6, NotesAre DEF Typed
<1>8. UNCHANGED <<live, backup, stage, serving>> /\ refused' = refused
  BY <1>1 DEF Calm, stage
<1>9. /\ Typed' /\ journal'.phase = "rolled_back" /\ journal'.original = journal.original
      /\ journal'.installed = journal.installed
  BY <1>6, <1>7, <1>8, NotedIsTyped DEF Typed, Final
<1>10. journal' # NoJournal /\ journal'.phase \in Final
  BY <1>9, PhaseOfNoJournal DEF Final
<1>11. LakeFits'
  BY <1>6, <1>8, <1>10, LakeUntouched DEF backup
<1>12. Live' = journal'.original
  <2>1. Live = journal.original
    BY <1>4, <1>6, LiveIs DEF Original, Typed
  <2> QED
    BY <1>8, <1>9, <2>1, LiveKept
<1>13. JournalFits'
  <2>1. ~serving' /\ ~refused' /\ torn' = {}
    BY <1>2, <1>5, <1>6, <1>8 DEF stage
  <2>2. todo' = Cleaning
    BY <1>1, <1>3
  <2>3. Usable(journal'.original) /\ Usable(journal'.installed)
    BY <1>6, <1>9
  <2> QED
    BY <1>9, <1>10, <1>12, <2>1, <2>2, <2>3 DEF JournalFits
<1> QED
  BY <1>2, <1>8, <1>9, <1>11, <1>13 DEF DirectoryInv

--------------------------------------------------------------------------------
(* The journal of a restore.                                               *)

\* Two steps in front of a plan.
LEMMA TwoThen ==
    ASSUME NEW word \in Words, NEW word2 \in Words, NEW c \in {"database", "market", "both"},
           NEW rest \in Seq(Step)
    PROVE  /\ <<Item(word, c), Item(word2, c)>> \in Seq(Step)
           /\ <<Item(word, c), Item(word2, c)>> \o rest = Then(word, c, Then(word2, c, rest))
<1>1. PICK x \in Step, y \in Step : x = Item(word, c) /\ y = Item(word2, c)
  BY DEF Item, Step, Words
<1>2. /\ <<x>> \in Seq(Step) /\ <<y>> \in Seq(Step) /\ <<x, y>> \in Seq(Step)
      /\ <<x, y>> = <<x>> \o <<y>>
  BY ShortSequences
<1>3. (<<x>> \o <<y>>) \o rest = <<x>> \o (<<y>> \o rest)
  BY <1>2, ConcatAssociative
<1> QED
  BY <1>1, <1>2, <1>3, Zenon DEF Then

RestoreThen(c, had, new, rest) ==
    LET placing == IF new = {} THEN rest ELSE Then("place", c, Then("note place", c, rest))
    IN  IF had = {} THEN placing ELSE Then("move", c, Then("note move", c, placing))

\* The steps of one component in front of a plan.
LEMMA RestoreStepsAre ==
    ASSUME NEW c \in Components, NEW had, NEW new, NEW rest \in Seq(Step)
    PROVE  /\ RestoreSteps(c, had, new) \in Seq(Step)
           /\ RestoreSteps(c, had, new) \o rest = RestoreThen(c, had, new, rest)
<1> DEFINE moving == IF had = {} THEN <<>> ELSE <<<<"move", c>>, <<"note move", c>>>>
           placing == IF new = {} THEN <<>> ELSE <<<<"place", c>>, <<"note place", c>>>>
<1>1. RestoreSteps(c, had, new) = moving \o placing
  BY DEF RestoreSteps
<1>2. c \in {"database", "market", "both"}
  BY DEF Components
<1>3. \A s \in Seq(Step) :
        /\ <<Item("move", c), Item("note move", c)>> \in Seq(Step)
        /\ <<Item("place", c), Item("note place", c)>> \in Seq(Step)
        /\ <<Item("move", c), Item("note move", c)>> \o s = Then("move", c, Then("note move", c, s))
        /\ <<Item("place", c), Item("note place", c)>> \o s = Then("place", c, Then("note place", c, s))
  <2>1. "move" \in Words /\ "note move" \in Words /\ "place" \in Words /\ "note place" \in Words
    BY DEF Words
  <2>2. \A w \in Words, w2 \in Words, s \in Seq(Step) :
          /\ <<Item(w, c), Item(w2, c)>> \in Seq(Step)
          /\ <<Item(w, c), Item(w2, c)>> \o s = Then(w, c, Then(w2, c, s))
    BY <1>2, TwoThen
  <2> TAKE s \in Seq(Step)
  <2>3. /\ <<Item("move", c), Item("note move", c)>> \in Seq(Step)
        /\ <<Item("move", c), Item("note move", c)>> \o s = Then("move", c, Then("note move", c, s))
    BY <2>1, <2>2
  <2>4. /\ <<Item("place", c), Item("note place", c)>> \in Seq(Step)
        /\ <<Item("place", c), Item("note place", c)>> \o s = Then("place", c, Then("note place", c, s))
    BY <2>1, <2>2
  <2> QED
    BY <2>3, <2>4
<1>4. moving \in Seq(Step) /\ placing \in Seq(Step)
  <2>1. <<>> \in Seq(Step)
    OBVIOUS
  <2>2. had # {} => moving = <<Item("move", c), Item("note move", c)>>
    BY DEF Item
  <2>3. new # {} => placing = <<Item("place", c), Item("note place", c)>>
    BY DEF Item
  <2>4. (had = {} => moving = <<>>) /\ (new = {} => placing = <<>>)
    OBVIOUS
  <2> HIDE DEF moving, placing
  <2> QED
    BY <1>3, <2>1, <2>2, <2>3, <2>4
<1>5. /\ had # {} => \A s \in Seq(Step) : moving \o s = Then("move", c, Then("note move", c, s))
      /\ new # {} => \A s \in Seq(Step) : placing \o s = Then("place", c, Then("note place", c, s))
  BY <1>3 DEF Item
<1>6. /\ had = {} => \A s \in Seq(Step) : moving \o s = s
      /\ new = {} => \A s \in Seq(Step) : placing \o s = s
  BY ConcatEmptySeq
<1> HIDE DEF moving, placing
<1>7. /\ moving \o placing \in Seq(Step) /\ placing \o rest \in Seq(Step)
      /\ (moving \o placing) \o rest = moving \o (placing \o rest)
  BY <1>4, ConcatProperties, ConcatAssociative
<1> QED
  BY <1>1, <1>4, <1>5, <1>6, <1>7 DEF RestoreThen

WholePlan ==
    RestoreSteps("database", Original("database"), Installed("database"))
    \o RestoreSteps("market", Original("market"), Installed("market"))
    \o <<<<"commit", "both">>, <<"clean", "both">>>>

PlanStarts == WholePlan = MoveThen("database", PlaceThen("database", After("database")))

LEMMA PlanOfRestore == PlanStarts
<1>1. <<<<"commit", "both">>, <<"clean", "both">>>> = Committing
  <2>1. PICK w \in Words, w2 \in Words, both \in {"database", "market", "both"}, none \in Seq(Step) :
          w = "commit" /\ w2 = "clean" /\ both = "both" /\ none = <<>>
    <3>1. "commit" \in Words /\ "clean" \in Words /\ <<>> \in Seq(Step)
      BY DEF Words
    <3> QED
      BY <3>1
  <2>2. /\ <<Item(w, both), Item(w2, both)>> \in Seq(Step)
        /\ <<Item(w, both), Item(w2, both)>> \o none = Then(w, both, Then(w2, both, none))
    BY TwoThen
  <2>3. <<Item(w, both), Item(w2, both)>> = Then(w, both, Then(w2, both, <<>>))
    BY <2>1, <2>2, ConcatEmptySeq
  <2>4. Then(w, both, Then(w2, both, <<>>)) = Committing
    BY <2>1 DEF Committing, Cleaning
  <2> QED
    BY <2>1, <2>3, <2>4 DEF Item
<1> DEFINE first == RestoreSteps("database", Original("database"), Installed("database"))
           second == RestoreSteps("market", Original("market"), Installed("market"))
<1>2. /\ first \in Seq(Step) /\ second \in Seq(Step) /\ Committing \in Seq(Step)
      /\ "database" \in Components /\ "market" \in Components
  BY RestoreStepsAre, PlansAreSequences, ComponentsAre
<1>3. ASSUME NEW c \in Components, NEW rest \in Seq(Step)
      PROVE  RestoreSteps(c, Original(c), Installed(c)) \o rest = MoveThen(c, PlaceThen(c, rest))
  <2>1. \A had, new : RestoreSteps(c, had, new) \o rest = RestoreThen(c, had, new, rest)
    BY RestoreStepsAre
  <2>2. RestoreThen(c, Original(c), Installed(c), rest) = MoveThen(c, PlaceThen(c, rest))
    BY HadIs DEF RestoreThen, MoveThen, PlaceThen
  <2> QED
    BY <2>1, <2>2
<1> HIDE DEF first, second
<1>4. second \o Committing \in Seq(Step)
      /\ (first \o second) \o Committing = first \o (second \o Committing)
  BY <1>2, ConcatProperties, ConcatAssociative
<1>5. second \o Committing = After("database")
  BY <1>2, <1>3 DEF second, After
<1>6. first \o (second \o Committing) = MoveThen("database", PlaceThen("database", After("database")))
  BY <1>2, <1>3, <1>4, <1>5 DEF first
<1> QED
  BY <1>1, <1>4, <1>6 DEF PlanStarts, WholePlan, first, second

\* When the journal is written both components are untouched.
LEMMA WriteJournalKeeps ==
    ASSUME DirectoryInv, StartFits, WriteJournal
    PROVE  /\ DirectoryInv' /\ journal = NoJournal /\ journal'.phase = "prepared"
           /\ journal'.original = Live /\ UNCHANGED <<live, serving>>
<1>1. PICK a \in bundle :
         /\ aside' = [aside EXCEPT !["new"] = a]
         /\ journal' = [NoJournal EXCEPT !.phase = "prepared",
                                         !.original = Live, !.installed = a]
         /\ todo' = RestoreSteps("database", Live["database"], a["database"])
                    \o RestoreSteps("market", Live["market"], a["market"])
                    \o <<<<"commit", "both">>, <<"clean", "both">>>>
  BY DEF WriteJournal
<1>2. /\ ~serving /\ journal = NoJournal /\ staged' = TRUE /\ manifest' = TRUE
      /\ UNCHANGED <<live, serving, backup, torn, refused>>
  BY DEF WriteJournal, StartFits
<1>3. /\ Typed /\ LakeFits /\ IsPair(a) /\ Usable(a) /\ IsPair(Live) /\ Usable(Live)
      /\ Empty /\ ~refused /\ torn = {}
      /\ \A c \in Components : Live[c] = LiveOf(c)
  <2>1. Typed /\ LakeFits /\ IsPair(a) /\ Usable(a) /\ Usable(Live) /\ Empty /\ ~refused
    BY <1>1, <1>2 DEF DirectoryInv, StartFits, LakeFits, JournalFits
  <2>2. torn = {}
    <3>1. \A p \in torn : p \in Asides /\ aside[p]["market"] # {}
      BY <2>1 DEF DirectoryInv, JournalFits, Typed
    <3>2. \A p \in Asides : aside[p]["market"] = {}
      BY <2>1, AbsentIsAPair, ComponentsAre DEF Empty
    <3> QED
      BY <3>1, <3>2
  <2> QED
    BY <2>1, <2>2, LiveIsTyped
<1>4. /\ journal'.phase = "prepared" /\ journal'.original = Live /\ journal'.installed = a
      /\ journal'.moved = {} /\ journal'.placed = {}
      /\ journal' = [phase |-> journal'.phase, original |-> journal'.original,
                     installed |-> journal'.installed, moved |-> journal'.moved,
                     placed |-> journal'.placed]
  BY <1>1 DEF NoJournal
<1>5. /\ DOMAIN aside' = Asides /\ aside' = [q \in Asides |-> aside'[q]]
      /\ \A q \in Asides : IsPair(aside'[q])
      /\ aside'["new"] = a /\ aside'["rollback"] = Absent /\ aside'["discarded"] = Absent
  <2>1. /\ DOMAIN aside = Asides /\ aside = [q \in Asides |-> aside[q]]
        /\ \A q \in Asides : aside[q] = Absent /\ IsPair(aside[q])
        /\ "new" \in Asides /\ "rollback" \in Asides /\ "discarded" \in Asides
    BY <1>3 DEF Typed, Empty, Asides
  <2>2. \A q \in Asides : aside'[q] = IF q = "new" THEN a ELSE aside[q]
    BY <1>1, <2>1
  <2>3. DOMAIN aside' = Asides /\ aside' = [q \in Asides |-> aside'[q]]
    BY <1>1, <2>1
  <2> QED
    BY <1>3, <2>1, <2>2, <2>3
<1>6. Typed'
  <2>1. LakeTypeOK'
    BY <1>2, <1>3 DEF Typed, LakeTypeOK, live, lakeVars
  <2> QED
    BY <1>2, <1>3, <1>4, <1>5, <2>1 DEF Typed, live, backup
<1>7. LakeFits'
  <2>1. journal' # NoJournal
    BY <1>4, PhaseOfNoJournal
  <2> QED
    BY <1>2, <1>3, <2>1, LakeUntouched DEF backup
<1>8. ASSUME NEW c \in Components
      PROVE  Untouched(c)' /\ ComponentFits(c)' /\ Original(c)' = Live[c] /\ Installed(c)' = a[c]
  <2>1. Original(c)' = Live[c] /\ Installed(c)' = a[c] /\ LiveOf(c)' = Live[c]
    BY <1>2, <1>3, <1>4, LiveKept DEF Original, Installed
  <2>2. SetAside(c)' = {} /\ ToPlace(c)' = a[c] /\ Discarded(c)' = {}
    BY <1>5, AbsentIsAPair DEF SetAside, ToPlace, Discarded
  <2>3. Untouched(c)'
    BY <2>1, <2>2 DEF Untouched
  <2> QED
    BY <1>4, <2>1, <2>2, <2>3 DEF ComponentFits
<1>9. Restoring'
  <2>1. todo' = WholePlan'
    BY <1>1, <1>8, ComponentsAre DEF WholePlan
  <2>2. PlanStarts'
    BY PlanOfRestore, PTL
  <2>3. todo' = MoveThen("database", PlaceThen("database", After("database")))'
    BY <2>1, <2>2 DEF PlanStarts
  <2>4. Untouched("database")' /\ OtherFits("database")' /\ "database" \in Components
    BY <1>8, ComponentsAre DEF OtherFits
  <2>5. GoesOn'
    BY RestoreGoesOn, PTL
  <2> QED
    BY <2>3, <2>4, <2>5 DEF GoesOn
<1>10. JournalFits'
  <2>1. ~serving' /\ staged' /\ manifest' /\ torn' = {} /\ ~refused'
    BY <1>2, <1>3
  <2>2. Usable(journal'.original) /\ Usable(journal'.installed)
    BY <1>3, <1>4
  <2>3. \A c \in Components : ComponentFits(c)'
    BY <1>8
  <2> QED
    BY <1>4, <1>9, <2>1, <2>2, <2>3, PreparedFits
<1> QED
  BY <1>2, <1>4, <1>6, <1>7, <1>10 DEF DirectoryInv

--------------------------------------------------------------------------------
(* The writers of the lake.                                                *)

Readables == \A d \in catalogue, y \in Years : <<d, y>> \in target /\ temp[<<d, y>>] = "none"

WriterFits ==
    /\ ~At("idle") /\ writer.dataset \in catalogue => writer.created = {}
    /\ writer.at \in {"create", "link"} => File \notin target

Busy(w) == w \in [dataset : Datasets, year : Years, at : Steps, created : SUBSET Years]

\* A writer at work has a file.
LEMMA WriterIs ==
    ASSUME LakeTypeOK
    PROVE  /\ ~At("idle") => Busy(writer)
           /\ At("idle") => writer = NoWriter
           /\ Busy(writer) => File \in Files /\ ~At("idle") /\ writer \in Writers
<1>1. NoWriter.at = "idle" /\ \A w : Busy(w) => w.at # "idle" /\ w \in Writers
  BY DEF NoWriter, Busy, Steps, Writers
<1>2. Busy(writer) \/ writer = NoWriter
  BY DEF LakeTypeOK, Writers, Busy
<1>3. Busy(writer) => File \in Files
  BY DEF Busy, File, Files
<1> QED
  BY <1>1, <1>2, <1>3 DEF At

\* Where a writer goes next, and what it keeps.
LEMMA WriterGoes ==
    ASSUME LakeTypeOK, Busy(writer)
    PROVE  /\ \A step \in Steps : GoTo(step) =>
                /\ writer' \in Writers /\ writer'.at = step /\ writer'.dataset = writer.dataset
                /\ writer'.year = writer.year /\ writer'.created = writer.created
           /\ NextYear =>
                /\ writer' \in Writers /\ writer'.at \in {"recover", "commit"}
                /\ writer'.dataset = writer.dataset /\ writer'.created = writer.created
<1>1. \A step \in Steps : GoTo(step) =>
                /\ Busy(writer') /\ writer'.at = step /\ writer'.dataset = writer.dataset
                /\ writer'.year = writer.year /\ writer'.created = writer.created
  BY DEF Busy, GoTo
<1>2. writer.year # LastYear => writer.year + 1 \in Years
  BY YearsAssumption DEF Busy, Years
<1>3. NextYear =>
                /\ Busy(writer') /\ writer'.at \in {"recover", "commit"}
                /\ writer'.dataset = writer.dataset /\ writer'.created = writer.created
  BY <1>2 DEF Busy, NextYear, Steps
<1>4. \A w : Busy(w) => w \in Writers
  BY DEF Busy, Writers
<1> QED
  BY <1>1, <1>3, <1>4

\* A writer that has not got to its next file.
LEMMA WriterStillFits ==
    ASSUME WriterFits, ~At("idle"), catalogue' = catalogue,
           writer'.dataset = writer.dataset, writer'.created = writer.created,
           writer'.at \notin {"create", "link"}
    PROVE  WriterFits'
BY DEF WriterFits, At

\* A temporary file is written or removed.
LEMMA TempWritten ==
    ASSUME LakeTypeOK, Busy(writer), NEW kind \in {"none", "own", "alias"},
           temp' = [temp EXCEPT ![File] = kind]
    PROVE  /\ temp' \in [Files -> {"none", "own", "alias"}]
           /\ \A f \in Files : temp'[f] = IF f = File THEN kind ELSE temp[f]
<1>1. File \in Files /\ temp \in [Files -> {"none", "own", "alias"}]
  BY WriterIs DEF LakeTypeOK
<1> QED
  BY <1>1

LEMMA ListedFiles ==
    \A d \in Datasets, y \in Years : <<d, y>> \in Files
BY DEF Files

\* Writers keep what is catalogued readable and every file writable.
LEMMA LakeStepKeeps ==
    ASSUME LakeTypeOK, WriterFits, Readables, LeftoversAreRecoverable, LakeStep
    PROVE  LakeTypeOK' /\ WriterFits' /\ Readables' /\ LeftoversAreRecoverable'
<1>1. /\ catalogue \subseteq Datasets /\ target \subseteq Files
      /\ temp \in [Files -> {"none", "own", "alias"}] /\ writer \in Writers
  BY DEF LakeTypeOK
<1>2. ASSUME NEW d \in Datasets, BeginWrite(d)
      PROVE  LakeTypeOK' /\ WriterFits' /\ Readables' /\ LeftoversAreRecoverable'
  <2>1. /\ writer' = [dataset |-> d, year |-> 1, at |-> "recover",
                      created |-> {y \in Years : <<d, y>> \notin target}]
        /\ UNCHANGED <<catalogue, target, temp>>
    BY <1>2 DEF BeginWrite
  <2>2. 1 \in Years /\ "recover" \in Steps
    BY YearsAssumption DEF Years, Steps
  <2>3. Busy(writer')
    BY <2>1, <2>2 DEF Busy
  <2>4. d \in catalogue => writer'.created = {}
    BY <2>1 DEF Readables
  <2>5. writer' \in Writers
    BY <2>3 DEF Busy, Writers
  <2>6. WriterFits'
    BY <2>1, <2>4 DEF WriterFits
  <2> QED
    BY <1>1, <2>1, <2>5, <2>6 DEF LakeTypeOK, Readables, LeftoversAreRecoverable
<1>3. CASE RecoverPublish
  <2>1. Busy(writer) /\ File \in Files /\ ~At("idle") /\ UNCHANGED <<catalogue, target>>
        /\ "create" \in Steps
    BY <1>3, WriterIs DEF RecoverPublish, At, Steps
  <2>2. ~(File \in target /\ temp[File] = "own")
    BY <2>1 DEF LeftoversAreRecoverable
  <2>3. /\ temp' = [temp EXCEPT ![File] = "none"]
        /\ File \in target => NextYear
        /\ File \notin target => GoTo("create")
    BY <1>3, <2>2 DEF RecoverPublish
  <2>4. /\ writer' \in Writers /\ writer'.dataset = writer.dataset
        /\ writer'.created = writer.created
        /\ File \in target => writer'.at \in {"recover", "commit"}
        /\ File \notin target => writer'.year = writer.year
    BY <2>1, <2>3, WriterGoes
  <2>5. WriterFits'
    BY <2>1, <2>4 DEF WriterFits, File
  <2>6. /\ temp' \in [Files -> {"none", "own", "alias"}]
        /\ \A f \in Files : temp'[f] = IF f = File THEN "none" ELSE temp[f]
    BY <2>1, <2>3, TempWritten
  <2>7. Readables' /\ LeftoversAreRecoverable'
    BY <1>1, <2>1, <2>6, ListedFiles DEF Readables, LeftoversAreRecoverable
  <2> QED
    BY <1>1, <2>1, <2>4, <2>5, <2>6, <2>7 DEF LakeTypeOK
<1>4. CASE CreateTemp
  <2>1. Busy(writer) /\ File \in Files /\ ~At("idle") /\ UNCHANGED <<catalogue, target>>
        /\ temp' = [temp EXCEPT ![File] = "own"] /\ GoTo("link") /\ "link" \in Steps
        /\ File \notin target
    BY <1>4, WriterIs DEF CreateTemp, At, Steps, WriterFits
  <2>2. /\ writer' \in Writers /\ writer'.dataset = writer.dataset
        /\ writer'.created = writer.created /\ writer'.year = writer.year
    BY <2>1, WriterGoes
  <2>3. WriterFits'
    BY <2>1, <2>2 DEF WriterFits, File
  <2>4. /\ temp' \in [Files -> {"none", "own", "alias"}]
        /\ \A f \in Files : temp'[f] = IF f = File THEN "own" ELSE temp[f]
    BY <2>1, TempWritten
  <2>5. Readables' /\ LeftoversAreRecoverable'
    BY <1>1, <2>1, <2>4, ListedFiles DEF Readables, LeftoversAreRecoverable
  <2> QED
    BY <1>1, <2>1, <2>2, <2>3, <2>4, <2>5 DEF LakeTypeOK
<1>5. CASE LinkTarget
  <2>1. Busy(writer) /\ File \in Files /\ ~At("idle") /\ catalogue' = catalogue
        /\ "unlink" \in Steps /\ File \notin target
    BY <1>5, WriterIs DEF LinkTarget, At, Steps, WriterFits
  <2>2. target' = target \cup {File} /\ temp' = [temp EXCEPT ![File] = "alias"] /\ GoTo("unlink")
    BY <1>5, <2>1 DEF LinkTarget
  <2>3. /\ writer' \in Writers /\ writer'.dataset = writer.dataset
        /\ writer'.created = writer.created /\ writer'.at = "unlink"
    BY <2>1, <2>2, WriterGoes
  <2>4. WriterFits'
    BY <2>1, <2>3, WriterStillFits
  <2>5. /\ temp' \in [Files -> {"none", "own", "alias"}]
        /\ \A f \in Files : temp'[f] = IF f = File THEN "alias" ELSE temp[f]
    BY <2>1, <2>2, TempWritten
  <2>6. Readables' /\ LeftoversAreRecoverable'
    BY <1>1, <2>1, <2>2, <2>5, ListedFiles DEF Readables, LeftoversAreRecoverable
  <2>7. target' \subseteq Files
    BY <1>1, <2>1, <2>2
  <2> QED
    BY <1>1, <2>1, <2>3, <2>4, <2>5, <2>6, <2>7 DEF LakeTypeOK
<1>6. CASE UnlinkTemp \/ WriteFails
  <2>1. Busy(writer) /\ File \in Files /\ ~At("idle") /\ UNCHANGED <<catalogue, target>>
        /\ temp' = [temp EXCEPT ![File] = "none"] /\ (NextYear \/ GoTo("undo"))
        /\ "undo" \in Steps
    BY <1>6, WriterIs DEF UnlinkTemp, WriteFails, At, Steps
  <2>2. /\ writer' \in Writers /\ writer'.dataset = writer.dataset
        /\ writer'.created = writer.created /\ writer'.at \in {"recover", "commit", "undo"}
    BY <2>1, WriterGoes
  <2>3. WriterFits'
    BY <2>1, <2>2, WriterStillFits
  <2>4. /\ temp' \in [Files -> {"none", "own", "alias"}]
        /\ \A f \in Files : temp'[f] = IF f = File THEN "none" ELSE temp[f]
    BY <2>1, TempWritten
  <2>5. Readables' /\ LeftoversAreRecoverable'
    BY <1>1, <2>1, <2>4, ListedFiles DEF Readables, LeftoversAreRecoverable
  <2> QED
    BY <1>1, <2>1, <2>2, <2>3, <2>4, <2>5 DEF LakeTypeOK
<1>7. CASE CommitCatalog
  <2>1. Busy(writer) /\ Readable(writer.dataset) /\ writer' = NoWriter
        /\ catalogue' = catalogue \cup {writer.dataset} /\ UNCHANGED <<target, temp>>
    BY <1>7, WriterIs DEF CommitCatalog, At
  <2>2. writer' \in Writers /\ WriterFits'
    BY <2>1 DEF NoWriter, Writers, WriterFits, At
  <2>3. catalogue' \subseteq Datasets /\ Readables' /\ LeftoversAreRecoverable'
    BY <1>1, <2>1 DEF Busy, Readable, Readables, LeftoversAreRecoverable
  <2> QED
    BY <1>1, <2>1, <2>2, <2>3 DEF LakeTypeOK
<1>8. CASE Undo
  <2>1. Busy(writer) /\ ~At("idle") /\ UNCHANGED <<catalogue, temp>>
    BY <1>8, WriterIs DEF Undo, At
  <2>2. CASE ToUndo = {}
    <3>1. writer' = NoWriter /\ target' = target
      BY <1>8, <2>2 DEF Undo
    <3>2. writer' \in Writers /\ WriterFits'
      BY <3>1 DEF NoWriter, Writers, WriterFits, At
    <3> QED
      BY <1>1, <2>1, <3>1, <3>2 DEF LakeTypeOK, Readables, LeftoversAreRecoverable
  <2>3. CASE ToUndo # {}
    <3>1. PICK y \in ToUndo : target' = target \ {<<writer.dataset, y>>}
      BY <1>8, <2>3 DEF Undo
    <3>2. writer' = writer /\ writer.dataset \notin catalogue
      BY <1>8, <2>1, <2>3 DEF Undo, WriterFits, ToUndo
    <3>3. WriterFits'
      BY <2>1, <3>1, <3>2 DEF WriterFits, At, File
    <3>4. Readables'
      BY <2>1, <3>1, <3>2 DEF Readables
    <3>5. LeftoversAreRecoverable' /\ target' \subseteq Files
      BY <1>1, <2>1, <3>1 DEF LeftoversAreRecoverable
    <3> QED
      BY <1>1, <2>1, <3>2, <3>3, <3>4, <3>5 DEF LakeTypeOK
  <2> QED
    BY <2>2, <2>3
<1> QED
  BY <1>2, <1>3, <1>4, <1>5, <1>6, <1>7, <1>8 DEF LakeStep

--------------------------------------------------------------------------------
(* Services.                                                               *)

NothingUnseen ==
    /\ "database" \notin present => catalogue = {} /\ rows = 0
    /\ "market" \notin present => target = {} /\ temp = NoFiles

\* What makes the pair in place one that services can work with.
PairWorks ==
    Typed /\ NothingUnseen =>
        (Usable(Live) <=> /\ catalogue # {} => "market" \in present
                          /\ Readables /\ LeftoversAreRecoverable)

LEMMA PairInPlaceWorks == PairWorks
<1> SUFFICES ASSUME Typed, NothingUnseen
             PROVE  Usable(Live) <=> /\ catalogue # {} => "market" \in present
                                     /\ Readables /\ LeftoversAreRecoverable
  BY DEF PairWorks
<1>1. /\ Live["database"] = LiveOf("database") /\ Live["market"] = LiveOf("market")
      /\ catalogue \subseteq Datasets /\ target \subseteq Files
  BY LiveIsTyped, ComponentsAre DEF Typed, LakeTypeOK
<1>2. \A f : f \in ListedIn(catalogue) <=> \E d \in catalogue, y \in Years : f = <<d, y>>
  BY DEF ListedIn, Listed
<1>3. Readables <=> \A f \in ListedIn(catalogue) : f \in target /\ temp[f] = "none"
  BY <1>2 DEF Readables
<1>4. \A db \in Live["database"] : db.catalogue = catalogue
  BY <1>1 DEF LiveOf, Database
<1>6. \A lake \in Live["market"] : lake.target = target /\ lake.temp = temp
  BY <1>1 DEF LiveOf, Lake
<1>7. Live["market"] # {} <=> "market" \in present
  BY <1>1 DEF LiveOf, Lake
<1>8. LeftoversAreRecoverable <=> \A f \in target : temp[f] # "own"
  BY <1>1 DEF LeftoversAreRecoverable
<1>9. catalogue = {} => Readables
  BY DEF Readables
<1>10. "market" \notin present => LeftoversAreRecoverable
  BY <1>8 DEF NothingUnseen
<1>11. "database" \notin present => catalogue = {}
  BY DEF NothingUnseen
<1>12. Live["database"] = {} \/ \E db \in Live["database"] : db.catalogue = catalogue
  BY <1>1 DEF LiveOf, Database
<1>13. Live["database"] = {} => catalogue = {}
  <2>1. "database" \in present => Live["database"] # {}
    BY <1>1 DEF LiveOf, Database
  <2> QED
    BY <1>11, <2>1
<1>14. (\A db \in Live["database"] : db.catalogue # {} => Live["market"] # {})
         <=> (catalogue # {} => "market" \in present)
  BY <1>4, <1>7, <1>12, <1>13
<1>15. "market" \in present => (Readables /\ LeftoversAreRecoverable <=>
         \A lake \in Live["market"] :
           /\ \A f \in lake.target : lake.temp[f] # "own"
           /\ \A db \in Live["database"] : \A f \in ListedIn(db.catalogue) :
                f \in lake.target /\ lake.temp[f] = "none")
  <2>1. "market" \in present => \E lake \in Live["market"] : TRUE
    BY <1>7
  <2>2. (\A db \in Live["database"] : \A f \in ListedIn(db.catalogue) :
                f \in target /\ temp[f] = "none") <=> Readables
    BY <1>3, <1>4, <1>9, <1>12, <1>13
  <2> QED
    BY <1>6, <1>8, <2>1, <2>2
<1>16. "market" \notin present => Live["market"] = {} /\ LeftoversAreRecoverable
  BY <1>7, <1>10
<1> QED
  BY <1>9, <1>14, <1>15, <1>16 DEF Usable

\* Without a journal services find what they need.
LEMMA WorksInService ==
    ASSUME DirectoryInv, journal = NoJournal
    PROVE  /\ catalogue # {} => "market" \in present
           /\ Readables /\ LeftoversAreRecoverable /\ WriterFits
BY PairInPlaceWorks DEF DirectoryInv, LakeFits, PairWorks, NothingUnseen, WriterFits

\* What a step has to show when there is no journal.
LEMMA StepInService ==
    ASSUME DirectoryInv, journal = NoJournal,
           UNCHANGED <<backup, journal, stage, todo, refused>>,
           LakeTypeOK', rows' \in 0..MaxRows, present' \subseteq Components, serving' \in BOOLEAN,
           NothingUnseen', Readables', LeftoversAreRecoverable', WriterFits',
           catalogue' # {} => "market" \in present',
           writer' # NoWriter => serving' /\ present' = Components
    PROVE  DirectoryInv'
<1>1. Typed /\ LakeFits /\ JournalFits
  BY DEF DirectoryInv
<1>2. Typed'
  BY <1>1 DEF Typed, backup, stage
<1>3. LakeFits'
  <2>1. PairWorks'
    BY PairInPlaceWorks, PTL
  <2>2. Usable(Live)'
    BY <1>2, <2>1 DEF PairWorks
  <2>3. \A a \in archive' : Usable(a)
    BY <1>1 DEF LakeFits, backup
  <2> QED
    BY <2>2, <2>3 DEF LakeFits, NothingUnseen, WriterFits
<1>4. JournalFits'
  <2>1. journal' = NoJournal /\ journal'.phase = "none" /\ todo' = <<>> /\ ~staged' /\ ~manifest'
        /\ ~refused' /\ torn' = torn /\ aside' = aside /\ Empty'
    BY <1>1, PhaseOfNoJournal DEF JournalFits, stage, Empty
  <2> QED
    BY <1>1, <2>1 DEF JournalFits, Final
<1> QED
  BY <1>2, <1>3, <1>4 DEF DirectoryInv

\* Services keep the invariant.
LEMMA ServiceKeeps ==
    ASSUME DirectoryInv,
           \/ StartService \/ CreateDatabase \/ CreateLake
           \/ WriteRows \/ WriteLake \/ StopService
    PROVE  DirectoryInv' /\ journal = NoJournal /\ journal' = NoJournal /\ archive' = archive
<1>1. /\ journal = NoJournal /\ UNCHANGED <<backup, journal, stage, todo, refused>>
  BY DEF DirectoryInv, JournalFits, StartService, CreateDatabase, CreateLake, WriteRows, WriteLake,
     StopService, control
<1>2. /\ LakeTypeOK /\ rows \in 0..MaxRows /\ present \subseteq Components /\ NothingUnseen
      /\ writer # NoWriter => serving /\ present = Components
      /\ serving \in BOOLEAN
  BY DEF DirectoryInv, Typed, LakeFits, NothingUnseen
<1>3. /\ catalogue # {} => "market" \in present
      /\ Readables /\ LeftoversAreRecoverable /\ WriterFits
  BY <1>1, WorksInService
<1>4. UNCHANGED lakeVars =>
        LakeTypeOK' /\ Readables' /\ LeftoversAreRecoverable' /\ WriterFits'
  BY <1>2, <1>3 DEF lakeVars, LakeTypeOK, Readables, LeftoversAreRecoverable, WriterFits, At, File
<1> SUFFICES DirectoryInv'
  BY <1>1 DEF backup
<1>5. CASE StartService \/ StopService
  <2>1. /\ UNCHANGED live /\ serving' \in BOOLEAN
        /\ writer' # NoWriter => serving'
    BY <1>2, <1>5, WriterIs DEF StartService, StopService, live, lakeVars
  <2>2. NothingUnseen'
    BY <1>2, <2>1 DEF NothingUnseen, live, lakeVars
  <2> QED
    BY <1>1, <1>2, <1>3, <1>4, <2>1, <2>2, StepInService DEF live, lakeVars
<1>6. CASE CreateDatabase
  <2>1. /\ present' = present \cup {"database"} /\ catalogue' = {} /\ rows' = 0
        /\ UNCHANGED <<target, temp, writer, serving>> /\ serving
    BY <1>6 DEF CreateDatabase, PutLive, Database
  <2>2. catalogue = {} /\ UNCHANGED lakeVars
    BY <1>2, <1>6, <2>1 DEF CreateDatabase, NothingUnseen, lakeVars
  <2>3. present' \subseteq Components /\ NothingUnseen' /\ rows' \in 0..MaxRows
    BY <1>2, <2>1, ComponentsAre, DirectoryBounds DEF NothingUnseen
  <2>4. writer' # NoWriter => serving' /\ present' = Components
    BY <1>2, <2>1, <2>3
  <2> QED
    BY <1>1, <1>2, <1>4, <2>1, <2>2, <2>3, <2>4, StepInService
<1>7. CASE CreateLake
  <2>1. /\ present' = present \cup {"market"} /\ target' = {} /\ temp' = NoFiles
        /\ UNCHANGED <<catalogue, rows, writer, serving>> /\ serving
    BY <1>7 DEF CreateLake, PutLive, Lake
  <2>2. UNCHANGED lakeVars
    BY <1>2, <1>7, <2>1 DEF CreateLake, NothingUnseen, lakeVars
  <2>3. present' \subseteq Components /\ NothingUnseen'
    BY <1>2, <2>1, ComponentsAre DEF NothingUnseen
  <2>4. writer' # NoWriter => serving' /\ present' = Components
    BY <1>2, <2>1, <2>3
  <2> QED
    BY <1>1, <1>2, <1>4, <2>1, <2>2, <2>3, <2>4, StepInService
<1>8. CASE WriteRows
  <2>1. rows' = rows + 1 /\ rows < MaxRows /\ UNCHANGED <<lakeVars, present, serving>>
        /\ "database" \in present
    BY <1>8 DEF WriteRows
  <2>2. NothingUnseen' /\ rows' \in 0..MaxRows
    BY <1>2, <2>1, DirectoryBounds DEF NothingUnseen, lakeVars
  <2> QED
    BY <1>1, <1>2, <1>3, <1>4, <2>1, <2>2, StepInService DEF lakeVars
<1>9. CASE WriteLake
  <2>1. LakeStep /\ serving /\ present = Components /\ UNCHANGED <<rows, present, serving>>
    BY <1>9 DEF WriteLake
  <2>2. LakeTypeOK' /\ WriterFits' /\ Readables' /\ LeftoversAreRecoverable'
    BY <1>2, <1>3, <2>1, LakeStepKeeps
  <2>3. NothingUnseen'
    BY <2>1, ComponentsAre DEF NothingUnseen
  <2> QED
    BY <1>1, <1>2, <2>1, <2>2, <2>3, ComponentsAre, StepInService
<1> QED
  BY <1>5, <1>6, <1>7, <1>8, <1>9

--------------------------------------------------------------------------------
(* Crashes and backups.                                                    *)

\* The database and the lake, the journal and the stage stay as they are; what was under
\* way goes on or is dropped.
LEMMA OnlyTheBackup ==
    ASSUME DirectoryInv, UNCHANGED <<live, serving, journal, stage, refused>>,
           todo' \in {todo, <<>>}, clone' \in Contents("database"),
           \A a \in archive' : IsPair(a) /\ Usable(a)
    PROVE  DirectoryInv'
<1>1. Typed /\ LakeFits /\ JournalFits
  BY DEF DirectoryInv
<1>2. Live' = Live /\ \A c \in Components : LiveOf(c)' = LiveOf(c)
  BY LiveKept
<1>3. Typed'
  <2>1. LakeTypeOK'
    BY <1>1 DEF Typed, LakeTypeOK, live, lakeVars
  <2> QED
    BY <1>1, <2>1 DEF Typed, live, stage
<1>4. LakeFits'
  BY <1>1, <1>2 DEF LakeFits, LeftoversAreRecoverable, live, lakeVars, At, File
<1>5. \A c \in Components : Same(c)
  BY <1>2 DEF Same, Original, Installed, SetAside, ToPlace, Discarded, stage
<1>6. CASE journal = NoJournal
  <2>1. todo' = <<>> /\ Empty' /\ ~staged' /\ ~manifest' /\ ~refused' /\ journal' = NoJournal
        /\ torn' = torn /\ aside' = aside
    BY <1>1, <1>6 DEF JournalFits, Empty, stage
  <2> QED
    BY <1>1, <1>3, <1>4, <1>6, <2>1, PhaseOfNoJournal DEF DirectoryInv, JournalFits, Final
<1>7. CASE journal.phase \in Final
  <2>1. StageFits' = StageFits /\ AsidesFit' = AsidesFit
    BY <1>5 DEF StageFits, AsidesFit, Holds, stage
  <2>2. /\ \A p \in torn' : aside'[p]["market"] # {}
        /\ todo' \in {<<>>, Cleaning}
        /\ refused' => todo' = <<>> /\ ~(StageFits /\ AsidesFit)'
    BY <1>1, <1>7, <2>1 DEF JournalFits, stage
  <2>3. journal # NoJournal /\ journal' = journal /\ Cleaning' = Cleaning
    BY <1>7, PhaseOfNoJournal DEF Final
  <2>4. /\ ~serving' /\ Usable(journal'.original) /\ Usable(journal'.installed)
        /\ journal'.phase = "committed" => Live' = journal'.installed
        /\ journal'.phase = "rolled_back" => Live' = journal'.original
    BY <1>1, <1>2, <2>3 DEF JournalFits
  <2>5. JournalFits'
    BY <1>7, <2>2, <2>3, <2>4 DEF JournalFits, Final
  <2> QED
    BY <1>3, <1>4, <2>5 DEF DirectoryInv
<1>8. CASE journal.phase = "prepared"
  <2>1. /\ journal # NoJournal /\ journal' = journal /\ ~serving'
        /\ staged' /\ manifest' /\ torn' = {}
        /\ Usable(journal'.original) /\ Usable(journal'.installed)
        /\ \A c \in Components : ComponentFits(c)
        /\ refused => \E c \in Components : Mistaken(c)
        /\ todo = <<>> \/ Restoring \/ RollingBack
    BY <1>1, <1>8, PhaseOfNoJournal DEF JournalFits, stage
  <2>2. \A c \in Components :
          /\ Untouched(c)' = Untouched(c) /\ Moved(c)' = Moved(c) /\ Placed(c)' = Placed(c)
          /\ Had(c)' = Had(c) /\ Mistaken(c)' = Mistaken(c) /\ ComponentFits(c)'
          /\ \A k \in 1..14 : RolledBackTo(k, c) => RolledBackTo(k, c)'
          /\ Installed(c)' = Installed(c)
    <3> SUFFICES ASSUME NEW c \in Components
                 PROVE  /\ Untouched(c)' = Untouched(c) /\ Moved(c)' = Moved(c) /\ Placed(c)' = Placed(c)
                        /\ Had(c)' = Had(c) /\ Mistaken(c)' = Mistaken(c) /\ ComponentFits(c)'
                        /\ \A k \in 1..14 : RolledBackTo(k, c) => RolledBackTo(k, c)'
                        /\ Installed(c)' = Installed(c)
      OBVIOUS
    <3>1. Same(c) /\ ComponentFits(c)
      BY <1>5, <2>1
    <3>2. Installed(c)' = Installed(c)
      BY <3>1 DEF Same
    <3> QED
      BY <3>1, <3>2, SameComponent, Zenon
  <2>3. (refused => \E c \in Components : Mistaken(c))'
    <3>1. refused' = refused
      OBVIOUS
    <3>2. \A c \in Components : Mistaken(c)' = Mistaken(c)
      BY <2>2
    <3> QED
      BY <2>1, <3>1, <3>2
  <2>4. todo' = todo /\ Restoring => Restoring'
    <3>1. \A c \in Components : After(c)' = After(c) /\ PlaceThen(c, After(c))' = PlaceThen(c, After(c))
      BY <2>2, PlansKept
    <3>2. \A c \in Components : OtherFits(c) => OtherFits(c)'
      BY <1>5, OtherKept
    <3>3. ASSUME NEW c \in Components, RestoreAt(c), todo' = todo
          PROVE  RestoreAt(c)'
      BY <2>2, <3>1, <3>2, <3>3, Zenon DEF RestoreAt
    <3> QED
      BY <2>2, <3>3 DEF Restoring
  <2>5. todo' = todo /\ RollingBack => RollingBack'
    <3>1. ASSUME RollingBack, todo' = todo
          PROVE  RollingBack'
      <4>1. PICK k \in 1..13 :
              /\ todo = SubSeq(RollBackSteps, k, 14)
              /\ \A c \in Components : RolledBackTo(k, c)
        BY <3>1, Zenon DEF RollingBack
      <4>2. k \in 1..14
        BY <4>1
      <4>3. \A c \in Components : RolledBackTo(k, c)'
        BY <2>2, <4>1, <4>2, Zenon
      <4>4. todo' = SubSeq(RollBackSteps, k, 14)
        BY <3>1, <4>1, Zenon
      <4> QED
        BY <4>1, <4>3, <4>4, Zenon DEF RollingBack
    <3> QED
      BY <3>1
  <2>6. (todo = <<>> \/ Restoring \/ RollingBack)'
    <3>1. CASE todo' = <<>>
      BY <3>1
    <3>2. CASE todo' = todo
      BY <2>1, <2>4, <2>5, <3>2
    <3> QED
      BY <3>1, <3>2
  <2>7. JournalFits'
    BY <1>8, <2>1, <2>2, <2>3, <2>6, PreparedFits
  <2> QED
    BY <1>3, <1>4, <2>7 DEF DirectoryInv
<1> QED
  BY <1>1, <1>6, <1>7, <1>8 DEF Typed, JournalFits

\* A crash drops the writer or the plan, and nothing else.
LEMMA CrashKeeps ==
    ASSUME DirectoryInv, Crash
    PROVE  /\ DirectoryInv' /\ UNCHANGED <<journal, archive, rows, present, catalogue, target, temp>>
           /\ ~serving => UNCHANGED <<live, serving>>
           /\ serving => journal = NoJournal
<1>1. /\ writer' = NoWriter /\ todo' = <<>> /\ clone' \in {clone, {}}
      /\ serving \/ ~Idle
      /\ serving' \in {FALSE, serving}
      /\ UNCHANGED <<catalogue, target, temp, rows, present, archive, journal, stage, refused>>
  BY DEF Crash
<1>2. /\ Typed /\ LakeFits /\ clone' \in Contents("database")
      /\ \A a \in archive' : IsPair(a) /\ Usable(a)
  BY <1>1 DEF DirectoryInv, Typed, LakeFits, Contents
<1>3. CASE ~serving
  <2>1. writer' = writer /\ serving' = serving
    BY <1>1, <1>2, <1>3 DEF LakeFits, Typed
  <2>2. UNCHANGED <<live, serving, journal, stage, refused>>
    BY <1>1, <2>1 DEF live, lakeVars
  <2>3. DirectoryInv'
    BY <1>1, <1>2, <2>2, OnlyTheBackup
  <2> QED
    BY <1>1, <1>3, <2>2, <2>3
<1>4. CASE serving
  <2>1. journal = NoJournal /\ todo = <<>>
    BY <1>4 DEF DirectoryInv, JournalFits
  <2>2. Readables /\ LeftoversAreRecoverable /\ (catalogue # {} => "market" \in present)
    BY <2>1, WorksInService
  <2>3. /\ LakeTypeOK' /\ rows' \in 0..MaxRows /\ present' \subseteq Components /\ serving' \in BOOLEAN
        /\ NothingUnseen'
    BY <1>1, <1>2 DEF Typed, LakeTypeOK, LakeFits, NothingUnseen, Writers
  <2>4. WriterFits'
    BY <1>1 DEF WriterFits, At, NoWriter
  <2>5. Readables' /\ LeftoversAreRecoverable' /\ (catalogue' # {} => "market" \in present')
    BY <1>1, <2>2 DEF Readables, LeftoversAreRecoverable
  <2>6. DirectoryInv'
    <3>1. LakeFits'
      <4>1. PairWorks'
        BY PairInPlaceWorks, PTL
      <4>2. Typed'
        BY <1>1, <1>2, <2>3 DEF Typed, stage
      <4>3. Usable(Live)'
        BY <2>3, <2>5, <4>1, <4>2 DEF PairWorks
      <4> QED
        BY <1>1, <1>2, <2>3, <2>4, <2>5, <4>3 DEF LakeFits, NothingUnseen, WriterFits
    <3>2. Typed'
      BY <1>1, <1>2, <2>3 DEF Typed, stage
    <3>3. journal' = NoJournal /\ todo' = <<>> /\ ~staged' /\ ~manifest' /\ ~refused'
          /\ torn' = torn /\ aside' = aside /\ Empty'
      BY <1>1, <2>1 DEF DirectoryInv, JournalFits, stage, Empty
    <3>4. JournalFits'
      BY <2>1, <3>3, PhaseOfNoJournal DEF DirectoryInv, JournalFits, Final
    <3> QED
      BY <3>1, <3>2, <3>4 DEF DirectoryInv
  <2> QED
    BY <1>1, <1>4, <2>1, <2>6
<1> QED
  BY <1>2, <1>3, <1>4 DEF Typed

\* A backup of a catalogue with its files is a pair services can work with.
LEMMA BackupIsUsable ==
    ASSUME NEW db \in Databases, NEW withLake \in BOOLEAN, db.catalogue # {} => withLake
    PROVE  IsPair(BackupOf(db, withLake)) /\ Usable(BackupOf(db, withLake))
<1>1. ListedIn(db.catalogue) \in SUBSET Files
  BY DEF ListedIn, Listed, Databases, Files
<1>2. NoFiles \in [Files -> {"none", "own", "alias"}] /\ \A f \in Files : NoFiles[f] = "none"
  BY DEF NoFiles
<1>3. PICK b : b = BackupOf(db, withLake)
  OBVIOUS
<1>4. /\ DOMAIN b = Components /\ b["database"] = {db}
      /\ b["market"] = IF withLake THEN Lake(ListedIn(db.catalogue), NoFiles) ELSE {}
      /\ b = [c \in Components |-> b[c]]
  BY <1>3 DEF BackupOf, Components
<1>5. IsPair(b)
  <2>1. b["database"] \in Contents("database")
    BY <1>4 DEF Contents
  <2>2. b["market"] \in Contents("market")
    BY <1>1, <1>2, <1>4 DEF Contents, Lake, Lakes
  <2> QED
    BY <1>4, <2>1, <2>2, ComponentsAre DEF IsPair
<1>6. Usable(b)
  <2>1. \A d \in b["database"] : d.catalogue # {} => b["market"] # {}
    BY <1>4 DEF Lake
  <2>2. \A lake \in b["market"] : lake.target = ListedIn(db.catalogue) /\ lake.temp = NoFiles
    BY <1>4 DEF Lake
  <2>3. \A lake \in b["market"] : \A f \in lake.target : f \in lake.target /\ lake.temp[f] = "none"
    BY <1>1, <1>2, <2>2
  <2>4. \A d \in b["database"] : d = db
    BY <1>4
  <2> QED
    BY <2>1, <2>2, <2>3, <2>4 DEF Usable
<1> QED
  BY <1>3, <1>5, <1>6

\* A backup, or a half of one, is taken beside anything.
LEMMA BackupKeeps ==
    ASSUME DirectoryInv, CopyDatabase \/ HoldMarketFiles
    PROVE  DirectoryInv' /\ UNCHANGED <<live, serving, journal>>
<1>1. /\ UNCHANGED <<live, serving, journal, stage, refused>> /\ todo' \in {todo, <<>>}
  BY DEF CopyDatabase, HoldMarketFiles, control
<1>2. Typed /\ \A a \in archive : IsPair(a) /\ Usable(a)
  BY DEF DirectoryInv, Typed, LakeFits
<1>3. CASE CopyDatabase
  <2>1. clone' \in Contents("database") /\ archive' = archive
    BY <1>2, <1>3, LiveIsTyped, ComponentsAre DEF CopyDatabase
  <2> QED
    BY <1>1, <1>2, <2>1, OnlyTheBackup
<1>4. CASE HoldMarketFiles
  <2>1. clone' = {} /\ {} \in Contents("database")
    BY <1>4 DEF HoldMarketFiles, Contents
  <2>2. PICK db \in clone :
          \/ /\ ListedIn(db.catalogue) # {} => "market" \in present
             /\ archive' = {BackupOf(db, "market" \in present)}
          \/ archive' = archive
    BY <1>4 DEF HoldMarketFiles
  <2>3. db \in Databases
    BY <1>2, <2>2 DEF Typed, Contents
  <2>4. db.catalogue # {} => ListedIn(db.catalogue) # {}
    <3>1. 1 \in Years
      BY YearsAssumption DEF Years
    <3>2. \A d \in db.catalogue : <<d, 1>> \in ListedIn(db.catalogue)
      BY <3>1 DEF ListedIn, Listed
    <3> QED
      BY <3>2
  <2>5. \A a \in archive' : IsPair(a) /\ Usable(a)
    <3>1. CASE archive' = archive
      BY <1>2, <3>1
    <3>2. CASE /\ ListedIn(db.catalogue) # {} => "market" \in present
               /\ archive' = {BackupOf(db, "market" \in present)}
      <4>1. PICK withLake \in BOOLEAN : withLake <=> "market" \in present
        OBVIOUS
      <4>2. withLake = ("market" \in present)
        BY <4>1
      <4>3. IsPair(BackupOf(db, withLake)) /\ Usable(BackupOf(db, withLake))
        BY <2>3, <2>4, <3>2, <4>1, BackupIsUsable
      <4> QED
        BY <3>2, <4>2, <4>3
    <3> QED
      BY <2>2, <3>1, <3>2
  <2> QED
    BY <1>1, <2>1, <2>5, OnlyTheBackup
<1> QED
  BY <1>1, <1>3, <1>4

--------------------------------------------------------------------------------
(* The preparation of a restore.                                           *)

\* It leaves the pair as it is, but for one transaction on the database.
LEMMA PrepareKeeps ==
    ASSUME Sound, BeginRestore \/ PrepareStep, ~WriteJournal
    PROVE  /\ DirectoryInv' /\ UNCHANGED <<serving, journal>> /\ journal = NoJournal /\ ~serving
           /\ RequeueExpiredLeases \/ UNCHANGED live
<1>1. /\ DirectoryInv /\ Typed /\ journal = NoJournal /\ ~serving
      /\ clone \in Contents("database") /\ \A a \in archive : IsPair(a) /\ Usable(a)
  BY DEF Sound, StartFits, DirectoryInv, Typed, LakeFits, BeginRestore, PrepareStep,
     RequeueExpiredLeases, SaveRecoveryArchive, StageBackup, AbandonRestore
<1>2. CASE BeginRestore \/ StageBackup \/ AbandonRestore
  <2>1. UNCHANGED <<live, serving, journal, stage, refused, todo, clone, archive>>
    BY <1>2 DEF BeginRestore, StageBackup, AbandonRestore, backup
  <2>2. DirectoryInv'
    BY <1>1, <2>1, OnlyTheBackup
  <2> QED
    BY <1>1, <2>1, <2>2
<1>3. CASE SaveRecoveryArchive
  <2>1. UNCHANGED <<live, serving, journal, stage, refused, todo, clone>>
    BY <1>3 DEF SaveRecoveryArchive
  <2>8. PICK withLake \in BOOLEAN : withLake <=> "market" \in present
    OBVIOUS
  <2>2. withLake = ("market" \in present)
    BY <2>8
  <2>3. PICK db \in Databases : db = [catalogue |-> catalogue, rows |-> rows]
    BY <1>1 DEF Databases, Typed, LakeTypeOK
  <2>4. db.catalogue # {} => withLake
    BY <1>3, <2>3, <2>8 DEF SaveRecoveryArchive
  <2>5. archive' = archive \/ archive' = {BackupOf(db, withLake)}
    BY <1>3, <2>2, <2>3 DEF SaveRecoveryArchive
  <2>6. \A a \in archive' : IsPair(a) /\ Usable(a)
    BY <1>1, <2>4, <2>5, BackupIsUsable
  <2>7. DirectoryInv'
    BY <1>1, <2>1, <2>6, OnlyTheBackup
  <2> QED
    BY <1>1, <2>1, <2>7
<1>4. CASE RequeueExpiredLeases
  <2>1. /\ UNCHANGED <<lakeVars, present, serving, backup, journal, stage, todo, refused>>
        /\ rows' = rows \/ (rows < MaxRows /\ rows' = rows + 1)
        /\ "database" \in present
    BY <1>4 DEF RequeueExpiredLeases, Sound, StartFits
  <2>2. /\ LakeTypeOK /\ rows \in 0..MaxRows /\ present \subseteq Components /\ NothingUnseen
        /\ writer # NoWriter => serving /\ present = Components
        /\ serving \in BOOLEAN
    BY <1>1 DEF DirectoryInv, Typed, LakeFits, NothingUnseen
  <2>3. /\ catalogue # {} => "market" \in present
        /\ Readables /\ LeftoversAreRecoverable /\ WriterFits
    BY <1>1, WorksInService
  <2>4. LakeTypeOK' /\ Readables' /\ LeftoversAreRecoverable' /\ WriterFits'
    BY <2>1, <2>2, <2>3 DEF lakeVars, LakeTypeOK, Readables, LeftoversAreRecoverable, WriterFits,
       At, File
  <2>5. NothingUnseen' /\ rows' \in 0..MaxRows
    BY <2>1, <2>2, DirectoryBounds DEF NothingUnseen, lakeVars
  <2>6. DirectoryInv'
    BY <1>1, <2>1, <2>2, <2>3, <2>4, <2>5, StepInService DEF lakeVars
  <2> QED
    BY <1>1, <1>4, <2>1, <2>6
<1> QED
  BY <1>2, <1>3, <1>4 DEF PrepareStep

\* A step of something else, which never runs beside a restore's preparation or leaves it
\* what it needs.
LEMMA StartKept ==
    ASSUME StartFits, UNCHANGED <<starting, restores>>,
           prep = "none" \/ UNCHANGED <<serving, journal, present>>
    PROVE  StartFits'
BY DEF StartFits, starting

LEMMA PrepareStartFits ==
    ASSUME Sound, BeginRestore \/ PrepareStep
    PROVE  StartFits'
<1>1. /\ restores \in Nat /\ strays \in 0..restores /\ StartFits
  BY DEF Sound, StartFits
<1>2. CASE BeginRestore
  <2>1. /\ ~serving' /\ journal' = NoJournal /\ bundle' = archive /\ archive # {}
        /\ restores' = restores + 1 /\ strays' = strays
        /\ prep' = IF "database" \in present THEN "locked" ELSE "ready"
        /\ present' = present
    BY <1>2 DEF BeginRestore, live
  <2>2. \A a \in archive : IsPair(a) /\ Usable(a)
    BY DEF Sound, DirectoryInv, Typed, LakeFits
  <2> QED
    BY <1>1, <2>1, <2>2 DEF StartFits
<1>3. CASE RequeueExpiredLeases
  BY <1>1, <1>3 DEF RequeueExpiredLeases, StartFits
<1>4. CASE SaveRecoveryArchive
  BY <1>1, <1>4 DEF SaveRecoveryArchive, StartFits, live
<1>5. CASE StageBackup
  BY <1>1, <1>5 DEF StageBackup, StartFits
<1>6. CASE AbandonRestore
  BY <1>1, <1>6 DEF AbandonRestore, StartFits
<1>7. CASE WriteJournal
  BY <1>1, <1>7 DEF WriteJournal, StartFits
<1> QED
  BY <1>2, <1>3, <1>4, <1>5, <1>6, <1>7 DEF PrepareStep

--------------------------------------------------------------------------------
(* The invariant.                                                          *)

\* A step of a restore with a journal, of a cleanup or of a recovery finds no other restore.
LEMMA NoOtherRestore ==
    ASSUME Sound, RestoreStep \/ CleanupStep \/ BeginRecovery \/ RecoveryStep
    PROVE  /\ prep = "none" /\ prep' = "none" /\ UNCHANGED <<starting, restores>>
<1>1. UNCHANGED <<starting, restores>>
  BY DEF RestoreStep, CleanupStep, RecoveryStep, Move, NoteMove, Place, NotePlace, Commit,
     RemoveManifest, FinishCleanup, RemoveAside, BeginRecovery, ReconcileMove, ReconcilePlace,
     Discard, NoteDiscard, PutOldBack, NotePutBack, RolledBack, Rest, Calm, control
<1>2. BeginRecovery \/ \E word, c : Doing(word, c)
  BY DEF RestoreStep, CleanupStep, RecoveryStep, Move, NoteMove, Place, NotePlace, Commit,
     RemoveManifest, FinishCleanup, RemoveAside, ReconcileMove, ReconcilePlace,
     Discard, NoteDiscard, PutOldBack, NotePutBack, RolledBack
<1>3. BeginRecovery => prep = "none"
  BY DEF BeginRecovery, Idle
<1>4. ASSUME NEW word, NEW c, Doing(word, c) PROVE prep = "none"
  <2>1. journal # NoJournal
    BY <1>4, WhatIsDoing DEF Sound
  <2> QED
    BY <2>1 DEF Sound, StartFits
<1>5. prep = "none"
  BY <1>2, <1>3, <1>4
<1> QED
  BY <1>1, <1>5 DEF starting

LEMMA StepKeepsStart == Sound /\ [Next]_vars => StartFits'
<1> SUFFICES ASSUME Sound, [Next]_vars PROVE StartFits'
  OBVIOUS
<1>0. StartFits
  BY DEF Sound
<1>1. CASE StartService \/ CreateDatabase \/ CreateLake \/ WriteRows \/ WriteLake \/ StopService
  <2>1. UNCHANGED <<starting, restores>> /\ (serving \/ Idle)
    BY <1>1 DEF StartService, CreateDatabase, CreateLake, WriteRows, WriteLake, StopService, control
  <2>2. prep = "none"
    BY <1>0, <2>1 DEF StartFits, Idle
  <2> QED
    BY <1>0, <2>1, <2>2, StartKept
<1>2. CASE Crash
  <2>1. /\ prep' = "none" /\ bundle' = {} /\ strays' = strays /\ restores' = restores
    BY <1>2 DEF Crash
  <2> QED
    BY <1>0, <2>1 DEF StartFits
<1>3. CASE CopyDatabase \/ HoldMarketFiles \/ UNCHANGED vars
  <2>1. UNCHANGED <<starting, restores, serving, journal, present>>
    BY <1>3 DEF CopyDatabase, HoldMarketFiles, vars, control, live
  <2> QED
    BY <1>0, <2>1, StartKept
<1>4. CASE BeginRestore \/ PrepareStep
  BY <1>4, PrepareStartFits
<1>5. CASE RestoreStep \/ CleanupStep \/ BeginRecovery \/ RecoveryStep
  BY <1>0, <1>5, NoOtherRestore, StartKept
<1> QED
  BY <1>1, <1>2, <1>3, <1>4, <1>5 DEF Next

LEMMA InitIsSound == Init => Sound
<1> SUFFICES ASSUME Init PROVE Sound
  OBVIOUS
<1>0. StartFits
  <2>1. /\ prep = "none" /\ bundle = {} /\ strays = 0 /\ restores = 0
    BY DEF Init
  <2> QED
    BY <2>1 DEF StartFits
<1>1. /\ catalogue = {} /\ target = {} /\ temp = NoFiles /\ writer = NoWriter
      /\ rows = 0 /\ present = {} /\ serving = FALSE /\ clone = {} /\ journal = NoJournal
      /\ staged = FALSE /\ manifest = FALSE /\ torn = {} /\ todo = <<>> /\ refused = FALSE
      /\ aside = [p \in Asides |-> Absent]
      /\ archive \in {{}} \cup {{a} : a \in Foreign}
  BY DEF Init
<1>2. NoFiles \in [Files -> {"none", "own", "alias"}] /\ \A f \in Files : NoFiles[f] = "none"
  BY DEF NoFiles
<1>3. \A a \in archive : IsPair(a) /\ Usable(a)
  <2> SUFFICES ASSUME NEW a \in Foreign PROVE IsPair(a) /\ Usable(a)
    BY <1>1
  <2>1. PICK cat \in SUBSET Datasets, n \in 0..MaxRows, withLake \in BOOLEAN :
          /\ cat # {} => withLake
          /\ a = BackupOf([catalogue |-> cat, rows |-> n], withLake)
    BY ForeignAssumption
  <2>2. PICK db \in Databases : db = [catalogue |-> cat, rows |-> n]
    BY DEF Databases
  <2>3. db.catalogue = cat
    BY <2>2
  <2> QED
    BY <2>1, <2>2, <2>3, BackupIsUsable
<1>4. LakeTypeOK /\ WriterFits /\ LeftoversAreRecoverable /\ Readables
  BY <1>1, <1>2 DEF LakeTypeOK, Writers, WriterFits, LeftoversAreRecoverable, Readables, NoWriter, At
<1>5. /\ journal.phase = "none" /\ journal.original = Absent /\ journal.installed = Absent
      /\ journal.moved = {} /\ journal.placed = {}
      /\ journal = [phase |-> journal.phase, original |-> journal.original,
                    installed |-> journal.installed, moved |-> journal.moved,
                    placed |-> journal.placed]
  BY <1>1 DEF NoJournal
<1>6. DOMAIN aside = Asides /\ aside = [p \in Asides |-> aside[p]]
      /\ \A p \in Asides : aside[p] = Absent
  BY <1>1
<1>7. Typed
  <2>1. 0 \in 0..MaxRows
    BY DirectoryBounds
  <2>2. {} \in Contents("database")
    BY DEF Contents
  <2> QED
    BY <1>1, <1>3, <1>4, <1>5, <1>6, <2>1, <2>2, AbsentIsAPair DEF Typed
<1>8. Usable(Live)
  BY <1>1, <1>4, <1>7, PairInPlaceWorks DEF PairWorks, NothingUnseen
<1>9. LakeFits
  BY <1>1, <1>3, <1>4, <1>8 DEF LakeFits, WriterFits
<1>10. JournalFits
  BY <1>1, <1>5, <1>6 DEF JournalFits, Empty, Final
<1> QED
  BY <1>0, <1>7, <1>9, <1>10 DEF DirectoryInv, Sound

LEMMA StepKeeps == Sound /\ [Next]_vars => Sound'
<1> SUFFICES ASSUME Sound, [Next]_vars PROVE DirectoryInv'
  BY StepKeepsStart DEF Sound
<1>0. DirectoryInv /\ StartFits
  BY DEF Sound
<1>1. CASE StartService \/ CreateDatabase \/ CreateLake \/ WriteRows \/ WriteLake \/ StopService
  BY <1>0, <1>1, ServiceKeeps
<1>2. CASE Crash
  BY <1>0, <1>2, CrashKeeps
<1>3. CASE CopyDatabase \/ HoldMarketFiles
  BY <1>0, <1>3, BackupKeeps
<1>4. CASE BeginRestore \/ PrepareStep
  BY <1>0, <1>4, PrepareKeeps, WriteJournalKeeps
<1>5. CASE RestoreStep
  BY <1>0, <1>5, RestoreKeeps, CommitKeeps DEF RestoreStep
<1>6. CASE CleanupStep
  BY <1>0, <1>6, CleanupKeeps
<1>7. CASE BeginRecovery
  BY <1>0, <1>7, BeginRecoveryKeeps
<1>8. CASE RecoveryStep
  BY <1>0, <1>8, ReconcileMoveKeeps, ReconcilePlaceKeeps, DiscardKeeps, NoteDiscardKeeps,
     PutOldBackKeeps, NotePutBackKeeps, RolledBackKeeps DEF RecoveryStep
<1>9. CASE UNCHANGED vars
  <2>1. UNCHANGED <<live, serving, journal, stage, refused, todo, clone, archive>>
    BY <1>9 DEF vars, control, backup
  <2>2. clone' \in Contents("database") /\ \A a \in archive' : IsPair(a) /\ Usable(a)
    BY <1>0, <2>1 DEF DirectoryInv, Typed, LakeFits
  <2> QED
    BY <1>0, <2>1, <2>2, OnlyTheBackup
<1> QED
  BY <1>1, <1>2, <1>3, <1>4, <1>5, <1>6, <1>7, <1>8, <1>9 DEF Next

LEMMA DirectoryIsSound == Spec => []Sound
<1> QED
  BY InitIsSound, StepKeeps, PTL DEF Spec

(* Recovery looks for files and rows where they are; a restore is under    *)
(* way only without services; renames are still to be done, and the stage  *)
(* a journal names exists, only with that journal; and the stages without  *)
(* one are at most as many as the restores that were begun                 *)
(* (restore_lifecycle, _restore_owned_components).                         *)
THEOREM DirectoryTypeCorrect == Spec => []TypeOK
<1>1. Sound => TypeOK
  <2> SUFFICES ASSUME Sound PROVE TypeOK
    OBVIOUS
  <2>1. Typed /\ JournalFits /\ StartFits
    BY DEF Sound, DirectoryInv
  <2>2. ~Idle => ~serving
    BY <2>1 DEF JournalFits, StartFits, Idle
  <2> QED
    BY <2>1, <2>2 DEF Typed, JournalFits, StartFits, TypeOK
<1> QED
  BY <1>1, DirectoryIsSound, PTL

(* No interleaving of writers, failures, crashes, backups and restores     *)
(* leaves services a catalogued dataset that they cannot read, or a file   *)
(* that keeps the next writer out (_write_locked,                          *)
(* _recover_partition_publish, _create_backup_under_locks).                *)
THEOREM FilesAreFound == Spec => []ServicesFindTheirFiles
<1>1. Sound => ServicesFindTheirFiles
  <2> SUFFICES ASSUME DirectoryInv PROVE ServicesFindTheirFiles
    BY DEF Sound
  <2>1. LeftoversAreRecoverable
    BY DEF DirectoryInv, LakeFits
  <2>2. ASSUME serving, catalogue # {}
        PROVE  "market" \in present /\ CatalogueIsReadable
    <3>1. journal = NoJournal
      BY <2>2 DEF DirectoryInv, JournalFits
    <3>2. "market" \in present /\ Readables
      BY <2>2, <3>1, WorksInService
    <3> QED
      BY <3>2 DEF Readables, CatalogueIsReadable, Readable
  <2> QED
    BY <2>1, <2>2 DEF ServicesFindTheirFiles
<1> QED
  BY <1>1, DirectoryIsSound, PTL

(* Wherever a restore or its recovery is cut short, one of the two pairs   *)
(* is whole: the old one until the journal decides, then the one it        *)
(* decided for (restore_backup, recover_restore).                          *)
THEOREM NothingLost == Spec => []NothingIsLost
<1>1. Sound => NothingIsLost
  <2> SUFFICES ASSUME DirectoryInv PROVE NothingIsLost
    BY DEF Sound
  <2>1. ASSUME journal.phase = "prepared", NEW c \in Components
        PROVE  LiveOf(c) = journal.original[c] \/ Holds("rollback", c, journal.original[c])
    <3>1. ComponentFits(c) /\ torn = {}
      BY <2>1 DEF DirectoryInv, JournalFits
    <3>2. LiveOf(c) = Original(c) \/ SetAside(c) = Original(c)
      BY <3>1 DEF ComponentFits, Untouched, Moved, Placed, Undone, Restored
    <3> QED
      BY <3>1, <3>2 DEF Holds, Original, SetAside
  <2> QED
    BY <2>1 DEF NothingIsLost, DirectoryInv, JournalFits
<1> QED
  BY <1>1, DirectoryIsSound, PTL

(* Recovery refuses what an earlier restore or recovery has left in two    *)
(* cases only (_verify_recovery_state, _reconcile_prepared_operations).    *)
THEOREM RefusalsExplained == Spec => []RefusesOnlyTornOrEqual
<1>1. Sound => RefusesOnlyTornOrEqual
  <2> SUFFICES ASSUME DirectoryInv, refused
               PROVE  \/ ~StageFits \/ ~AsidesFit
                      \/ \E c \in Components : Had(c) /\ journal.original[c] = journal.installed[c]
    BY DEF Sound, RefusesOnlyTornOrEqual
  <2>1. journal.phase \in {"prepared"} \cup Final
    BY DEF DirectoryInv, Typed, JournalFits
  <2>2. CASE journal.phase = "prepared"
    <3>1. \E c \in Components : Mistaken(c)
      BY <2>2 DEF DirectoryInv, JournalFits
    <3> QED
      BY <3>1 DEF Mistaken, Original, Installed
  <2>3. CASE journal.phase \in Final
    BY <2>3 DEF DirectoryInv, JournalFits
  <2> QED
    BY <2>1, <2>2, <2>3
<1> QED
  BY <1>1, DirectoryIsSound, PTL

--------------------------------------------------------------------------------
(* The whole is one swap.                                                  *)

\* The backup that is on offer while there is no journal.
AtHand == IF prep # "none" THEN bundle ELSE archive

\* Until a restore is decided the old pair is seen, and the backup it was given stands.
WhatIsSeen ==
    Sound =>
        /\ journal.phase # "prepared" => Outside = Live /\ Offered = AtHand
        /\ journal.phase = "prepared" =>
             Outside = journal.original /\ Offered = {journal.installed}

LEMMA SeenFromOutside == WhatIsSeen
<1> SUFFICES ASSUME Sound
             PROVE  /\ journal.phase # "prepared" => Outside = Live /\ Offered = AtHand
                    /\ journal.phase = "prepared" =>
                         Outside = journal.original /\ Offered = {journal.installed}
  BY DEF WhatIsSeen
<1>1. /\ journal.phase \in {"none", "prepared"} \cup Final
      /\ journal.phase = "committed" => Live = journal.installed
      /\ journal.phase = "rolled_back" => Live = journal.original
  BY DEF Sound, DirectoryInv, Typed, JournalFits
<1>2. journal.phase = "prepared" => prep = "none"
  BY PhaseOfNoJournal DEF Sound, StartFits
<1>3. journal.phase # "prepared" => Outside = Live
  BY <1>1 DEF Outside, Final
<1>4. journal.phase = "prepared" => Outside = journal.original
  BY DEF Outside
<1> QED
  BY <1>2, <1>3, <1>4 DEF Offered, AtHand

\* Every step of a restore or roll-back but its last leaves the decision open.
LEMMA StillUndecided ==
    ASSUME DirectoryInv, (RestoreStep /\ ~Commit) \/ (RecoveryStep /\ ~RolledBack)
    PROVE  /\ DirectoryInv'
           /\ journal.phase = "prepared" /\ journal'.phase = "prepared" /\ serving' = serving
           /\ journal'.original = journal.original /\ journal'.installed = journal.installed
<1>1. PICK c \in Components :
        \/ Move(c) \/ NoteMove(c) \/ Place(c) \/ NotePlace(c)
        \/ ReconcileMove(c) \/ ReconcilePlace(c)
        \/ Discard(c) \/ NoteDiscard(c) \/ PutOldBack(c) \/ NotePutBack(c)
  BY DEF RestoreStep, RecoveryStep
<1>2. DirectoryInv' /\ Typed
  BY <1>1, RestoreKeeps, ReconcileMoveKeeps, ReconcilePlaceKeeps, DiscardKeeps, NoteDiscardKeeps,
     PutOldBackKeeps, NotePutBackKeeps DEF DirectoryInv
<1>3. serving' = serving
  BY <1>1 DEF Move, NoteMove, Place, NotePlace, ReconcileMove, ReconcilePlace, Discard,
     NoteDiscard, PutOldBack, NotePutBack, Rest, Calm
<1>4. journal.phase = "prepared"
  <2>1. CASE Move(c) \/ NoteMove(c) \/ Place(c) \/ NotePlace(c)
    <3>1. PICK word \in {"move", "note move", "place", "note place"} : Doing(word, c)
      BY <2>1 DEF Move, NoteMove, Place, NotePlace
    <3> QED
      BY <3>1, WhatIsDoing DEF UndoWords
  <2>2. CASE \/ ReconcileMove(c) \/ ReconcilePlace(c) \/ Discard(c) \/ NoteDiscard(c)
             \/ PutOldBack(c) \/ NotePutBack(c)
    <3>1. PICK word \in UndoWords : Doing(word, c)
      BY <2>2 DEF ReconcileMove, ReconcilePlace, Discard, NoteDiscard, PutOldBack, NotePutBack,
         UndoWords
    <3> QED
      BY <3>1, InUndo
  <2> QED
    BY <1>1, <2>1, <2>2
<1>5. \E moved, placed : Noted(journal.phase, moved, placed)
  <2>1. \/ journal' = journal
        \/ \E m : journal' = [journal EXCEPT !.moved = m]
        \/ \E p : journal' = [journal EXCEPT !.placed = p]
        \/ \E m, p : journal' = [journal EXCEPT !.moved = m, !.placed = p]
    BY <1>1 DEF Move, NoteMove, Place, NotePlace, ReconcileMove, ReconcilePlace, Discard,
       NoteDiscard, PutOldBack, NotePutBack
  <2> QED
    BY <1>2, <2>1, NotesAre
<1>6. /\ journal'.phase = journal.phase /\ journal'.original = journal.original
      /\ journal'.installed = journal.installed
  BY <1>5 DEF Noted
<1> QED
  BY <1>2, <1>3, <1>4, <1>6

\* One case for each kind of step: which step of OfflineSwap it is.
LEMMA EveryStepIsSwapOrLess ==
    Sound /\ [Next]_vars => [Swap!Next]_<<Outside, serving, Offered, Unsettled>>
<1> SUFFICES ASSUME Sound, [Next]_vars
             PROVE  Swap!Next \/ UNCHANGED <<Outside, serving, Offered, Unsettled>>
  OBVIOUS
<1>0. DirectoryInv /\ StartFits
  BY DEF Sound
<1>1. DirectoryInv' /\ Sound'
  BY StepKeeps DEF Sound
<1>2. WhatIsSeen /\ WhatIsSeen'
  BY SeenFromOutside, PTL
<1>3. /\ journal.phase # "prepared" => Outside = Live /\ Offered = AtHand
      /\ journal.phase = "prepared" =>
           Outside = journal.original /\ Offered = {journal.installed}
      /\ journal'.phase # "prepared" => Outside' = Live' /\ Offered' = AtHand'
      /\ journal'.phase = "prepared" =>
           Outside' = journal'.original /\ Offered' = {journal'.installed}
  BY <1>1, <1>2 DEF WhatIsSeen
<1>4. serving \in BOOLEAN /\ serving' \in BOOLEAN
  BY <1>0, <1>1 DEF DirectoryInv, Typed
<1>5. CASE StartService \/ CreateDatabase \/ CreateLake \/ WriteRows \/ WriteLake \/ StopService
  <2>0. journal = NoJournal /\ journal' = NoJournal /\ archive' = archive
    BY <1>0, <1>5, ServiceKeeps
  <2>3. UNCHANGED AtHand /\ UNCHANGED Unsettled
    BY <1>5, <2>0 DEF Unsettled, StartService, CreateDatabase, CreateLake, WriteRows, WriteLake, StopService,
       control, starting, AtHand
  <2>1. Outside = Live /\ Outside' = Live' /\ UNCHANGED Offered
    BY <1>3, <2>0, <2>3, PhaseOfNoJournal
  <2>2. \/ ~serving /\ serving' /\ UNCHANGED live
        \/ serving /\ serving'
        \/ serving /\ ~serving' /\ UNCHANGED live
    BY <1>5 DEF StartService, CreateDatabase, CreateLake, WriteRows, WriteLake, StopService
  <2> QED
    BY <2>1, <2>2, <2>3, LiveKept DEF Swap!Next, Swap!Open, Swap!Use, Swap!Close
<1>6. CASE Crash
  <2>1. CASE serving
    <3>1. UNCHANGED <<journal, archive, rows, present, catalogue, target, temp>> /\ journal = NoJournal
      BY <1>0, <1>6, <2>1, CrashKeeps
    <3>5. UNCHANGED AtHand /\ UNCHANGED Unsettled
      BY <1>0, <1>6, <2>1, <3>1 DEF Crash, StartFits, AtHand, Unsettled
    <3>2. LiveOf("database")' = LiveOf("database") /\ LiveOf("market")' = LiveOf("market")
      BY <3>1 DEF LiveOf
    <3>3. Live' = Live
      BY <3>2, ComponentsAre DEF Live
    <3>4. UNCHANGED <<Outside, Offered>>
      BY <1>3, <3>1, <3>3, <3>5, PhaseOfNoJournal
    <3> QED
      BY <1>4, <2>1, <3>4, <3>5 DEF Swap!Next, Swap!Use, Swap!Close
  <2>2. CASE ~serving
    <3>1. UNCHANGED <<live, serving, journal, archive>>
      BY <1>0, <1>6, <2>2, CrashKeeps
    <3>2. ~Unsettled'
      BY <1>6 DEF Crash, Unsettled
    <3>3. UNCHANGED Outside
      BY <1>3, <3>1, LiveKept
    <3> QED
      BY <3>1, <3>2, <3>3 DEF Swap!Next, Swap!Backup, Swap!Skip, Unsettled
  <2> QED
    BY <2>1, <2>2
<1>7. CASE CopyDatabase \/ HoldMarketFiles
  <2>1. UNCHANGED <<live, serving, journal>>
    BY <1>0, <1>7, BackupKeeps
  <2>2. UNCHANGED Unsettled
    BY <1>7 DEF CopyDatabase, HoldMarketFiles, control, starting, Unsettled
  <2> QED
    BY <1>3, <2>1, <2>2, LiveKept DEF Swap!Next, Swap!Backup
<1>8. CASE WriteJournal
  <2>1. journal = NoJournal /\ journal'.phase = "prepared" /\ journal'.original = Live
        /\ serving' = serving
    BY <1>0, <1>8, WriteJournalKeeps
  <2>2. UNCHANGED Unsettled
    BY <1>8 DEF WriteJournal, Unsettled
  <2> QED
    BY <1>3, <2>1, <2>2, PhaseOfNoJournal DEF Swap!Next, Swap!Backup
<1>15. CASE (BeginRestore \/ PrepareStep) /\ ~WriteJournal
  <2>1. /\ UNCHANGED <<serving, journal>> /\ journal = NoJournal /\ ~serving
        /\ RequeueExpiredLeases \/ UNCHANGED live
    BY <1>15, PrepareKeeps
  <2>2. Outside = Live /\ Offered = AtHand /\ Outside' = Live' /\ Offered' = AtHand'
    BY <1>3, <2>1, PhaseOfNoJournal
  <2>3. CASE UNCHANGED live
    <3>1. UNCHANGED Outside
      BY <2>2, <2>3, LiveKept
    <3>2. CASE Unsettled /\ ~Unsettled'
      BY <2>1, <3>1, <3>2 DEF Swap!Next, Swap!Skip
    <3>3. CASE ~Unsettled /\ Unsettled'
      <4>1. BeginRestore
        BY <1>15, <3>3 DEF PrepareStep, RequeueExpiredLeases, SaveRecoveryArchive, StageBackup,
           AbandonRestore, Unsettled
      <4>2. archive # {} /\ AtHand = archive /\ AtHand' = archive
        BY <3>3, <4>1 DEF BeginRestore, Idle, AtHand, Unsettled
      <4> QED
        BY <2>1, <2>2, <3>1, <3>3, <4>2 DEF Swap!Next, Swap!Begin
    <3>4. CASE Unsettled' = Unsettled
      BY <2>1, <3>1, <3>4 DEF Swap!Next, Swap!Backup
    <3> QED
      BY <3>2, <3>3, <3>4 DEF Unsettled
  <2>4. CASE RequeueExpiredLeases /\ rows' = rows + 1
    <3>1. /\ "database" \in present /\ bundle # {} /\ prep = "locked" /\ prep' = "requeued"
          /\ UNCHANGED <<lakeVars, present, bundle>>
      BY <1>0, <2>4 DEF RequeueExpiredLeases, StartFits
    <3>2. Offered' = Offered /\ Offered # {}
      BY <2>2, <3>1 DEF AtHand
    <3>3. PICK db \in Databases : db = [catalogue |-> catalogue, rows |-> rows]
      BY <1>0 DEF DirectoryInv, Databases, Typed, LakeTypeOK
    <3>4. LiveOf("database") = {db}
      BY <3>1, <3>3 DEF LiveOf, Database
    <3>5. LiveOf("database")' = {[db EXCEPT !.rows = @ + 1]}
      BY <2>4, <3>1, <3>3 DEF LiveOf, Database, lakeVars
    <3>6. LiveOf("market")' = LiveOf("market")
      BY <3>1 DEF LiveOf, lakeVars
    <3>7. Live' = [Live EXCEPT !["database"] = {[db EXCEPT !.rows = @ + 1]}]
      <4>1. PICK new : new = {[db EXCEPT !.rows = @ + 1]}
        OBVIOUS
      <4>2. Live' = [c \in Components |-> IF c = "database" THEN new ELSE LiveOf(c)]
        BY <3>5, <3>6, <4>1, ComponentsAre DEF Live
      <4>3. [Live EXCEPT !["database"] = new]
              = [c \in Components |-> IF c = "database" THEN new ELSE LiveOf(c)]
        BY DEF Live
      <4> QED
        BY <4>1, <4>2, <4>3
    <3>8. db \in Outside["database"]
      BY <2>2, <3>4, ComponentsAre DEF Live
    <3> QED
      BY <2>1, <2>2, <3>1, <3>2, <3>7, <3>8 DEF Swap!Next, Swap!Settle, Unsettled
  <2>5. CASE RequeueExpiredLeases /\ rows' = rows
    <3>1. UNCHANGED live
      BY <2>5 DEF RequeueExpiredLeases, live
    <3> QED
      BY <2>3, <3>1
  <2>6. RequeueExpiredLeases => rows' = rows \/ rows' = rows + 1
    BY DEF RequeueExpiredLeases
  <2> QED
    BY <2>1, <2>3, <2>4, <2>5, <2>6
<1>9. CASE (RestoreStep /\ ~Commit) \/ (RecoveryStep /\ ~RolledBack)
  <2>1. /\ journal.phase = "prepared" /\ journal'.phase = "prepared" /\ serving' = serving
        /\ journal'.original = journal.original /\ journal'.installed = journal.installed
    BY <1>0, <1>9, StillUndecided
  <2> QED
    BY <1>3, <1>9, <2>1, NoOtherRestore DEF Unsettled
<1>10. CASE Commit
  <2>1. /\ journal.phase = "prepared" /\ ~serving /\ ~serving' /\ journal'.phase = "committed"
        /\ journal'.original = journal.original /\ journal'.installed = journal.installed
    BY <1>0, <1>10, CommitKeeps
  <2>2. Outside' = journal'.installed
    <3>1. journal'.phase = "committed" => Live' = journal'.installed
      BY <1>1 DEF DirectoryInv, JournalFits
    <3> QED
      BY <1>3, <2>1, <3>1
  <2>3. prep = "none" /\ prep' = "none"
    BY <1>10, NoOtherRestore DEF RestoreStep
  <2> QED
    BY <1>3, <2>1, <2>2, <2>3 DEF Swap!Next, Swap!Swap, Unsettled
<1>11. CASE CleanupStep
  <2>1. UNCHANGED <<live, backup, serving>> /\ journal.phase \in Final
        /\ (journal' = journal \/ journal' = NoJournal)
    BY <1>0, <1>11, CleanupKeeps
  <2>2. journal.phase # "prepared" /\ journal'.phase # "prepared" /\ AtHand' = AtHand
    BY <1>11, <2>1, NoOtherRestore, PhaseOfNoJournal DEF Final, backup, AtHand
  <2> QED
    BY <1>3, <1>11, <2>1, <2>2, NoOtherRestore, LiveKept DEF Unsettled
<1>12. CASE BeginRecovery
  <2>1. UNCHANGED <<live, backup, serving, journal>>
    BY <1>0, <1>12, BeginRecoveryKeeps
  <2>2. AtHand' = AtHand
    BY <1>12, <2>1, NoOtherRestore DEF backup, AtHand
  <2> QED
    BY <1>3, <1>12, <2>1, <2>2, NoOtherRestore, LiveKept DEF Unsettled
<1>13. CASE RolledBack
  <2>1. /\ journal.phase = "prepared" /\ ~serving /\ ~serving' /\ journal'.phase = "rolled_back"
        /\ journal'.original = journal.original
    BY <1>0, <1>13, RolledBackKeeps
  <2>3. prep = "none" /\ prep' = "none"
    BY <1>13, NoOtherRestore DEF RecoveryStep
  <2>2. Outside' = journal'.original
    <3>1. journal'.phase = "rolled_back" => Live' = journal'.original
      BY <1>1 DEF DirectoryInv, JournalFits
    <3> QED
      BY <1>3, <2>1, <3>1
  <2> QED
    BY <1>3, <1>4, <2>1, <2>2, <2>3 DEF Swap!Next, Swap!Backup, Unsettled
<1>14. CASE UNCHANGED vars
  <2>1. UNCHANGED <<live, serving, journal, AtHand>>
    BY <1>14 DEF vars, backup, control, starting, AtHand
  <2>2. UNCHANGED Unsettled
    BY <1>14 DEF vars, control, starting, Unsettled
  <2> QED
    BY <1>3, <2>1, <2>2, LiveKept
<1> QED
  BY <1>5, <1>6, <1>7, <1>8, <1>9, <1>10, <1>11, <1>12, <1>13, <1>14, <1>15 DEF Next

(* Seen from outside, everything a restore and its recoveries do, wherever *)
(* they are cut short, is one exchange of the pair for the backup the      *)
(* restore was given, while no service runs, and before it at most one     *)
(* transaction, which requeues the tasks of dead services                  *)
(* (restore_backup, requeue_expired_leases_for_offline_snapshot,           *)
(* recover_restore).                                                       *)
THEOREM DirectoryImplementsSwap == Spec => ImplementsSwap
<1>1. Sound /\ [Next]_vars => [Swap!Next]_<<Outside, serving, Offered, Unsettled>>
  BY EveryStepIsSwapOrLess
<1> QED
  BY <1>1, DirectoryIsSound, PTL DEF Spec, ImplementsSwap
================================================================================
