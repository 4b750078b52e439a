---------------------------- MODULE Identifiers -----------------------------
(***************************************************************************)
(* Identifiers that are kept in the bits of a number (BitField): SteamID,  *)
(* GameID, GlobalID, and the job ids made of the latter. A number is the   *)
(* set of its bits, so that offsets and sizes are those of the code.       *)
(***************************************************************************)
EXTENDS Naturals, Sequences, FiniteSets

CONSTANTS
    FieldValues,    \* what fields are set to, as bits; some are too wide for their field
    Sequences,  \* values the process' sequence of job ids may have by now, all below 2^30
    MaxSteps    \* bound on the fields set and on the job ids made, which have 20 bits

IdAssumption == Sequences \subseteq 0..(2^30) /\ MaxSteps \in 0..(2^20)

VARIABLES
    idKind,   \* the class
    idBits,   \* BitField::data
    idSet,    \* field -> what it was set to last
    idSteps,  \* how many fields were set
    jobSeq,   \* the atomic counter
    jobIds    \* ids that were made

idVars == <<idKind, idBits, idSet, idSteps, jobSeq, jobIds>>

Field(name, offset, count) == [name |-> name, offset |-> offset, count |-> count]

SteamID == {Field("AccountId", 0, 32), Field("AccountInstance", 32, 20),
            Field("AccountType", 52, 4), Field("Universe", 56, 8)}
GameID == {Field("AppId", 0, 24), Field("AppType", 24, 8)}
GlobalID == {Field("SequentialCount", 0, 20), Field("StartTimeSeconds", 20, 30),
             Field("ProcessID", 50, 4), Field("BoxID", 54, 10)}

Fields == CASE idKind = "SteamID" -> SteamID [] idKind = "GameID" -> GameID
            [] idKind = "GlobalID" -> GlobalID

\* valueMask(), and a value or a mask that is shifted.
ValueMask(count) == 0..(count - 1)
Up(bits, offset) == {b + offset : b \in bits}

\* BitField::get(), BitField::set().
GetBits(data, f) == {b \in ValueMask(f.count) : b + f.offset \in data}
SetBits(data, f, value) ==
    (data \ Up(ValueMask(f.count), f.offset)) \cup Up(value \cap ValueMask(f.count), f.offset)

Bits(n) == {b \in 0..30 : (n \div 2^b) % 2 = 1}

IdInit ==
    /\ idKind \in {"SteamID", "GameID", "GlobalID"} /\ idBits = {} /\ idSteps = 0
    /\ idSet = [f \in Fields |-> {}]
    /\ jobSeq \in Sequences /\ jobIds = << >>

----------------------------------------------------------------------------
\* An accessor's set().
SetField(f, value) ==
    /\ idSteps < MaxSteps /\ idSteps' = idSteps + 1
    /\ idBits' = SetBits(idBits, f, value) /\ idSet' = [idSet EXCEPT ![f] = value]
    /\ UNCHANGED <<idKind, jobSeq, jobIds>>

\* JobID(): the next number, and the time the process was started at.
JobID ==
    /\ Len(jobIds) < MaxSteps
    /\ jobSeq' = jobSeq + 1
    /\ LET count == CHOOSE f \in GlobalID : f.name = "SequentialCount"
           start == CHOOSE f \in GlobalID : f.name = "StartTimeSeconds"
       IN jobIds' = Append(jobIds, SetBits(SetBits({}, count, Bits(jobSeq')), start, {0, 29}))
    /\ UNCHANGED <<idKind, idBits, idSet, idSteps>>

IdNext ==
    \/ \E f \in Fields, value \in FieldValues : SetField(f, value)
    \/ JobID

IdSpec == IdInit /\ [][IdNext]_idVars

----------------------------------------------------------------------------
\* Type invariant.
IdTypeOK == idBits \subseteq 0..63 /\ idSteps \in 0..MaxSteps

\* The fields of a number do not touch each other, whatever they are set to in whatever
\* order: each has the low bits of what it was set to last, and there are no other bits
\* (BitField.hpp:77-109, SteamID.hpp:53-115, GlobalID.hpp:35-38, GameID.hpp:46-47).
FieldsAreApart ==
    /\ \A f \in Fields : GetBits(idBits, f) = idSet[f] \cap ValueMask(f.count)
    /\ idBits = UNION {Up(GetBits(idBits, f), f.offset) : f \in Fields}

\* Jobs that are under way at the same time have different ids, also when the number does
\* not fit into its 20 bits any more (JobID.cpp:27-37).
JobsDiffer == \A i, j \in DOMAIN jobIds : i # j => jobIds[i] # jobIds[j]

=============================================================================
