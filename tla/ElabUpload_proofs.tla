------------------------- MODULE ElabUpload_proofs -------------------------
(***************************************************************************)
(* Proofs, for every set of results, templates and profiles and every      *)
(* bound, of what the ledger of an upload is good for: it never claims     *)
(* more than the server has, an upload that is reported is there, and what *)
(* is there twice is the trace of a failure.                               *)
(***************************************************************************)
EXTENDS ElabUpload, FiniteSetTheorems, SequenceTheorems, TLAPS

-----------------------------------------------------------------------------
(* Types.                                                                  *)

Disk == [content : 0..MaxChanges, csv : BOOLEAN, status : Terminal \cup {"running"}]
Experiment == [key : Key, tagged : BOOLEAN, copies : [Files -> Seq(0..MaxChanges)]]

\* The content of a file counts the times the file was resumed.
WorldTyped ==
    /\ disk \in [Results -> Disk]
    /\ \A r \in Results : disk[r].content <= changes
    /\ uploads \in 0..MaxUploads /\ faults \in 0..MaxFaults /\ changes \in 0..MaxChanges
ServerTyped == experiments \in Seq(Experiment)
RecordsTyped == ledger \in [Key -> Record] /\ rows \in [Results -> Seq(Numbers)]

\* The upload before it has a key, and from then on.
Looking == {"check", "hash"}
Sending == {"create", "created", "tag", "attach", "attached", "told"}
UploadTyped ==
    \/ upload = Idle
    \/ upload \in [step : Looking, result : Results, template : Templates, wanted : Profiles]
    \/ /\ upload = [step |-> upload.step, key |-> upload.key, files |-> upload.files,
                    made |-> upload.made, record |-> upload.record]
       /\ upload.step \in Sending
       /\ upload.key \in Key
       /\ upload.files \subseteq Files /\ upload.files # {}
       /\ upload.record \in Record

Typed == WorldTyped /\ ServerTyped /\ RecordsTyped /\ UploadTyped

-----------------------------------------------------------------------------
(* The ledger, the server and the upload.                                  *)

\* The thread's record is the one in the ledger, and says where the upload is.
InStep ==
    upload.step \in Sending =>
        /\ upload.record = ledger[upload.key]
        /\ upload.step \in {"create", "created"} => upload.record.experiment = None
        /\ upload.step = "created" => /\ upload.made \in 1..Len(experiments)
                                      /\ experiments[upload.made].key = upload.key
        /\ upload.step \in {"tag", "attach", "attached"} => upload.record.experiment # None
        /\ upload.step = "attached" =>
              /\ upload.made \in Files
              /\ experiments[upload.record.experiment].copies[upload.made] # <<>>
        /\ upload.step = "told" => /\ upload.record.status = "uploaded"
                                   /\ upload.files \subseteq upload.record.uploaded

LedgerInv == LedgerNeverAhead /\ InStep

-----------------------------------------------------------------------------
(* What a request does to the server.                                      *)

\* An experiment keeps its key, and a file that is there stays there.
Grown(e1, e2) ==
    /\ e2 \in Seq(Experiment)
    /\ Len(e1) <= Len(e2)
    /\ \A i \in 1..Len(e1) :
         /\ e2[i].key = e1[i].key
         /\ \A f \in Files : e1[i].copies[f] # <<>> => e2[i].copies[f] # <<>>

LEMMA NewIsExperiment ==
    ASSUME NEW k \in Key PROVE NewExperiment(k) \in Experiment
BY DEF NewExperiment, Experiment

LEMMA AppendGrows ==
    ASSUME NEW e \in Seq(Experiment), NEW x \in Experiment
    PROVE  /\ Grown(e, Append(e, x))
           /\ Len(Append(e, x)) = Len(e) + 1
           /\ Append(e, x)[Len(e) + 1] = x
           /\ \A i \in 1..Len(e) : Append(e, x)[i] = e[i]
BY DEF Grown

LEMMA UpdateGrows ==
    ASSUME NEW e \in Seq(Experiment), NEW i \in 1..Len(e), NEW x \in Experiment,
           x.key = e[i].key,
           \A f \in Files : e[i].copies[f] # <<>> => x.copies[f] # <<>>
    PROVE  Grown(e, [e EXCEPT ![i] = x])
<1>1. [e EXCEPT ![i] = x] \in Seq(Experiment) /\ Len([e EXCEPT ![i] = x]) = Len(e)
  BY ExceptSeq
<1>2. \A j \in 1..Len(e) : [e EXCEPT ![i] = x][j] = IF j = i THEN x ELSE e[j]
  OBVIOUS
<1>. QED
  BY <1>1, <1>2 DEF Grown

\* The experiment after one more copy of a file.
WithCopy(x, f, content) ==
    [x EXCEPT !.copies = [x.copies EXCEPT ![f] = Append(x.copies[f], content)]]

LEMMA CopyIsExperiment ==
    ASSUME NEW x \in Experiment, NEW f \in Files, NEW c \in 0..MaxChanges
    PROVE  /\ WithCopy(x, f, c) \in Experiment
           /\ WithCopy(x, f, c).key = x.key
           /\ Len(WithCopy(x, f, c).copies[f]) = Len(x.copies[f]) + 1
           /\ \A g \in Files \ {f} : WithCopy(x, f, c).copies[g] = x.copies[g]
<1>. DEFINE s == Append(x.copies[f], c)
            t == [x.copies EXCEPT ![f] = s]
<1>1. s \in Seq(0..MaxChanges) /\ Len(s) = Len(x.copies[f]) + 1
  BY DEF Experiment
<1>2. /\ t \in [Files -> Seq(0..MaxChanges)] /\ t[f] = s
      /\ \A g \in Files \ {f} : t[g] = x.copies[g]
  BY <1>1 DEF Experiment
<1>3. WithCopy(x, f, c) = [x EXCEPT !.copies = t]
  BY DEF WithCopy
<1>. HIDE DEF t, s
<1>. QED
  BY <1>1, <1>2, <1>3 DEF Experiment

LEMMA SentGrows ==
    ASSUME NEW i \in 1..Len(experiments), i = upload.record.experiment,
           NEW f \in Files, NEW c \in 0..MaxChanges, c = disk[upload.key.result].content,
           ServerTyped
    PROVE  /\ Grown(experiments, Sent(f))
           /\ Len(Sent(f)) = Len(experiments)
           /\ Len(Sent(f)[i].copies[f]) = Len(experiments[i].copies[f]) + 1
           /\ Sent(f)[i].copies[f] # <<>>
           /\ \A g \in Files \ {f} : Sent(f)[i].copies[g] = experiments[i].copies[g]
           /\ \A j \in 1..Len(experiments) \ {i} : Sent(f)[j] = experiments[j]
<1>. DEFINE x == WithCopy(experiments[i], f, c)
<1>1. experiments \in Seq(Experiment) /\ experiments[i] \in Experiment
  BY DEF ServerTyped
<1>2. Sent(f) = [experiments EXCEPT ![i] = x]
  BY DEF Sent, WithCopy
<1>3. /\ x \in Experiment /\ x.key = experiments[i].key
      /\ Len(x.copies[f]) = Len(experiments[i].copies[f]) + 1
      /\ \A g \in Files \ {f} : x.copies[g] = experiments[i].copies[g]
  BY <1>1, CopyIsExperiment
<1>4. x.copies[f] # <<>>
  <2>1. experiments[i].copies[f] \in Seq(0..MaxChanges)
    BY <1>1 DEF Experiment
  <2>2. Len(experiments[i].copies[f]) \in Nat
    BY <2>1
  <2>. HIDE DEF x
  <2>3. Len(x.copies[f]) # 0
    BY <1>3, <2>2
  <2>4. Len(<<>>) = 0
    OBVIOUS
  <2>. QED
    BY <2>3, <2>4, Zenon
<1>. HIDE DEF x
<1>5. Grown(experiments, [experiments EXCEPT ![i] = x])
  BY <1>1, <1>3, <1>4, UpdateGrows
<1>6. /\ Len([experiments EXCEPT ![i] = x]) = Len(experiments)
      /\ \A j \in 1..Len(experiments) :
           [experiments EXCEPT ![i] = x][j] = IF j = i THEN x ELSE experiments[j]
  BY <1>1, <1>3, ExceptSeq
<1>. QED
  BY <1>2, <1>3, <1>4, <1>5, <1>6

LEMMA TagGrows ==
    ASSUME NEW i \in 1..Len(experiments), ServerTyped
    PROVE  LET e == [experiments EXCEPT ![i].tagged = TRUE]
           IN  /\ Grown(experiments, e)
               /\ Len(e) = Len(experiments)
               /\ \A j \in 1..Len(experiments) : e[j].copies = experiments[j].copies
<1>. DEFINE x == [experiments[i] EXCEPT !.tagged = TRUE]
<1>1. experiments \in Seq(Experiment) /\ experiments[i] \in Experiment
  BY DEF ServerTyped
<1>2. /\ x \in Experiment /\ x.key = experiments[i].key
      /\ x.copies = experiments[i].copies
  BY <1>1 DEF Experiment
<1>3. [experiments EXCEPT ![i].tagged = TRUE] = [experiments EXCEPT ![i] = x]
  OBVIOUS
<1>. HIDE DEF x
<1>4. Grown(experiments, [experiments EXCEPT ![i] = x])
  BY <1>1, <1>2, UpdateGrows
<1>5. /\ Len([experiments EXCEPT ![i] = x]) = Len(experiments)
      /\ \A j \in 1..Len(experiments) :
           [experiments EXCEPT ![i] = x][j] = IF j = i THEN x ELSE experiments[j]
  BY <1>1, <1>2, ExceptSeq
<1>. QED
  BY <1>2, <1>3, <1>4, <1>5

-----------------------------------------------------------------------------
(* What the steps of the upload have in common.                            *)

IInv == Typed /\ LedgerInv /\ InventoryKnown

LEMMA SendingShape ==
    ASSUME UploadTyped, upload.step \in Sending
    PROVE  /\ upload = [step |-> upload.step, key |-> upload.key, files |-> upload.files,
                        made |-> upload.made, record |-> upload.record]
           /\ upload.key \in Key
           /\ upload.files \subseteq Files /\ upload.files # {}
           /\ upload.record \in Record
BY DEF UploadTyped, Idle, Looking, Sending

LEMMA LookingShape ==
    ASSUME UploadTyped, upload.step \in Looking
    PROVE  upload \in [step : Looking, result : Results, template : Templates,
                       wanted : Profiles]
BY DEF UploadTyped, Idle, Looking, Sending

LEMMA NumbersGrow ==
    ASSUME ServerTyped, Grown(experiments, experiments')
    PROVE  Numbers \subseteq Numbers' /\ Record \subseteq Record' /\ ServerTyped'
<1>1. Len(experiments) \in Nat /\ Len(experiments') \in Nat
  BY DEF ServerTyped, Grown
<1>2. Numbers \subseteq Numbers'
  BY <1>1 DEF Numbers, Grown
<1>. QED
  BY <1>2 DEF Record, Grown, ServerTyped

\* A record that is true of an experiment stays true of it.
LEMMA HoldsOn ==
    ASSUME ServerTyped, Grown(experiments, experiments'),
           NEW k \in Key, NEW S \in SUBSET Files, NEW i \in Numbers, Holds(i, k, S)
    PROVE  Holds(i, k, S)'
BY DEF Holds, Numbers, None, Grown

\* A record is true of the server, and continues the one that it replaces.
TrueRecord(k, r) ==
    /\ r \in Record
    /\ r.experiment # None => Holds(r.experiment, k, r.uploaded)
    /\ r.uploaded # {} => r.experiment # None
    /\ r.status = "uploaded" => r.uploaded # {}
Continues(old, r) ==
    /\ old.experiment # None => r.experiment = old.experiment
    /\ old.uploaded \subseteq r.uploaded

LEMMA LedgerStep ==
    ASSUME IInv, Grown(experiments, experiments'),
           \/ UNCHANGED ledger
           \/ \E k \in Key, r \in Record' :
                /\ ledger' = [ledger EXCEPT ![k] = r]
                /\ TrueRecord(k, r)' /\ Continues(ledger[k], r)
    PROVE  /\ ledger' \in [Key -> Record'] /\ LedgerNeverAhead'
           /\ UNCHANGED rows => RecordsTyped' /\ InventoryKnown'
<1>. USE DEF IInv, LedgerInv, Typed, RecordsTyped
<1>1. Numbers \subseteq Numbers' /\ Record \subseteq Record' /\ ServerTyped'
  BY NumbersGrow
<1>2. \A k \in Key : TrueRecord(k, ledger[k])'
  <2>1. \A k \in Key : ledger[k] \in Record /\ TrueRecord(k, ledger[k])
    BY DEF TrueRecord, LedgerNeverAhead
  <2>2. ASSUME NEW k \in Key, ledger'[k] = ledger[k] PROVE TrueRecord(k, ledger[k])'
    <3>1. ledger[k].experiment \in Numbers /\ ledger[k].uploaded \in SUBSET Files
      BY <2>1 DEF Record
    <3>2. ledger[k].experiment # None =>
             Holds(ledger[k].experiment, k, ledger[k].uploaded)'
      BY <2>1, <2>2, <3>1, HoldsOn DEF TrueRecord
    <3>. QED
      BY <1>1, <2>1, <2>2, <3>2 DEF TrueRecord
  <2>. QED
    BY <2>2
<1>3. \A k \in Key : Continues(ledger[k], ledger'[k])
  BY DEF Continues
<1>4. ledger' \in [Key -> Record']
  BY <1>1
<1>5. LedgerNeverAhead'
  BY <1>2 DEF LedgerNeverAhead, TrueRecord
<1>6. ASSUME UNCHANGED rows PROVE RecordsTyped' /\ InventoryKnown'
  <2>1. RecordsTyped'
    BY <1>1, <1>4, <1>6
  <2>2. \A i, k : i # None /\ k \in Key /\ Kept(i, k) => Kept(i, k)'
    BY <1>3 DEF Kept, Continues
  <2>3. \A r \in Results : Mentioned(r)' = Mentioned(r) /\ None \notin Mentioned(r)
    BY <1>6 DEF Mentioned
  <2>4. InventoryKnown'
    <3>1. ASSUME NEW r \in Results, NEW i \in Mentioned(r)'
          PROVE  \E k \in Key : Kept(i, k)'
      <4>1. PICK k \in Key : Kept(i, k)
        BY <2>3, <3>1 DEF InventoryKnown
      <4>. QED
        BY <2>2, <2>3, <3>1, <4>1
    <3>. QED
      BY <3>1 DEF InventoryKnown
  <2>. QED
    BY <2>1, <2>4
<1>. QED
  BY <1>4, <1>5, <1>6

LEMMA ServerQuiet ==
    ASSUME IInv, UNCHANGED <<ledger, experiments, rows>>
    PROVE  /\ Grown(experiments, experiments')
           /\ ServerTyped' /\ RecordsTyped' /\ LedgerNeverAhead' /\ InventoryKnown'
<1>1. Grown(experiments, experiments')
  BY DEF IInv, Typed, ServerTyped, Grown
<1>. QED
  BY <1>1, LedgerStep, NumbersGrow DEF IInv, Typed

\* The upload is over: nothing is claimed of it any more.
LEMMA NoUpload ==
    ASSUME upload' = Idle PROVE UploadTyped' /\ InStep'
BY DEF UploadTyped, InStep, Idle, Sending

LEMMA WorldQuiet ==
    ASSUME WorldTyped, UNCHANGED <<disk, changes, uploads>>, Fault \/ UNCHANGED faults
    PROVE  WorldTyped'
BY BoundsAssumption DEF WorldTyped, Fault

-----------------------------------------------------------------------------
(* The steps.                                                              *)

LEMMA StartStep == ASSUME IInv, Start PROVE IInv'
<1>1. WorldTyped'
  BY BoundsAssumption DEF IInv, Typed, WorldTyped, Start, world
<1>2. ServerTyped' /\ RecordsTyped' /\ LedgerNeverAhead' /\ InventoryKnown'
  BY ServerQuiet DEF Start, world
<1>3. upload' \in [step : Looking, result : Results, template : Templates,
                   wanted : Profiles]
  BY DEF Start, Looking
<1>4. InStep'
  BY <1>3 DEF InStep, Looking, Sending
<1>. QED
  BY <1>1, <1>2, <1>3, <1>4 DEF IInv, Typed, LedgerInv, UploadTyped

LEMMA CheckStep == ASSUME IInv, Check PROVE IInv'
<1>1. WorldTyped'
  BY WorldQuiet DEF IInv, Typed, Check, world
<1>2. ServerTyped' /\ RecordsTyped' /\ LedgerNeverAhead' /\ InventoryKnown'
  BY ServerQuiet DEF Check, world
<1>3. CASE upload' = Idle
  BY <1>1, <1>2, <1>3, NoUpload DEF IInv, Typed, LedgerInv
<1>4. CASE upload' = [upload EXCEPT !.step = "hash"]
  <2>1. upload' \in [step : Looking, result : Results, template : Templates,
                     wanted : Profiles]
    BY <1>4, LookingShape DEF Check, Looking, IInv, Typed
  <2>2. InStep'
    BY <2>1 DEF InStep, Looking, Sending
  <2>. QED
    BY <1>1, <1>2, <2>1, <2>2 DEF IInv, Typed, LedgerInv, UploadTyped
<1>. QED
  BY <1>3, <1>4 DEF Check

\* The key of the file as it is now.
LEMMA KeyNowTyped ==
    ASSUME WorldTyped, NEW r \in Results, NEW t \in Templates
    PROVE  KeyNow(r, t) \in Key
BY DEF WorldTyped, Disk, KeyNow, Key

LEMMA HashStep == ASSUME IInv, Hash PROVE IInv'
<1>. USE DEF IInv, Typed, LedgerInv
<1>1. WorldTyped' /\ UNCHANGED <<experiments, rows>>
  BY WorldQuiet DEF Hash, world
<1>2. upload \in [step : Looking, result : Results, template : Templates,
                  wanted : Profiles]
  BY LookingShape DEF Hash, Looking
<1>3. PICK k \in Key : k = KeyNow(upload.result, upload.template)
  BY <1>2, KeyNowTyped
<1>4. PICK files \in SUBSET Files : files = Attachments(upload.result, upload.wanted)
  BY <1>2, ProfilesAssumption DEF Attachments
<1>5. PICK old \in Record : old = ledger[k] /\ TrueRecord(k, old)
  BY <1>3 DEF RecordsTyped, TrueRecord, LedgerNeverAhead
<1>6. PICK record \in Record : /\ record = Continued(k)
                               /\ record.experiment = old.experiment
                               /\ record.uploaded = old.uploaded
                               /\ record.status = "pending"
  <2>1. Continued(k) = [old EXCEPT !.status = "pending"]
    BY <1>5 DEF Continued
  <2>2. [old EXCEPT !.status = "pending"] \in Record
    BY DEF Record
  <2>. QED
    BY <2>1, <2>2 DEF Record
<1>7. \/ upload' = Idle /\ UNCHANGED ledger
      \/ /\ files # {} /\ Skips(k, files)
         /\ upload' = Uploading(k, files, "told", old)
         /\ UNCHANGED ledger
      \/ /\ files # {} /\ Saved(k, record)
         /\ upload' = Uploading(k, files,
                        IF record.experiment = None THEN "create" ELSE "attach", record)
  BY <1>3, <1>4, <1>5, <1>6 DEF Hash
<1>8. Record' = Record
  BY <1>1 DEF Record, Numbers
<1>9. CASE upload' = Idle /\ UNCHANGED ledger
  BY <1>1, <1>9, ServerQuiet, NoUpload
<1>10. CASE /\ files # {} /\ Skips(k, files)
            /\ upload' = Uploading(k, files, "told", old)
            /\ UNCHANGED ledger
  <2>1. ServerTyped' /\ RecordsTyped' /\ LedgerNeverAhead' /\ InventoryKnown'
    BY <1>1, <1>10, ServerQuiet
  <2>2. UploadTyped'
    BY <1>10, <1>8 DEF UploadTyped, Uploading, Sending
  <2>3. InStep'
    BY <1>5, <1>10 DEF InStep, Uploading, Skips
  <2>. QED
    BY <1>1, <2>1, <2>2, <2>3
<1>11. CASE /\ files # {} /\ Saved(k, record)
            /\ upload' = Uploading(k, files,
                           IF record.experiment = None THEN "create" ELSE "attach", record)
  <2>1. TrueRecord(k, record)' /\ Continues(ledger[k], record)
    BY <1>1, <1>5, <1>6, <1>8 DEF TrueRecord, Continues, Holds
  <2>2. Grown(experiments, experiments') /\ ServerTyped'
    BY <1>1 DEF ServerTyped, Grown
  <2>3. RecordsTyped' /\ LedgerNeverAhead' /\ InventoryKnown'
    BY <1>1, <1>8, <1>11, <2>1, <2>2, LedgerStep DEF Saved
  <2>4. UploadTyped'
    BY <1>8, <1>11 DEF UploadTyped, Uploading, Sending
  <2>5. ledger'[k] = record
    BY <1>11 DEF Saved, RecordsTyped
  <2>6. InStep'
    BY <1>11, <2>5 DEF InStep, Uploading
  <2>. QED
    BY <1>1, <2>2, <2>3, <2>4, <2>6
<1>. QED
  BY <1>7, <1>9, <1>10, <1>11

LEMMA CreateStep == ASSUME IInv, Create PROVE IInv'
<1>. USE DEF IInv, Typed, LedgerInv
<1>1. WorldTyped' /\ UNCHANGED <<ledger, rows>> /\ upload.step = "create"
  BY WorldQuiet DEF Create, world
<1>2. PICK n \in Nat : n = Len(experiments)
  BY DEF ServerTyped
<1>3. /\ upload.key \in Key /\ upload.record \in Record
      /\ upload.record = ledger[upload.key] /\ upload.record.experiment = None
      /\ upload.files \subseteq Files /\ upload.files # {}
  BY <1>1, SendingShape DEF Sending, InStep
<1>4. /\ Grown(experiments, experiments') /\ Len(experiments') = n + 1
      /\ experiments'[n + 1].key = upload.key
  BY <1>2, <1>3, AppendGrows, NewIsExperiment DEF Create, ServerTyped, NewExperiment
<1>5. upload' = [step |-> "created", key |-> upload.key, files |-> upload.files,
                 made |-> n + 1, record |-> upload.record]
  BY <1>1, <1>4, SendingShape DEF Create, Sending
<1>6. RecordsTyped' /\ LedgerNeverAhead' /\ InventoryKnown' /\ ServerTyped'
  BY <1>1, <1>4, LedgerStep, NumbersGrow
<1>7. UploadTyped'
  BY <1>3, <1>4, <1>5, NumbersGrow DEF UploadTyped, Sending
<1>8. InStep'
  BY <1>1, <1>2, <1>3, <1>4, <1>5 DEF InStep
<1>. QED
  BY <1>1, <1>6, <1>7, <1>8

LEMMA SaveCreatedStep == ASSUME IInv, SaveCreated PROVE IInv'
<1>. USE DEF IInv, Typed, LedgerInv
<1>1. WorldTyped' /\ UNCHANGED <<experiments, rows>> /\ upload.step = "created"
  BY WorldQuiet DEF SaveCreated, world
<1>2. PICK k \in Key, old \in Record, i \in 1..Len(experiments) :
        /\ k = upload.key /\ old = upload.record /\ old = ledger[k] /\ i = upload.made
        /\ old.experiment = None /\ experiments[i].key = k
        /\ upload.files \subseteq Files /\ upload.files # {}
  BY <1>1, SendingShape DEF Sending, InStep
<1>3. PICK record \in Record :
        /\ record = [old EXCEPT !.experiment = i]
        /\ record.experiment = i /\ record.uploaded = old.uploaded
        /\ record.status = old.status
  <2>1. [old EXCEPT !.experiment = i] \in Record
    BY DEF Record, Numbers
  <2>. QED
    BY <2>1 DEF Record
<1>4. /\ Saved(k, record)
      /\ upload' = [step |-> "tag", key |-> k, files |-> upload.files,
                    made |-> upload.made, record |-> record]
  BY <1>1, <1>2, <1>3, SendingShape DEF SaveCreated, Sending
<1>5. Record' = Record /\ Len(experiments) \in Nat
  BY <1>1 DEF Record, Numbers, ServerTyped
<1>6. TrueRecord(k, record)' /\ Continues(ledger[k], record)
  <2>1. old.uploaded = {} /\ old.status # "uploaded"
    BY <1>2 DEF LedgerNeverAhead
  <2>. QED
    BY <1>1, <1>2, <1>3, <1>5, <2>1 DEF TrueRecord, Continues, Holds, None
<1>7. Grown(experiments, experiments') /\ ServerTyped'
  BY <1>1 DEF ServerTyped, Grown
<1>8. RecordsTyped' /\ LedgerNeverAhead' /\ InventoryKnown'
  BY <1>1, <1>4, <1>5, <1>6, <1>7, LedgerStep DEF Saved
<1>9. UploadTyped'
  BY <1>2, <1>4, <1>5 DEF UploadTyped, Sending
<1>10. InStep'
  <2>1. ledger'[k] = record
    BY <1>4 DEF Saved, RecordsTyped
  <2>2. record.experiment # None
    BY <1>3, <1>5 DEF None
  <2>. QED
    BY <1>4, <2>1, <2>2 DEF InStep
<1>. QED
  BY <1>1, <1>7, <1>8, <1>9, <1>10

LEMMA TagStep == ASSUME IInv, Tag PROVE IInv'
<1>. USE DEF IInv, Typed, LedgerInv
<1>1. WorldTyped' /\ UNCHANGED <<ledger, rows>> /\ upload.step = "tag"
  BY WorldQuiet DEF Tag, world
<1>2. /\ upload.key \in Key /\ upload.record \in Record
      /\ upload.record = ledger[upload.key] /\ upload.record.experiment # None
      /\ upload.files \subseteq Files /\ upload.files # {}
  BY <1>1, SendingShape DEF Sending, InStep
<1>3. upload.record.experiment \in 1..Len(experiments)
  BY <1>2 DEF Record, Numbers
<1>4. Grown(experiments, experiments')
  <2>1. CASE experiments' = [experiments EXCEPT ![upload.record.experiment].tagged = TRUE]
    BY <1>3, <2>1, TagGrows
  <2>2. CASE UNCHANGED experiments
    BY <2>2 DEF ServerTyped, Grown
  <2>. QED
    BY <2>1, <2>2 DEF Tag
<1>5. upload' = [step |-> "attach", key |-> upload.key, files |-> upload.files,
                 made |-> upload.made, record |-> upload.record]
  BY <1>1, SendingShape DEF Tag, Sending
<1>6. RecordsTyped' /\ LedgerNeverAhead' /\ InventoryKnown' /\ ServerTyped'
  BY <1>1, <1>4, LedgerStep, NumbersGrow
<1>7. UploadTyped'
  BY <1>2, <1>4, <1>5, NumbersGrow DEF UploadTyped, Sending
<1>8. InStep'
  BY <1>1, <1>2, <1>5 DEF InStep
<1>. QED
  BY <1>1, <1>6, <1>7, <1>8

\* A request to attach one of the files that are left.
LEMMA AttachTyped ==
    ASSUME IInv, upload.step \in {"attach", "attached"}
    PROVE  /\ upload.record.experiment \in 1..Len(experiments)
           /\ disk[upload.key.result].content \in 0..MaxChanges
           /\ NextFile \subseteq Left /\ Left \subseteq Files
<1>. USE DEF IInv, Typed, LedgerInv
<1>1. /\ upload.key \in Key /\ upload.record \in Record
      /\ upload.record.experiment # None /\ upload.files \subseteq Files
  BY SendingShape DEF Sending, InStep
<1>2. upload.record.experiment \in 1..Len(experiments)
  BY <1>1 DEF Record, Numbers
<1>3. disk[upload.key.result].content \in 0..MaxChanges
  BY <1>1 DEF Key, WorldTyped, Disk
<1>. QED
  BY <1>1, <1>2, <1>3 DEF Left, NextFile

LEMMA AttachStep == ASSUME IInv, Attach PROVE IInv'
<1>. USE DEF IInv, Typed, LedgerInv
<1>1. WorldTyped' /\ UNCHANGED <<ledger, rows>> /\ upload.step = "attach"
  BY WorldQuiet DEF Attach, world
<1>2. /\ upload.key \in Key /\ upload.record \in Record
      /\ upload.record = ledger[upload.key] /\ upload.record.experiment # None
      /\ upload.files \subseteq Files /\ upload.files # {}
  BY <1>1, SendingShape DEF Sending, InStep
<1>3. PICK f \in NextFile : /\ experiments' = Sent(f)
                           /\ upload' = [upload EXCEPT !.step = "attached", !.made = f]
  BY DEF Attach
<1>4. f \in Files /\ Grown(experiments, experiments')
      /\ experiments'[upload.record.experiment].copies[f] # <<>>
  BY <1>1, <1>3, AttachTyped, SentGrows
<1>5. upload' = [step |-> "attached", key |-> upload.key, files |-> upload.files,
                 made |-> f, record |-> upload.record]
  BY <1>1, <1>3, SendingShape DEF Sending
<1>6. RecordsTyped' /\ LedgerNeverAhead' /\ InventoryKnown' /\ ServerTyped'
  BY <1>1, <1>4, LedgerStep, NumbersGrow
<1>7. UploadTyped'
  BY <1>2, <1>4, <1>5, NumbersGrow DEF UploadTyped, Sending
<1>8. InStep'
  BY <1>1, <1>2, <1>4, <1>5 DEF InStep
<1>. QED
  BY <1>1, <1>6, <1>7, <1>8

LEMMA SaveAttachedStep == ASSUME IInv, SaveAttached PROVE IInv'
<1>. USE DEF IInv, Typed, LedgerInv
<1>1. WorldTyped' /\ UNCHANGED <<experiments, rows>> /\ upload.step = "attached"
  BY WorldQuiet DEF SaveAttached, world
<1>2. PICK k \in Key, old \in Record, f \in Files :
        /\ k = upload.key /\ old = upload.record /\ old = ledger[k] /\ f = upload.made
        /\ old.experiment # None
        /\ experiments[old.experiment].copies[f] # <<>>
        /\ upload.files \subseteq Files /\ upload.files # {}
  BY <1>1, SendingShape DEF Sending, InStep
<1>3. PICK record \in Record :
        /\ record = [old EXCEPT !.uploaded = @ \cup {f}]
        /\ record.experiment = old.experiment /\ record.uploaded = old.uploaded \cup {f}
        /\ record.status = old.status
  <2>1. [old EXCEPT !.uploaded = @ \cup {f}] \in Record
    BY DEF Record
  <2>. QED
    BY <2>1 DEF Record
<1>4. /\ Saved(k, record)
      /\ upload' = [step |-> "attach", key |-> k, files |-> upload.files,
                    made |-> None, record |-> record]
  BY <1>1, <1>2, <1>3, SendingShape DEF SaveAttached, Sending
<1>5. Record' = Record
  BY <1>1 DEF Record, Numbers
<1>6. TrueRecord(k, record)' /\ Continues(ledger[k], record)
  <2>1. Holds(old.experiment, k, old.uploaded)
    BY <1>2 DEF LedgerNeverAhead
  <2>2. Holds(old.experiment, k, old.uploaded \cup {f})
    BY <1>2, <2>1 DEF Holds
  <2>. QED
    BY <1>1, <1>2, <1>3, <1>5, <2>2 DEF TrueRecord, Continues, Holds
<1>7. Grown(experiments, experiments') /\ ServerTyped'
  BY <1>1 DEF ServerTyped, Grown
<1>8. RecordsTyped' /\ LedgerNeverAhead' /\ InventoryKnown'
  BY <1>1, <1>4, <1>5, <1>6, <1>7, LedgerStep DEF Saved
<1>9. UploadTyped'
  BY <1>2, <1>4, <1>5 DEF UploadTyped, Sending
<1>10. InStep'
  <2>1. ledger'[k] = record
    BY <1>4 DEF Saved, RecordsTyped
  <2>. QED
    BY <1>2, <1>3, <1>4, <2>1 DEF InStep
<1>. QED
  BY <1>1, <1>7, <1>8, <1>9, <1>10

LEMMA FinishStep == ASSUME IInv, Finish PROVE IInv'
<1>. USE DEF IInv, Typed, LedgerInv
<1>1. WorldTyped' /\ UNCHANGED <<experiments, rows>> /\ upload.step = "attach"
      /\ upload.files \subseteq upload.record.uploaded
  BY WorldQuiet DEF Finish, world, Left
<1>2. PICK k \in Key, old \in Record :
        /\ k = upload.key /\ old = upload.record /\ old = ledger[k]
        /\ upload.files \subseteq Files /\ upload.files # {}
  BY <1>1, SendingShape DEF Sending, InStep
<1>3. PICK record \in Record :
        /\ record = [old EXCEPT !.status = "uploaded"]
        /\ record.experiment = old.experiment /\ record.uploaded = old.uploaded
        /\ record.status = "uploaded"
  <2>1. [old EXCEPT !.status = "uploaded"] \in Record
    BY DEF Record
  <2>. QED
    BY <2>1 DEF Record
<1>4. /\ Saved(k, record)
      /\ upload' = [step |-> "told", key |-> k, files |-> upload.files,
                    made |-> upload.made, record |-> record]
  BY <1>1, <1>2, <1>3, SendingShape DEF Finish, Sending
<1>5. Record' = Record
  BY <1>1 DEF Record, Numbers
<1>6. TrueRecord(k, record)' /\ Continues(ledger[k], record)
  BY <1>1, <1>2, <1>3, <1>5 DEF TrueRecord, Continues, Holds, LedgerNeverAhead
<1>7. Grown(experiments, experiments') /\ ServerTyped'
  BY <1>1 DEF ServerTyped, Grown
<1>8. RecordsTyped' /\ LedgerNeverAhead' /\ InventoryKnown'
  BY <1>1, <1>4, <1>5, <1>6, <1>7, LedgerStep DEF Saved
<1>9. UploadTyped'
  BY <1>2, <1>4, <1>5 DEF UploadTyped, Sending
<1>10. InStep'
  <2>1. ledger'[k] = record
    BY <1>4 DEF Saved, RecordsTyped
  <2>. QED
    BY <1>1, <1>2, <1>3, <1>4, <2>1 DEF InStep
<1>. QED
  BY <1>1, <1>7, <1>8, <1>9, <1>10

\* The server after a request that was not answered.
LEMMA UnansweredGrows ==
    ASSUME IInv, RequestMayFail, experiments' \in Unanswered
    PROVE  Grown(experiments, experiments')
<1>. USE DEF IInv, Typed, LedgerInv
<1>1. CASE UNCHANGED experiments
  BY <1>1 DEF ServerTyped, Grown
<1>2. CASE upload.step = "create" /\
           experiments' = Append(experiments, NewExperiment(upload.key))
  BY <1>2, SendingShape, AppendGrows, NewIsExperiment DEF ServerTyped, Sending
<1>3. ASSUME upload.step = "attach", NEW f \in NextFile, experiments' = Sent(f)
      PROVE  Grown(experiments, experiments')
  BY <1>3, AttachTyped, SentGrows
<1>. QED
  BY <1>1, <1>2, <1>3 DEF Unanswered

LEMMA FailRequestStep == ASSUME IInv, FailRequest PROVE IInv'
<1>. USE DEF IInv, Typed, LedgerInv
<1>1. WorldTyped' /\ UNCHANGED rows /\ upload.step \in {"create", "tag", "attach"}
  BY WorldQuiet DEF FailRequest, world, RequestMayFail
<1>2. PICK k \in Key, old \in Record :
        k = upload.key /\ old = upload.record /\ old = ledger[k]
  BY <1>1, SendingShape DEF Sending, InStep
<1>3. PICK record \in Record :
        /\ record = [old EXCEPT !.status = "failed"]
        /\ record.experiment = old.experiment /\ record.uploaded = old.uploaded
        /\ record.status = "failed"
  <2>1. [old EXCEPT !.status = "failed"] \in Record
    BY DEF Record
  <2>. QED
    BY <2>1 DEF Record
<1>4. Saved(k, record) /\ upload' = Idle
  BY <1>2, <1>3 DEF FailRequest
<1>5. Grown(experiments, experiments') /\ ServerTyped' /\ Record \subseteq Record'
  BY UnansweredGrows, NumbersGrow DEF FailRequest
<1>6. TrueRecord(k, record)' /\ Continues(ledger[k], record)
  <2>1. record.experiment # None => Holds(record.experiment, k, record.uploaded)
    BY <1>2, <1>3 DEF LedgerNeverAhead
  <2>2. record.experiment \in Numbers /\ record.uploaded \in SUBSET Files
    BY DEF Record
  <2>3. record.experiment # None => Holds(record.experiment, k, record.uploaded)'
    BY <1>5, <2>1, <2>2, HoldsOn
  <2>. QED
    BY <1>2, <1>3, <1>5, <2>3 DEF TrueRecord, Continues, LedgerNeverAhead
<1>7. RecordsTyped' /\ LedgerNeverAhead' /\ InventoryKnown'
  BY <1>1, <1>4, <1>5, <1>6, LedgerStep DEF Saved
<1>. QED
  BY <1>1, <1>4, <1>5, <1>7, NoUpload

\* The record saved after a failed save has the answer, if one was waiting.
LEMMA SaveFailsStep == ASSUME IInv, SaveFails PROVE IInv'
<1>. USE DEF IInv, Typed, LedgerInv
<1>1. /\ WorldTyped' /\ UNCHANGED <<experiments, rows>> /\ upload' = Idle
      /\ upload.step \in {"created", "attached", "attach"}
  BY WorldQuiet DEF SaveFails, world
<1>2. PICK k \in Key, old \in Record :
        k = upload.key /\ old = upload.record /\ old = ledger[k]
  BY <1>1, SendingShape DEF Sending, InStep
<1>3. Record' = Record /\ Len(experiments) \in Nat
  BY <1>1 DEF Record, Numbers, ServerTyped
<1>4. PICK answer \in Record :
        answer = Answered /\ TrueRecord(k, [answer EXCEPT !.status = "failed"])'
                          /\ Continues(old, answer)
  <2>1. CASE upload.step = "created"
    <3>1. PICK i \in 1..Len(experiments) :
            /\ i = upload.made /\ old.experiment = None /\ experiments[i].key = k
      BY <1>2, <2>1, SendingShape DEF Sending, InStep
    <3>2. PICK answer \in Record :
            /\ answer = [old EXCEPT !.experiment = i]
            /\ answer.experiment = i /\ answer.uploaded = old.uploaded
      <4>1. [old EXCEPT !.experiment = i] \in Record
        BY DEF Record, Numbers
      <4>. QED
        BY <4>1 DEF Record
    <3>3. PICK r \in Record : /\ r = [answer EXCEPT !.status = "failed"]
                              /\ r.experiment = i /\ r.uploaded = old.uploaded
                              /\ r.status = "failed"
      <4>1. [answer EXCEPT !.status = "failed"] \in Record
        BY DEF Record
      <4>. QED
        BY <3>2, <4>1 DEF Record
    <3>4. old.uploaded = {} /\ i # None
      BY <1>2, <1>3, <3>1 DEF LedgerNeverAhead, None
    <3>5. TrueRecord(k, r)'
      BY <1>1, <1>3, <3>1, <3>3, <3>4 DEF TrueRecord, Holds
    <3>. QED
      BY <1>2, <2>1, <3>1, <3>2, <3>3, <3>4, <3>5 DEF Answered, Continues
  <2>2. CASE upload.step = "attached"
    <3>1. PICK f \in Files :
            /\ f = upload.made /\ old.experiment # None
            /\ experiments[old.experiment].copies[f] # <<>>
      BY <1>2, <2>2, SendingShape DEF Sending, InStep
    <3>2. PICK answer \in Record :
            /\ answer = [old EXCEPT !.uploaded = @ \cup {f}]
            /\ answer.experiment = old.experiment
            /\ answer.uploaded = old.uploaded \cup {f}
      <4>1. [old EXCEPT !.uploaded = @ \cup {f}] \in Record
        BY DEF Record
      <4>. QED
        BY <4>1 DEF Record
    <3>3. PICK r \in Record : /\ r = [answer EXCEPT !.status = "failed"]
                              /\ r.experiment = old.experiment
                              /\ r.uploaded = old.uploaded \cup {f}
                              /\ r.status = "failed"
      <4>1. [answer EXCEPT !.status = "failed"] \in Record
        BY DEF Record
      <4>. QED
        BY <3>2, <4>1 DEF Record
    <3>4. Holds(old.experiment, k, old.uploaded \cup {f})
      BY <1>2, <3>1 DEF LedgerNeverAhead, Holds
    <3>5. TrueRecord(k, r)'
      BY <1>1, <1>3, <3>1, <3>3, <3>4 DEF TrueRecord, Holds
    <3>. QED
      BY <1>2, <2>2, <3>1, <3>2, <3>3, <3>5 DEF Answered, Continues
  <2>3. CASE upload.step = "attach"
    <3>1. PICK r \in Record : /\ r = [old EXCEPT !.status = "failed"]
                              /\ r.experiment = old.experiment
                              /\ r.uploaded = old.uploaded /\ r.status = "failed"
      <4>1. [old EXCEPT !.status = "failed"] \in Record
        BY DEF Record
      <4>. QED
        BY <4>1 DEF Record
    <3>2. TrueRecord(k, r)'
      BY <1>1, <1>2, <1>3, <3>1 DEF TrueRecord, Holds, LedgerNeverAhead
    <3>. QED
      BY <1>2, <2>3, <3>1, <3>2 DEF Answered, Continues
  <2>. QED
    BY <1>1, <2>1, <2>2, <2>3
<1>5. PICK record \in Record' :
        /\ record = [answer EXCEPT !.status = "failed"]
        /\ TrueRecord(k, record)' /\ Continues(ledger[k], record)
  BY <1>2, <1>3, <1>4 DEF TrueRecord, Continues, Record
<1>6. ledger' = [ledger EXCEPT ![k] = record]
  BY <1>2, <1>4, <1>5 DEF SaveFails, Saved
<1>7. Grown(experiments, experiments') /\ ServerTyped'
  BY <1>1 DEF ServerTyped, Grown
<1>8. RecordsTyped' /\ LedgerNeverAhead' /\ InventoryKnown'
  BY <1>1, <1>5, <1>6, <1>7, LedgerStep
<1>. QED
  BY <1>1, <1>7, <1>8, NoUpload

LEMMA InterruptedStep == ASSUME IInv, Interrupted PROVE IInv'
BY WorldQuiet, ServerQuiet, NoUpload DEF Interrupted, world, IInv, Typed, LedgerInv

LEMMA ToldStep == ASSUME IInv, Told PROVE IInv'
<1>. USE DEF IInv, Typed, LedgerInv
<1>1. /\ WorldTyped' /\ UNCHANGED <<ledger, experiments>> /\ upload.step = "told"
      /\ upload' = Idle
  BY WorldQuiet DEF Told
<1>2. PICK k \in Key, i \in Numbers :
        /\ i = upload.record.experiment /\ i = ledger[k].experiment
        /\ ledger[k].uploaded # {}
  <2>1. /\ upload.key \in Key /\ upload.record \in Record /\ upload.files # {}
        /\ upload.record = ledger[upload.key]
        /\ upload.files \subseteq upload.record.uploaded
    BY <1>1, SendingShape DEF Sending, InStep
  <2>. QED
    BY <2>1 DEF Record
<1>3. rows' = [r \in Results |-> [n \in DOMAIN rows[r] |-> i]]
  BY <1>2 DEF Told
<1>4. Grown(experiments, experiments') /\ ServerTyped' /\ Numbers' = Numbers
      /\ ledger' \in [Key -> Record'] /\ LedgerNeverAhead'
  <2>1. Grown(experiments, experiments')
    BY <1>1 DEF ServerTyped, Grown
  <2>. QED
    BY <1>1, <2>1, LedgerStep DEF ServerTyped, Numbers
<1>5. rows' \in [Results -> Seq(Numbers')]
  <2>1. ASSUME NEW r \in Results PROVE [n \in DOMAIN rows[r] |-> i] \in Seq(Numbers)
    <3>1. rows[r] \in Seq(Numbers)
      BY DEF RecordsTyped
    <3>2. DOMAIN rows[r] = 1..Len(rows[r]) /\ Len(rows[r]) \in Nat
      BY <3>1
    <3>. QED
      BY <3>2
  <2>. QED
    BY <1>3, <1>4, <2>1
<1>6. InventoryKnown'
  <2>1. ASSUME NEW r \in Results, NEW j \in Mentioned(r)' PROVE Kept(j, k)'
    <3>1. j = i
      BY <1>3, <2>1 DEF Mentioned
    <3>. QED
      BY <1>1, <1>2, <3>1 DEF Kept
  <2>. QED
    BY <2>1 DEF InventoryKnown
<1>. QED
  BY <1>1, <1>4, <1>5, <1>6, NoUpload DEF RecordsTyped

LEMMA ResumeStep == ASSUME IInv, NEW r \in Results, Resume(r) PROVE IInv'
<1>. USE DEF IInv, Typed, LedgerInv
<1>1. UNCHANGED <<ledger, experiments, rows, upload>>
  BY DEF Resume
<1>2. ServerTyped' /\ RecordsTyped' /\ LedgerNeverAhead' /\ InventoryKnown'
  BY <1>1, ServerQuiet
<1>3. UploadTyped' /\ InStep'
  BY <1>1 DEF UploadTyped, InStep, Record, Numbers
<1>4. WorldTyped'
  <2>1. PICK csv \in BOOLEAN :
          disk' = [disk EXCEPT ![r] = [content |-> disk[r].content + 1,
                                       status |-> "running", csv |-> csv]]
    BY DEF Resume, WorldTyped, Disk
  <2>2. /\ changes < MaxChanges /\ changes' = changes + 1
        /\ UNCHANGED <<uploads, faults>>
    BY DEF Resume
  <2>3. /\ disk[r].content + 1 \in 0..MaxChanges
        /\ changes' \in 0..MaxChanges
    BY <2>2, BoundsAssumption DEF WorldTyped, Disk
  <2>. QED
    BY <2>1, <2>2, <2>3, BoundsAssumption DEF WorldTyped, Disk
<1>. QED
  BY <1>2, <1>3, <1>4

LEMMA RunEndsStep == ASSUME IInv, NEW r \in Results, RunEnds(r) PROVE IInv'
<1>. USE DEF IInv, Typed, LedgerInv
<1>1. UNCHANGED <<ledger, experiments, upload>>
  BY DEF RunEnds
<1>2. Grown(experiments, experiments') /\ ServerTyped' /\ Numbers' = Numbers
      /\ ledger' \in [Key -> Record'] /\ LedgerNeverAhead'
  <2>1. Grown(experiments, experiments')
    BY <1>1 DEF ServerTyped, Grown
  <2>. QED
    BY <1>1, <2>1, LedgerStep DEF ServerTyped, Numbers
<1>3. UploadTyped' /\ InStep'
  BY <1>1 DEF UploadTyped, InStep, Record, Numbers
<1>4. rows' = [rows EXCEPT ![r] = Append(rows[r], None)]
  BY DEF RunEnds
<1>5. rows' \in [Results -> Seq(Numbers')]
  <2>1. Append(rows[r], None) \in Seq(Numbers)
    BY DEF RecordsTyped, Numbers
  <2>. QED
    BY <1>2, <1>4, <2>1 DEF RecordsTyped
<1>6. InventoryKnown'
  <2>1. ASSUME NEW q \in Results, NEW j \in Mentioned(q)' PROVE j \in Mentioned(q)
    <3>1. rows[q] \in Seq(Numbers)
      BY DEF RecordsTyped
    <3>2. rows'[q] = rows[q] \/ rows'[q] = Append(rows[q], None)
      BY <1>4 DEF RecordsTyped
    <3>. QED
      BY <2>1, <3>1, <3>2 DEF Mentioned
  <2>2. \A i, k : Kept(i, k)' <=> Kept(i, k)
    BY <1>1 DEF Kept
  <2>. QED
    BY <2>1, <2>2 DEF InventoryKnown
<1>7. WorldTyped'
  <2>1. PICK how \in Terminal : disk' = [disk EXCEPT ![r].status = how]
    BY DEF RunEnds
  <2>2. UNCHANGED <<uploads, faults, changes>>
    BY DEF RunEnds
  <2>. QED
    BY <2>1, <2>2 DEF WorldTyped, Disk
<1>. QED
  BY <1>2, <1>3, <1>5, <1>6, <1>7 DEF RecordsTyped

LEMMA InitIInv == Init => IInv
<1>. SUFFICES ASSUME Init PROVE IInv
  OBVIOUS
<1>1. WorldTyped
  BY BoundsAssumption DEF Init, WorldTyped, Disk
<1>2. ServerTyped /\ experiments = <<>> /\ Len(experiments) = 0
  BY DEF Init, ServerTyped
<1>3. NoRecord \in Record /\ None \in Numbers
  BY DEF NoRecord, Record, Numbers
<1>4. RecordsTyped
  BY <1>3 DEF Init, RecordsTyped
<1>5. UploadTyped /\ InStep
  BY DEF Init, UploadTyped, InStep, Idle, Sending
<1>6. LedgerNeverAhead
  BY DEF Init, LedgerNeverAhead, NoRecord
<1>7. InventoryKnown
  BY DEF Init, InventoryKnown, Mentioned
<1>. QED
  BY <1>1, <1>2, <1>4, <1>5, <1>6, <1>7 DEF IInv, Typed, LedgerInv

LEMMA NextIInv == ASSUME IInv, [Next]_vars PROVE IInv'
<1>1. CASE UNCHANGED vars
  <2>1. WorldTyped'
    BY <1>1, WorldQuiet DEF vars, IInv, Typed
  <2>2. ServerTyped' /\ RecordsTyped' /\ LedgerNeverAhead' /\ InventoryKnown'
    BY <1>1, ServerQuiet DEF vars
  <2>3. UploadTyped' /\ InStep'
    BY <1>1 DEF vars, IInv, Typed, LedgerInv, UploadTyped, InStep, Record, Numbers
  <2>. QED
    BY <2>1, <2>2, <2>3 DEF IInv, Typed, LedgerInv
<1>. QED
  BY <1>1, StartStep, CheckStep, HashStep, CreateStep, SaveCreatedStep, TagStep,
     AttachStep, SaveAttachedStep, FinishStep, FailRequestStep, SaveFailsStep,
     InterruptedStep, ToldStep, ResumeStep, RunEndsStep DEF Next, Thread

LEMMA Always == Spec => []IInv
BY InitIInv, NextIInv, PTL DEF Spec

-----------------------------------------------------------------------------
(* What the server has twice.                                              *)

Extra(i) == i \in 1..Len(experiments) /\ ~Known(i)
Twice(i, f, n) ==
    /\ i \in 1..Len(experiments) /\ f \in Files
    /\ n \in (IF Confirmed(i, f) THEN 2 ELSE 1)..Len(experiments[i].copies[f])

SurplusShape ==
    \A x : x \in Surplus <=>
              \/ \E i : Extra(i) /\ x = <<i, "experiment", 1>>
              \/ \E i, f, n : Twice(i, f, n) /\ x = <<i, f, n>>

LEMMA SurplusIs == ServerTyped => SurplusShape
<1>. SUFFICES ASSUME ServerTyped PROVE SurplusShape
  OBVIOUS
<1>1. DOMAIN experiments = 1..Len(experiments)
  BY DEF ServerTyped
<1>2. \A x : x \in {<<i, "experiment", 1>> : i \in {j \in DOMAIN experiments : ~Known(j)}}
             <=> \E i : Extra(i) /\ x = <<i, "experiment", 1>>
  BY <1>1 DEF Extra
<1>. DEFINE low(i, f) == IF Confirmed(i, f) THEN 2 ELSE 1
            copies(i, f) == {<<i, f, n>> : n \in low(i, f)..Len(experiments[i].copies[f])}
<1>3. \A x : x \in UNION {copies(i, f) : i \in DOMAIN experiments, f \in Files}
             <=> \E i \in DOMAIN experiments, f \in Files : x \in copies(i, f)
  <2>. HIDE DEF copies
  <2>. QED
    OBVIOUS
<1>4. \A x, i, f : x \in copies(i, f) <=>
         \E n \in low(i, f)..Len(experiments[i].copies[f]) : x = <<i, f, n>>
  OBVIOUS
<1>5. \A x : x \in Surplus <=>
         \/ x \in {<<i, "experiment", 1>> : i \in {j \in DOMAIN experiments : ~Known(j)}}
         \/ x \in UNION {copies(i, f) : i \in DOMAIN experiments, f \in Files}
  BY DEF Surplus
<1>6. \A i, f, n : Twice(i, f, n) <=>
         /\ i \in DOMAIN experiments /\ f \in Files
         /\ n \in low(i, f)..Len(experiments[i].copies[f])
  BY <1>1 DEF Twice
<1>. HIDE DEF copies, low
<1>7. \A x : x \in UNION {copies(i, f) : i \in DOMAIN experiments, f \in Files}
             <=> \E i, f, n : Twice(i, f, n) /\ x = <<i, f, n>>
  BY <1>3, <1>4, <1>6
<1>. QED
  BY <1>2, <1>5, <1>7 DEF SurplusShape

LEMMA SurplusIsNext == ServerTyped' => SurplusShape'
BY SurplusIs, PTL

\* A step adds to the surplus only what is found to be new.
LEMMA SurplusStep ==
    ASSUME ServerTyped, ServerTyped', NEW Y,
           \A i : Extra(i)' => Extra(i) \/ <<i, "experiment", 1>> \in Y,
           \A i, f, n : Twice(i, f, n)' => Twice(i, f, n) \/ <<i, f, n>> \in Y
    PROVE  Surplus' \subseteq Surplus \cup Y
<1>1. ASSUME NEW x \in Surplus' PROVE x \in Surplus \cup Y
  <2>1. \/ \E i : Extra(i)' /\ x = <<i, "experiment", 1>>
        \/ \E i, f, n : Twice(i, f, n)' /\ x = <<i, f, n>>
    BY <1>1, SurplusIsNext DEF SurplusShape
  <2>2. ASSUME NEW i, Extra(i)', x = <<i, "experiment", 1>> PROVE x \in Surplus \cup Y
    BY <2>2, SurplusIs DEF SurplusShape
  <2>3. ASSUME NEW i, NEW f, NEW n, Twice(i, f, n)', x = <<i, f, n>>
        PROVE  x \in Surplus \cup Y
    BY <2>3, SurplusIs DEF SurplusShape
  <2>. QED
    BY <2>1, <2>2, <2>3
<1>. QED
  BY <1>1

LEMMA OneMore ==
    ASSUME NEW S, IsFiniteSet(S), NEW y, NEW T \in SUBSET (S \cup {y})
    PROVE  /\ IsFiniteSet(T) /\ Cardinality(T) \in Nat /\ Cardinality(S) \in Nat
           /\ Cardinality(T) <= Cardinality(S) + 1
<1>1. /\ IsFiniteSet(S \cup {y}) /\ Cardinality(S) \in Nat
      /\ Cardinality(S \cup {y}) = IF y \in S THEN Cardinality(S) ELSE Cardinality(S) + 1
  BY FS_AddElement, FS_CardinalityType
<1>2. IsFiniteSet(T) /\ Cardinality(T) <= Cardinality(S \cup {y})
  BY <1>1, FS_Subset
<1>3. Cardinality(T) \in Nat
  BY <1>2, FS_CardinalityType
<1>. QED
  BY <1>1, <1>2, <1>3

LEMMA Exchanged ==
    ASSUME NEW S, IsFiniteSet(S), NEW y, NEW z \in S, NEW T \in SUBSET (S \cup {y}),
           z \notin T
    PROVE  IsFiniteSet(T) /\ Cardinality(T) <= Cardinality(S)
<1>1. /\ IsFiniteSet(S \ {z}) /\ Cardinality(S \ {z}) = Cardinality(S) - 1
      /\ Cardinality(S) \in Nat
  BY FS_RemoveElement, FS_CardinalityType
<1>2. T \in SUBSET ((S \ {z}) \cup {y})
  OBVIOUS
<1>3. IsFiniteSet(T) /\ Cardinality(T) \in Nat /\ Cardinality(T) <= Cardinality(S \ {z}) + 1
  BY <1>1, <1>2, OneMore
<1>. QED
  BY <1>1, <1>3

TwiceInv == IsFiniteSet(Surplus) /\ Cardinality(Surplus) <= faults

\* What is added was paid for by a fault.
LEMMA NotMore ==
    ASSUME TwiceInv, WorldTyped, Surplus' \subseteq Surplus, faults' \in Nat, faults <= faults'
    PROVE  TwiceInv'
<1>1. /\ IsFiniteSet(Surplus') /\ Cardinality(Surplus') <= Cardinality(Surplus)
      /\ Cardinality(Surplus') \in Nat /\ Cardinality(Surplus) \in Nat
  BY FS_Subset, FS_CardinalityType DEF TwiceInv
<1>2. IsFiniteSet(Surplus)' /\ Cardinality(Surplus)' = Cardinality(Surplus')
  BY <1>1
<1>. QED
  BY <1>1, <1>2, BoundsAssumption DEF TwiceInv, WorldTyped

LEMMA PaidFor ==
    ASSUME TwiceInv, WorldTyped, NEW y, Surplus' \subseteq Surplus \cup {y}, Fault
    PROVE  TwiceInv'
<1>1. /\ IsFiniteSet(Surplus') /\ Cardinality(Surplus') <= Cardinality(Surplus) + 1
      /\ Cardinality(Surplus') \in Nat /\ Cardinality(Surplus) \in Nat
  BY OneMore DEF TwiceInv
<1>. QED
  BY <1>1, BoundsAssumption DEF TwiceInv, WorldTyped, Fault

LEMMA TwiceKept ==
    ASSUME IInv, UNCHANGED experiments,
           \A i, f : Confirmed(i, f) => Confirmed(i, f)'
    PROVE  \A i, f, n : Twice(i, f, n)' => Twice(i, f, n)
<1>1. ASSUME NEW i, NEW f, NEW n, Twice(i, f, n)' PROVE Twice(i, f, n)
  <2>1. /\ i \in 1..Len(experiments) /\ f \in Files
        /\ n \in (IF Confirmed(i, f)' THEN 2 ELSE 1)..Len(experiments[i].copies[f])
    BY <1>1 DEF Twice
  <2>2. Len(experiments[i].copies[f]) \in Nat
    BY <2>1 DEF IInv, Typed, ServerTyped, Experiment
  <2>3. n \in (IF Confirmed(i, f) THEN 2 ELSE 1)..Len(experiments[i].copies[f])
    BY <2>1, <2>2
  <2>. QED
    BY <2>1, <2>3 DEF Twice
<1>. QED
  BY <1>1

\* The copies are as they were, and nothing that was known is forgotten.
LEMMA QuietSurplus ==
    ASSUME IInv, IInv', Len(experiments') = Len(experiments),
           \A i \in 1..Len(experiments) :
              /\ experiments'[i].copies = experiments[i].copies
              /\ Known(i) => Known(i)'
              /\ \A f \in Files : Confirmed(i, f) => Confirmed(i, f)'
    PROVE  Surplus' \subseteq Surplus
<1>1. Len(experiments) \in Nat
  BY DEF IInv, Typed, ServerTyped
<1>2. \A i : Extra(i)' => Extra(i)
  BY DEF Extra
<1>3. \A i, f, n : Twice(i, f, n)' => Twice(i, f, n)
  <2>1. ASSUME NEW i, NEW f, NEW n, Twice(i, f, n)' PROVE Twice(i, f, n)
    <3>1. /\ i \in 1..Len(experiments) /\ f \in Files
          /\ n \in (IF Confirmed(i, f)' THEN 2 ELSE 1)..Len(experiments[i].copies[f])
      BY <2>1 DEF Twice
    <3>2. Len(experiments[i].copies[f]) \in Nat
      BY <3>1 DEF IInv, Typed, ServerTyped, Experiment
    <3>3. n \in (IF Confirmed(i, f) THEN 2 ELSE 1)..Len(experiments[i].copies[f])
      BY <3>1, <3>2
    <3>. QED
      BY <3>1, <3>3 DEF Twice
  <2>. QED
    BY <2>1
<1>. QED
  <2>1. Surplus' \subseteq Surplus \cup {}
    BY <1>2, <1>3, SurplusStep DEF IInv, Typed
  <2>. QED
    BY <2>1

\* The records name what they named, and no answer is waiting to be saved.
LEMMA SameKnowledge ==
    ASSUME \A k \in Key : /\ ledger'[k].experiment = ledger[k].experiment
                          /\ ledger'[k].uploaded = ledger[k].uploaded,
           upload.step \notin {"created", "attached"}
    PROVE  /\ \A i : Known(i) => Known(i)'
           /\ \A i, f : Confirmed(i, f) => Confirmed(i, f)'
BY DEF Known, Confirmed

LEMMA QuietTwice ==
    ASSUME IInv, IInv', TwiceInv, faults' = faults \/ faults' = faults + 1,
           Len(experiments') = Len(experiments),
           \A i \in 1..Len(experiments) : experiments'[i].copies = experiments[i].copies,
           \A k \in Key : /\ ledger'[k].experiment = ledger[k].experiment
                          /\ ledger'[k].uploaded = ledger[k].uploaded,
           upload.step \notin {"created", "attached"}
    PROVE  TwiceInv'
<1>1. Surplus' \subseteq Surplus
  BY QuietSurplus, SameKnowledge
<1>. QED
  BY <1>1, NotMore, BoundsAssumption DEF IInv, Typed, WorldTyped

LEMMA WorldTwice ==
    ASSUME IInv, IInv', TwiceInv,
           \/ Start \/ Check \/ Told \/ \E r \in Results : Resume(r) \/ RunEnds(r)
    PROVE  TwiceInv'
<1>1. CASE UNCHANGED <<ledger, experiments, faults>> /\
           upload.step \notin {"created", "attached"}
  BY <1>1, QuietTwice
<1>2. CASE UNCHANGED <<ledger, experiments, upload, faults>>
  <2>1. Surplus' \subseteq Surplus
    BY <1>2, QuietSurplus DEF Known, Confirmed
  <2>. QED
    BY <1>2, <2>1, NotMore, BoundsAssumption DEF IInv, Typed, WorldTyped
<1>. QED
  BY <1>1, <1>2 DEF Start, Check, Told, Resume, RunEnds, Idle

LEMMA SavedStatus ==
    ASSUME IInv, upload.step \in Sending, NEW s,
           Saved(upload.key, [upload.record EXCEPT !.status = s])
    PROVE  \A k \in Key : /\ ledger'[k].experiment = ledger[k].experiment
                          /\ ledger'[k].uploaded = ledger[k].uploaded
BY SendingShape
   DEF IInv, Typed, LedgerInv, InStep, Saved, RecordsTyped, Record

LEMMA RecordTwice ==
    ASSUME IInv, IInv', TwiceInv, Hash \/ Finish
    PROVE  TwiceInv'
<1>1. /\ UNCHANGED <<experiments, faults>>
      /\ upload.step \notin {"created", "attached"}
  BY DEF Hash, Finish
<1>2. \A k \in Key : /\ ledger'[k].experiment = ledger[k].experiment
                     /\ ledger'[k].uploaded = ledger[k].uploaded
  <2>1. CASE UNCHANGED ledger
    BY <2>1
  <2>2. ASSUME NEW h, Saved(h, Continued(h)), NEW k \in Key
        PROVE  /\ ledger'[k].experiment = ledger[k].experiment
               /\ ledger'[k].uploaded = ledger[k].uploaded
    BY <2>2 DEF Saved, Continued, IInv, Typed, RecordsTyped, Record
  <2>3. CASE Finish
    BY <2>3, SavedStatus DEF Finish, Sending
  <2>. QED
    BY <2>1, <2>2, <2>3 DEF Hash
<1>. QED
  BY <1>1, <1>2, QuietTwice

LEMMA TagTwice == ASSUME IInv, IInv', TwiceInv, Tag PROVE TwiceInv'
<1>1. UNCHANGED ledger /\ upload.step = "tag" /\ (faults' = faults \/ faults' = faults + 1)
  BY DEF Tag, Fault
<1>2. upload.record.experiment \in 1..Len(experiments)
  BY <1>1, SendingShape DEF Sending, IInv, Typed, LedgerInv, InStep, Record, Numbers
<1>3. /\ Len(experiments') = Len(experiments)
      /\ \A i \in 1..Len(experiments) : experiments'[i].copies = experiments[i].copies
  <2>1. CASE experiments' = [experiments EXCEPT ![upload.record.experiment].tagged = TRUE]
    BY <1>2, <2>1, TagGrows DEF IInv, Typed
  <2>2. CASE UNCHANGED experiments
    BY <2>2
  <2>. QED
    BY <2>1, <2>2 DEF Tag
<1>. QED
  BY <1>1, <1>3, QuietTwice

\* One more experiment, with no copy of a file.
LEMMA NewTwice ==
    ASSUME IInv, IInv', upload.step = "create",
           experiments' = Append(experiments, NewExperiment(upload.key)),
           \A i \in 1..Len(experiments) :
              /\ Known(i) => Known(i)'
              /\ \A f \in Files : Confirmed(i, f) => Confirmed(i, f)',
           NEW n \in Nat, n = Len(experiments),
           NEW Y, Known(n + 1)' \/ <<n + 1, "experiment", 1>> \in Y
    PROVE  Surplus' \subseteq Surplus \cup Y
<1>1. /\ Len(experiments') = n + 1 /\ experiments'[n + 1] = NewExperiment(upload.key)
      /\ \A i \in 1..n : experiments'[i] = experiments[i]
  BY SendingShape, AppendGrows, NewIsExperiment
     DEF IInv, Typed, ServerTyped, Sending
<1>2. \A i : Extra(i)' => Extra(i) \/ <<i, "experiment", 1>> \in Y
  <2>1. ASSUME NEW i, Extra(i)' PROVE Extra(i) \/ <<i, "experiment", 1>> \in Y
    <3>1. i \in 1..(n + 1) /\ ~Known(i)'
      BY <1>1, <2>1 DEF Extra
    <3>2. CASE i = n + 1
      BY <3>1, <3>2
    <3>3. CASE i \in 1..n
      BY <3>1, <3>3 DEF Extra
    <3>. QED
      BY <3>1, <3>2, <3>3
  <2>. QED
    BY <2>1
<1>3. ASSUME NEW i, NEW f, NEW m, Twice(i, f, m)' PROVE Twice(i, f, m)
  <2>1. /\ i \in 1..(n + 1) /\ f \in Files
        /\ m \in (IF Confirmed(i, f)' THEN 2 ELSE 1)..Len(experiments'[i].copies[f])
    BY <1>1, <1>3 DEF Twice
  <2>2. i # n + 1
    <3>1. SUFFICES ASSUME i = n + 1 PROVE FALSE
      OBVIOUS
    <3>2. Len(experiments'[i].copies[f]) = 0
      BY <1>1, <2>1, <3>1 DEF NewExperiment
    <3>. QED
      BY <2>1, <3>2
  <2>3. i \in 1..n /\ experiments'[i] = experiments[i]
    BY <1>1, <2>1, <2>2
  <2>4. Len(experiments[i].copies[f]) \in Nat
    BY <2>1, <2>3 DEF IInv, Typed, ServerTyped, Experiment
  <2>5. m \in (IF Confirmed(i, f) THEN 2 ELSE 1)..Len(experiments[i].copies[f])
    BY <2>1, <2>3, <2>4
  <2>. QED
    BY <2>1, <2>3, <2>5 DEF Twice
<1>. QED
  BY <1>2, <1>3, SurplusStep DEF IInv, Typed

LEMMA CreateTwice == ASSUME IInv, IInv', TwiceInv, Create PROVE TwiceInv'
<1>1. /\ upload.step = "create" /\ UNCHANGED <<ledger, faults>>
      /\ experiments' = Append(experiments, NewExperiment(upload.key))
  BY DEF Create
<1>2. \A i : (Known(i) => Known(i)') /\ \A f : Confirmed(i, f) => Confirmed(i, f)'
  BY <1>1 DEF Known, Confirmed
<1>3. PICK n \in Nat : n = Len(experiments)
  BY DEF IInv, Typed, ServerTyped
<1>4. Known(n + 1)'
  <2>1. Len(experiments') = Len(experiments) + 1
    BY <1>1, SendingShape, AppendGrows, NewIsExperiment
       DEF IInv, Typed, ServerTyped, Sending
  <2>2. upload'.step = "created" /\ upload'.made = Len(experiments')
    BY <1>1, SendingShape DEF Create, IInv, Typed, Sending
  <2>. QED
    BY <1>3, <2>1, <2>2 DEF Known
<1>5. Surplus' \subseteq Surplus
  <2>1. Surplus' \subseteq Surplus \cup {}
    BY <1>1, <1>2, <1>3, <1>4, NewTwice
  <2>. QED
    BY <2>1
<1>. QED
  BY <1>1, <1>5, NotMore, BoundsAssumption DEF IInv, Typed, WorldTyped

\* An answer that is saved leaves everything known as it was, whatever the record's
\* status says.
LEMMA CreatedSaved ==
    ASSUME IInv, IInv', upload.step = "created", UNCHANGED experiments, NEW record,
           record.experiment = upload.made, record.uploaded = upload.record.uploaded,
           Saved(upload.key, record)
    PROVE  Surplus' \subseteq Surplus
<1>1. /\ upload.key \in Key /\ upload.record \in Record
      /\ upload.record = ledger[upload.key] /\ upload.record.experiment = None
  BY SendingShape DEF Sending, IInv, Typed, LedgerInv, InStep
<1>2. /\ ledger'[upload.key].experiment = upload.made
      /\ ledger'[upload.key].uploaded = ledger[upload.key].uploaded
      /\ \A k \in Key \ {upload.key} : ledger'[k] = ledger[k]
  BY <1>1 DEF Saved, IInv, Typed, RecordsTyped, Record
<1>3. ledger[upload.key].uploaded = {} /\ ledger[upload.key].experiment = None
  BY <1>1 DEF IInv, LedgerInv, LedgerNeverAhead
<1>4. \A i \in 1..Len(experiments) : i # None
  BY DEF None, IInv, Typed, ServerTyped
<1>5. \A i \in 1..Len(experiments) : Known(i) => Known(i)'
  BY <1>1, <1>2, <1>3, <1>4 DEF Known
<1>6. \A i \in 1..Len(experiments), f \in Files : Confirmed(i, f) => Confirmed(i, f)'
  BY <1>1, <1>2, <1>3, <1>4 DEF Confirmed
<1>. QED
  BY <1>5, <1>6, QuietSurplus

LEMMA AttachedSaved ==
    ASSUME IInv, IInv', upload.step = "attached", UNCHANGED experiments, NEW record,
           record.experiment = upload.record.experiment,
           record.uploaded = upload.record.uploaded \cup {upload.made},
           Saved(upload.key, record)
    PROVE  Surplus' \subseteq Surplus
<1>1. /\ upload.key \in Key /\ upload.record \in Record
      /\ upload.record = ledger[upload.key]
  BY SendingShape DEF Sending, IInv, Typed, LedgerInv, InStep
<1>2. /\ ledger'[upload.key].experiment = upload.record.experiment
      /\ ledger'[upload.key].uploaded = ledger[upload.key].uploaded \cup {upload.made}
      /\ \A k \in Key \ {upload.key} : ledger'[k] = ledger[k]
  BY <1>1 DEF Saved, IInv, Typed, RecordsTyped, Record
<1>3. \A i : Known(i) => Known(i)'
  BY <1>1, <1>2 DEF Known
<1>4. \A i, f : Confirmed(i, f) => Confirmed(i, f)'
  BY <1>1, <1>2 DEF Confirmed
<1>. QED
  BY <1>3, <1>4, QuietSurplus

LEMMA SavingTwice ==
    ASSUME IInv, IInv', TwiceInv, SaveCreated \/ SaveAttached \/ SaveFails
    PROVE  TwiceInv'
<1>. USE DEF IInv, Typed
<1>1. /\ UNCHANGED experiments /\ (faults' = faults \/ faults' = faults + 1)
      /\ upload.step \in {"created", "attached", "attach"}
  BY DEF SaveCreated, SaveAttached, SaveFails, Fault
<1>2. upload.record \in Record
  BY <1>1, SendingShape DEF Sending
<1>3. CASE upload.step = "created"
  <2>1. PICK record : /\ Saved(upload.key, record)
                      /\ record.experiment = upload.made
                      /\ record.uploaded = upload.record.uploaded
    <3>. DEFINE made == [upload.record EXCEPT !.experiment = upload.made]
                failed == [made EXCEPT !.status = "failed"]
    <3>1. /\ made.experiment = upload.made /\ made.uploaded = upload.record.uploaded
          /\ failed.experiment = upload.made /\ failed.uploaded = upload.record.uploaded
      BY <1>2 DEF Record
    <3>2. Saved(upload.key, made) \/ Saved(upload.key, failed)
      BY <1>3 DEF SaveCreated, SaveAttached, SaveFails, Answered
    <3>. HIDE DEF made, failed
    <3>. QED
      BY <3>1, <3>2
  <2>. QED
    BY <1>1, <1>3, <2>1, CreatedSaved, NotMore, BoundsAssumption DEF WorldTyped
<1>4. CASE upload.step = "attached"
  <2>1. PICK record : /\ Saved(upload.key, record)
                      /\ record.experiment = upload.record.experiment
                      /\ record.uploaded = upload.record.uploaded \cup {upload.made}
    <3>. DEFINE sent == [upload.record EXCEPT !.uploaded = @ \cup {upload.made}]
                failed == [sent EXCEPT !.status = "failed"]
    <3>1. /\ sent.experiment = upload.record.experiment
          /\ sent.uploaded = upload.record.uploaded \cup {upload.made}
          /\ failed.experiment = upload.record.experiment
          /\ failed.uploaded = upload.record.uploaded \cup {upload.made}
      BY <1>2 DEF Record
    <3>2. Saved(upload.key, sent) \/ Saved(upload.key, failed)
      BY <1>4 DEF SaveCreated, SaveAttached, SaveFails, Answered
    <3>. HIDE DEF sent, failed
    <3>. QED
      BY <3>1, <3>2
  <2>. QED
    BY <1>1, <1>4, <2>1, AttachedSaved, NotMore, BoundsAssumption DEF WorldTyped
<1>5. CASE upload.step = "attach"
  <2>1. Saved(upload.key, [upload.record EXCEPT !.status = "failed"])
    BY <1>5 DEF SaveCreated, SaveAttached, SaveFails, Answered
  <2>2. \A k \in Key : /\ ledger'[k].experiment = ledger[k].experiment
                       /\ ledger'[k].uploaded = ledger[k].uploaded
    BY <1>5, <2>1, SavedStatus DEF Sending
  <2>. QED
    BY <1>1, <1>5, <2>2, QuietTwice
<1>. QED
  BY <1>1, <1>3, <1>4, <1>5

LEMMA CopiesCounted ==
    ASSUME ServerTyped, NEW i \in 1..Len(experiments), NEW f \in Files
    PROVE  Len(experiments[i].copies[f]) \in Nat
<1>1. experiments[i] \in Experiment
  BY DEF ServerTyped
<1>2. experiments[i].copies[f] \in Seq(0..MaxChanges)
  BY <1>1 DEF Experiment
<1>. QED
  BY <1>2

LEMMA OneLess == ASSUME NEW a \in Int, NEW b \in Int, a <= b + 1, a # b + 1 PROVE a <= b
OBVIOUS

\* One more copy of a file.
LEMMA CopyTwice ==
    ASSUME IInv, IInv', upload.step = "attach",
           NEW f \in NextFile, experiments' = Sent(f),
           NEW i, i = upload.record.experiment,
           NEW n \in Nat, n = Len(experiments[i].copies[f]),
           \A j \in 1..Len(experiments) :
              /\ Known(j) => Known(j)'
              /\ \A g \in Files : Confirmed(j, g) => Confirmed(j, g)'
    PROVE  Surplus' \subseteq Surplus \cup {<<i, f, n + 1>>}
<1>1. /\ i \in 1..Len(experiments) /\ f \in Files
      /\ Len(experiments') = Len(experiments)
      /\ Len(experiments'[i].copies[f]) = n + 1
      /\ \A g \in Files \ {f} : experiments'[i].copies[g] = experiments[i].copies[g]
      /\ \A j \in 1..Len(experiments) \ {i} : experiments'[j] = experiments[j]
  BY AttachTyped, SentGrows DEF IInv, Typed
<1>2. \A j : Extra(j)' => Extra(j)
  BY <1>1 DEF Extra
<1>3. ASSUME NEW j, NEW g, NEW m, Twice(j, g, m)'
      PROVE  Twice(j, g, m) \/ <<j, g, m>> = <<i, f, n + 1>>
  <2>1. /\ j \in 1..Len(experiments) /\ g \in Files
        /\ m \in (IF Confirmed(j, g)' THEN 2 ELSE 1)..Len(experiments'[j].copies[g])
    BY <1>1, <1>3 DEF Twice
  <2>2. Len(experiments[j].copies[g]) \in Nat
    BY <2>1 DEF IInv, Typed, ServerTyped, Experiment
  <2>3. CASE j = i /\ g = f
    <3>1. CASE m = n + 1
      BY <2>3, <3>1
    <3>2. CASE m # n + 1
      <4>1. Len(experiments[j].copies[g]) = n /\ Len(experiments'[j].copies[g]) = n + 1
        BY <1>1, <2>3
      <4>2. m \in Int /\ m <= n /\ (IF Confirmed(j, g)' THEN 2 ELSE 1) <= m
        <5>1. PICK low \in {1, 2} : low = (IF Confirmed(j, g)' THEN 2 ELSE 1)
          OBVIOUS
        <5>2. m \in low..(n + 1)
          BY <2>1, <4>1, <5>1
        <5>3. m \in Int /\ m <= n + 1 /\ low <= m /\ low \in Int /\ n \in Int
          BY <5>1, <5>2
        <5>4. m <= n
          BY <3>2, <5>3, OneLess
        <5>. QED
          BY <5>1, <5>3, <5>4
      <4>3. Confirmed(j, g) => Confirmed(j, g)'
        BY <2>1
      <4>4. m \in (IF Confirmed(j, g) THEN 2 ELSE 1)..Len(experiments[j].copies[g])
        BY <4>1, <4>2, <4>3
      <4>. QED
        BY <2>1, <4>4 DEF Twice
    <3>. QED
      BY <3>1, <3>2
  <2>4. CASE ~(j = i /\ g = f)
    <3>1. experiments'[j].copies[g] = experiments[j].copies[g]
      BY <1>1, <2>1, <2>4
    <3>2. m \in (IF Confirmed(j, g) THEN 2 ELSE 1)..Len(experiments[j].copies[g])
      BY <2>1, <2>2, <3>1
    <3>. QED
      BY <2>1, <3>2 DEF Twice
  <2>. QED
    BY <2>3, <2>4
<1>. QED
  BY <1>2, <1>3, SurplusStep DEF IInv, Typed

\* The copy that was answered is the one that is confirmed, and there was none.
LEMMA AttachTwice == ASSUME IInv, IInv', TwiceInv, Attach PROVE TwiceInv'
<1>1. upload.step = "attach" /\ UNCHANGED <<ledger, faults>>
  BY DEF Attach
<1>2. PICK f \in NextFile : /\ experiments' = Sent(f)
                           /\ upload' = [upload EXCEPT !.step = "attached", !.made = f]
  BY DEF Attach
<1>3. PICK i \in 1..Len(experiments) : i = upload.record.experiment
  BY <1>1, AttachTyped
<1>4. f \in Files /\ f \notin upload.record.uploaded
  BY <1>1, AttachTyped DEF Left
<1>5. PICK n \in Nat : n = Len(experiments[i].copies[f])
  BY <1>4, CopiesCounted DEF IInv, Typed
<1>6. \A j : (Known(j) => Known(j)') /\ \A g : Confirmed(j, g) => Confirmed(j, g)'
  BY <1>1 DEF Known, Confirmed
<1>7. Surplus' \subseteq Surplus \cup {<<i, f, n + 1>>}
  BY <1>1, <1>2, <1>3, <1>5, <1>6, CopyTwice
<1>8. Confirmed(i, f)' /\ ~Confirmed(i, f)
  <2>1. /\ upload'.step = "attached" /\ upload'.made = f
        /\ upload'.record = upload.record
    BY <1>1, <1>2, SendingShape DEF IInv, Typed, Sending
  <2>2. Confirmed(i, f)'
    BY <1>3, <2>1 DEF Confirmed
  <2>3. ASSUME NEW k \in Key, ledger[k].experiment = i PROVE f \notin ledger[k].uploaded
    <3>1. i # None
      BY DEF None, IInv, Typed, ServerTyped
    <3>2. experiments[i].key = k
      BY <2>3, <3>1 DEF IInv, LedgerInv, LedgerNeverAhead, Holds
    <3>3. upload.key \in Key /\ upload.record = ledger[upload.key]
      BY <1>1, SendingShape DEF IInv, Typed, LedgerInv, InStep, Sending
    <3>4. experiments[i].key = upload.key
      BY <1>3, <3>1, <3>3 DEF IInv, LedgerInv, LedgerNeverAhead, Holds
    <3>. QED
      BY <1>4, <3>2, <3>3, <3>4
  <2>. QED
    BY <1>1, <2>2, <2>3 DEF Confirmed
<1>9. <<i, f, 1>> \notin Surplus'
  <2>1. ~Twice(i, f, 1)'
    BY <1>8 DEF Twice
  <2>2. f # "experiment"
    BY <1>4 DEF Files
  <2>. QED
    BY <2>1, <2>2, SurplusIsNext DEF SurplusShape, IInv, Typed
<1>10. CASE n = 0
  <2>1. Surplus' \subseteq Surplus
    BY <1>7, <1>9, <1>10
  <2>. QED
    BY <1>1, <2>1, NotMore, BoundsAssumption DEF IInv, Typed, WorldTyped
<1>11. CASE n # 0
  <2>1. <<i, f, 1>> \in Surplus
    <3>1. Twice(i, f, 1)
      BY <1>4, <1>5, <1>8, <1>11 DEF Twice
    <3>. QED
      BY <3>1, SurplusIs DEF SurplusShape, IInv, Typed
  <2>2. /\ IsFiniteSet(Surplus') /\ Cardinality(Surplus') <= Cardinality(Surplus)
        /\ Cardinality(Surplus') \in Nat /\ Cardinality(Surplus) \in Nat
    BY <1>7, <1>9, <2>1, Exchanged, FS_CardinalityType DEF TwiceInv
  <2>. QED
    BY <1>1, <2>2, BoundsAssumption DEF TwiceInv, IInv, Typed, WorldTyped
<1>. QED
  BY <1>10, <1>11

LEMMA FailRequestTwice == ASSUME IInv, IInv', TwiceInv, FailRequest PROVE TwiceInv'
<1>1. /\ upload.step \in {"create", "tag", "attach"} /\ Fault
      /\ experiments' \in Unanswered
      /\ Saved(upload.key, [upload.record EXCEPT !.status = "failed"])
  BY DEF FailRequest, RequestMayFail
<1>2. \A k \in Key : /\ ledger'[k].experiment = ledger[k].experiment
                     /\ ledger'[k].uploaded = ledger[k].uploaded
  BY <1>1, SavedStatus DEF Sending
<1>3. \A j : (Known(j) => Known(j)') /\ \A g : Confirmed(j, g) => Confirmed(j, g)'
  BY <1>1, <1>2, SameKnowledge
<1>4. CASE UNCHANGED experiments
  BY <1>1, <1>2, <1>4, QuietTwice DEF Fault
<1>5. CASE upload.step = "create" /\
           experiments' = Append(experiments, NewExperiment(upload.key))
  <2>1. PICK n \in Nat : n = Len(experiments)
    BY DEF IInv, Typed, ServerTyped
  <2>2. Surplus' \subseteq Surplus \cup {<<n + 1, "experiment", 1>>}
    BY <1>3, <1>5, <2>1, NewTwice
  <2>. QED
    BY <1>1, <2>2, PaidFor DEF IInv, Typed
<1>6. ASSUME upload.step = "attach", NEW f \in NextFile, experiments' = Sent(f)
      PROVE  TwiceInv'
  <2>1. PICK i \in 1..Len(experiments) : i = upload.record.experiment
    BY <1>6, AttachTyped
  <2>2. PICK n \in Nat : n = Len(experiments[i].copies[f])
    <3>1. f \in Files
      BY <1>6, AttachTyped
    <3>. QED
      BY <3>1, CopiesCounted DEF IInv, Typed
  <2>3. Surplus' \subseteq Surplus \cup {<<i, f, n + 1>>}
    BY <1>3, <1>6, <2>1, <2>2, CopyTwice
  <2>. QED
    BY <1>1, <2>3, PaidFor DEF IInv, Typed
<1>. QED
  BY <1>1, <1>4, <1>5, <1>6 DEF Unanswered

\* A crash leaves at most the one answer that was not saved.
LEMMA InterruptedTwice == ASSUME IInv, IInv', TwiceInv, Interrupted PROVE TwiceInv'
<1>1. UNCHANGED <<ledger, experiments>> /\ Fault /\ upload' = Idle
  BY DEF Interrupted
<1>2. CASE upload.step \notin {"created", "attached"}
  BY <1>1, <1>2, QuietTwice DEF Fault
<1>3. CASE upload.step = "created"
  <2>1. PICK y : y = <<upload.made, "experiment", 1>>
    OBVIOUS
  <2>2. \A i : Extra(i)' => Extra(i) \/ <<i, "experiment", 1>> \in {y}
    BY <1>1, <1>3, <2>1 DEF Extra, Known
  <2>3. \A i, f : Confirmed(i, f) => Confirmed(i, f)'
    BY <1>1, <1>3 DEF Confirmed
  <2>4. \A i, f, n : Twice(i, f, n)' => Twice(i, f, n)
    BY <1>1, <2>3, TwiceKept
  <2>. QED
    BY <1>1, <2>2, <2>4, SurplusStep, PaidFor DEF IInv, Typed
<1>4. CASE upload.step = "attached"
  <2>1. PICK y : y = <<upload.record.experiment, upload.made, 1>>
    OBVIOUS
  <2>2. \A i : Extra(i)' => Extra(i)
    BY <1>1, <1>4 DEF Extra, Known
  <2>3. \A i, f : Confirmed(i, f) => Confirmed(i, f)' \/ <<i, f, 1>> = y
    BY <1>1, <1>4, <2>1 DEF Confirmed
  <2>4. \A i, f, n : Twice(i, f, n)' => Twice(i, f, n) \/ <<i, f, n>> \in {y}
    <3>1. ASSUME NEW i, NEW f, NEW n, Twice(i, f, n)'
          PROVE  Twice(i, f, n) \/ <<i, f, n>> \in {y}
      <4>1. /\ i \in 1..Len(experiments) /\ f \in Files
            /\ n \in (IF Confirmed(i, f)' THEN 2 ELSE 1)..Len(experiments[i].copies[f])
        BY <1>1, <3>1 DEF Twice
      <4>2. Len(experiments[i].copies[f]) \in Nat
        BY <4>1 DEF IInv, Typed, ServerTyped, Experiment
      <4>3. CASE n = 1 /\ Confirmed(i, f)
        BY <2>3, <4>1, <4>3
      <4>4. CASE n # 1 \/ ~Confirmed(i, f)
        <5>1. n \in (IF Confirmed(i, f) THEN 2 ELSE 1)..Len(experiments[i].copies[f])
          BY <4>1, <4>2, <4>4
        <5>. QED
          BY <4>1, <5>1 DEF Twice
      <4>. QED
        BY <4>3, <4>4
    <3>. QED
      BY <3>1
  <2>. QED
    BY <1>1, <2>2, <2>4, SurplusStep, PaidFor DEF IInv, Typed
<1>. QED
  BY <1>2, <1>3, <1>4

LEMMA InitTwice == Init => TwiceInv
<1>. SUFFICES ASSUME Init PROVE TwiceInv
  OBVIOUS
<1>1. experiments = <<>> /\ Len(experiments) = 0 /\ faults = 0
  BY DEF Init
<1>2. \A x : x \notin Surplus
  <2>1. SurplusShape
    BY InitIInv, SurplusIs DEF IInv, Typed
  <2>2. \A i, f, n : ~Extra(i) /\ ~Twice(i, f, n)
    BY <1>1 DEF Extra, Twice
  <2>. QED
    BY <2>1, <2>2 DEF SurplusShape
<1>3. Surplus = {}
  BY <1>2
<1>. QED
  BY <1>1, <1>3, FS_EmptySet DEF TwiceInv

LEMMA NextTwice == ASSUME IInv, IInv', TwiceInv, [Next]_vars PROVE TwiceInv'
<1>1. CASE UNCHANGED vars
  <2>1. Surplus' \subseteq Surplus
    BY <1>1, QuietSurplus DEF vars, Known, Confirmed
  <2>. QED
    BY <1>1, <2>1, NotMore, BoundsAssumption DEF vars, IInv, Typed, WorldTyped
<1>. QED
  BY <1>1, WorldTwice, RecordTwice, CreateTwice, SavingTwice, TagTwice, AttachTwice,
     FailRequestTwice, InterruptedTwice DEF Next, Thread

LEMMA TwiceAlways == Spec => [](IInv /\ TwiceInv)
<1>1. Init => IInv /\ TwiceInv
  BY InitIInv, InitTwice
<1>2. IInv /\ TwiceInv /\ [Next]_vars => (IInv /\ TwiceInv)'
  BY NextIInv, NextTwice
<1>. QED
  BY <1>1, <1>2, PTL DEF Spec

-----------------------------------------------------------------------------
(* What is claimed of an upload.                                           *)

\* Every variable keeps its shape: a record names only an experiment that the
\* server has, the content of a file is one of the states it was written in.
THEOREM TypeCorrect == Spec => []TypeOK
<1>1. IInv => TypeOK
  <2>. SUFFICES ASSUME IInv PROVE TypeOK
    OBVIOUS
  <2>1. upload.step \in {"idle", "check", "hash", "create", "created", "tag", "attach",
                         "attached", "told"}
    BY DEF IInv, Typed, UploadTyped, Looking, Sending, Idle
  <2>2. experiments \in Seq([key : Key, tagged : BOOLEAN,
                             copies : [Files -> Seq(0..MaxChanges)]])
    BY DEF IInv, Typed, ServerTyped, Experiment
  <2>. QED
    BY <2>1, <2>2 DEF TypeOK, IInv, Typed, WorldTyped, RecordsTyped, Disk
<1>. QED
  BY <1>1, Always, PTL

\* upload_result saves what the server has answered, and never before: however
\* often requests fail, answers are lost and the application dies, a record names
\* an experiment that was made for it and that holds every file it lists.
THEOREM NeverAhead == Spec => []LedgerNeverAhead
<1>1. IInv => LedgerNeverAhead
  BY DEF IInv, LedgerInv
<1>. QED
  BY <1>1, Always, PTL

\* When the page reports an upload as complete, the skip of an existing one
\* included, the server holds every attachment that was asked for.
THEOREM ReportTrue == Spec => []ReportIsTrue
<1>1. IInv => ReportIsTrue
  <2>. SUFFICES ASSUME IInv, upload.step = "told"
                PROVE  /\ ledger[upload.key].status = "uploaded"
                       /\ upload.files \subseteq ledger[upload.key].uploaded
                       /\ Holds(ledger[upload.key].experiment, upload.key, upload.files)
    BY DEF ReportIsTrue
  <2>1. upload.key \in Key /\ upload.files # {}
    BY SendingShape DEF Sending, IInv, Typed
  <2>2. /\ ledger[upload.key].status = "uploaded"
        /\ upload.files \subseteq ledger[upload.key].uploaded
    BY DEF IInv, LedgerInv, InStep, Sending
  <2>3. Holds(ledger[upload.key].experiment, upload.key, ledger[upload.key].uploaded)
    BY <2>1, <2>2 DEF IInv, LedgerInv, LedgerNeverAhead
  <2>. QED
    BY <2>2, <2>3 DEF Holds
<1>. QED
  BY <1>1, Always, PTL

\* The inventory's row of a run names only an experiment that a record of the
\* ledger knows and that holds a file.
THEOREM RowsKnown == Spec => []InventoryKnown
<1>1. IInv => InventoryKnown
  BY DEF IInv
<1>. QED
  BY <1>1, Always, PTL

\* Retries duplicate nothing by themselves: what the server has without the ledger
\* knowing it, or more than once, is no more than the faults: answers that were
\* lost, saves that failed and crashes between the two.
THEOREM RetriesDuplicateNothing == Spec => []NothingTwice
<1>1. TwiceInv => NothingTwice
  BY DEF TwiceInv, NothingTwice
<1>. QED
  BY <1>1, TwiceAlways, PTL
=============================================================================
