----------------------------- MODULE ElabUpload -----------------------------
(***************************************************************************)
(* Uploading a result to the electronic lab notebook: the page's single    *)
(* upload thread runs upload_result, which creates an experiment, tags it  *)
(* and attaches the files of the result, and keeps a record of what the    *)
(* server has confirmed in a ledger of its own.  Answers are lost, the     *)
(* application dies between any two steps and starts again, an aborted run *)
(* is resumed into the very file that is being uploaded.                   *)
(*                                                                         *)
(* A record is keyed by the result, the SHA-256 of its HDF5 file and the   *)
(* template; the hash is abstracted to the number of times the file has    *)
(* been written.                                                           *)
(***************************************************************************)
EXTENDS Naturals, Sequences, FiniteSets

CONSTANTS
    Results,    \* result files
    Templates,  \* experiment templates of the server
    Profiles,   \* the attachments a profile may ask for: sets of files
    MaxUploads, \* bound: uploads started
    MaxFaults,  \* bound: requests that fail, answers lost and crashes
    MaxChanges  \* bound: resumptions of aborted runs

Files == {"hdf5", "csv"}

ASSUME ProfilesAssumption == Profiles \subseteq (SUBSET Files) \ {{}}
ASSUME BoundsAssumption == {MaxUploads, MaxFaults, MaxChanges} \subseteq Nat

VARIABLES
    disk,        \* the result files as they are now
    ledger,      \* the records of elab_uploads.json
    experiments, \* the experiments of the server, in the order they were made
    upload,      \* the upload thread
    rows,        \* the inventory's rows of a result: the experiment each names, or 0
    uploads, faults, changes

vars == <<disk, ledger, experiments, upload, rows, uploads, faults, changes>>
world == <<disk, rows, changes>>

Key == [result : Results, content : 0..MaxChanges, template : Templates]
None == 0
Terminal == {"completed", "aborted"}   \* and "faulted", which is treated as aborted
NoRecord == [status |-> "none", experiment |-> None, uploaded |-> {}]
Idle == [step |-> "idle"]

Init ==
    /\ disk \in [Results -> [content : {0}, status : Terminal, csv : BOOLEAN]]
    /\ ledger = [k \in Key |-> NoRecord]
    /\ experiments = <<>>
    /\ upload = Idle
    /\ rows = [r \in Results |-> <<None>>]
    /\ uploads = 0 /\ faults = 0 /\ changes = 0

Fault == faults < MaxFaults /\ faults' = faults + 1

-----------------------------------------------------------------------------
(* The upload thread.                                                      *)

\* The page starts one upload at a time, of the profile the operator chose; an
\* automatic upload that meets a running one is dropped.
Start ==
    /\ upload = Idle
    /\ uploads < MaxUploads
    /\ uploads' = uploads + 1
    /\ \E r \in Results, t \in Templates, p \in Profiles :
         upload' = [step |-> "check", result |-> r, template |-> t, wanted |-> p]
    /\ UNCHANGED <<world, ledger, experiments, faults>>

\* Mutant: the upload of a result that is still being written waits for its end.
CheckWaits ==
    /\ upload.step = "check"
    /\ disk[upload.result].status \in Terminal
    /\ upload' = [upload EXCEPT !.step = "hash"]
    /\ UNCHANGED <<world, ledger, experiments, uploads, faults>>

\* The summary is read: a result that is not closed, or cannot be opened, is
\* refused before anything is recorded.
Check ==
    /\ upload.step = "check"
    /\ upload' = IF disk[upload.result].status \in Terminal
                 THEN [upload EXCEPT !.step = "hash"] ELSE Idle
    /\ UNCHANGED <<world, ledger, experiments, uploads, faults>>

Attachments(r, wanted) ==
    {f \in wanted : f = "csv" => disk[r].csv}
KeyNow(r, t) == [result |-> r, content |-> disk[r].content, template |-> t]

Saved(k, record) == ledger' = [ledger EXCEPT ![k] = record]

\* From here on the thread has the key, the attachments and its record.
Uploading(k, files, step, record) ==
    [step |-> step, key |-> k, files |-> files, made |-> None, record |-> record]

\* Mutant: a retry starts a record of its own.
ContinuedAfresh(k) == [NoRecord EXCEPT !.status = "pending"]
Continued(k) == [ledger[k] EXCEPT !.status = "pending"]

\* Mutant: an uploaded result is skipped whatever files it has.
SkipsUploaded(k, files) == ledger[k].status = "uploaded"
Skips(k, files) == ledger[k].status = "uploaded" /\ files \subseteq ledger[k].uploaded

\* The file is hashed and its record looked up: an upload already complete is only
\* reported, any other is marked pending and continued where its record stands.
Hash ==
    /\ upload.step = "hash"
    /\ LET k == KeyNow(upload.result, upload.template)
           files == Attachments(upload.result, upload.wanted)
       IN \/ /\ files = {}
             /\ upload' = Idle
             /\ UNCHANGED ledger
          \/ /\ files # {}
             /\ Skips(k, files)
             /\ upload' = Uploading(k, files, "told", ledger[k])
             /\ UNCHANGED ledger
          \/ /\ files # {}
             /\ ~Skips(k, files)
             /\ LET record == Continued(k)
                    step == IF record.experiment = None THEN "create" ELSE "attach"
                IN /\ upload' = Uploading(k, files, step, record)
                   /\ Saved(k, record)
    /\ UNCHANGED <<world, experiments, uploads, faults>>

NewExperiment(k) == [key |-> k, tagged |-> FALSE, copies |-> [f \in Files |-> <<>>]]

\* POST /experiments, answered with the number of the new experiment.
Create ==
    /\ upload.step = "create"
    /\ experiments' = Append(experiments, NewExperiment(upload.key))
    /\ upload' = [upload EXCEPT !.step = "created", !.made = Len(experiments')]
    /\ UNCHANGED <<world, ledger, uploads, faults>>

SaveCreated ==
    /\ upload.step = "created"
    /\ LET record == [upload.record EXCEPT !.experiment = upload.made]
       IN /\ Saved(upload.key, record)
          /\ upload' = [upload EXCEPT !.step = "tag", !.record = record]
    /\ UNCHANGED <<world, experiments, uploads, faults>>

\* The tags are added once, after the experiment is made: a tag that is refused
\* leaves a warning in the record and nothing else.
Tag ==
    /\ upload.step = "tag"
    /\ \/ /\ experiments' = [experiments EXCEPT ![upload.record.experiment].tagged = TRUE]
          /\ UNCHANGED faults
       \/ /\ Fault
          /\ UNCHANGED experiments
    /\ upload' = [upload EXCEPT !.step = "attach"]
    /\ UNCHANGED <<world, ledger, uploads>>

\* The attachments still to be sent, hdf5 first.
Left == upload.files \ upload.record.uploaded
NextFile == IF "hdf5" \in Left THEN {"hdf5"} ELSE Left
Sent(f) == [experiments EXCEPT ![upload.record.experiment].copies[f] =
              Append(@, disk[upload.key.result].content)]

\* POST .../uploads: the file is read while it is sent.
Attach ==
    /\ upload.step = "attach"
    /\ \E f \in NextFile :
         /\ experiments' = Sent(f)
         /\ upload' = [upload EXCEPT !.step = "attached", !.made = f]
    /\ UNCHANGED <<world, ledger, uploads, faults>>

SaveAttached ==
    /\ upload.step = "attached"
    /\ LET record == [upload.record EXCEPT !.uploaded = @ \cup {upload.made}]
       IN /\ Saved(upload.key, record)
          /\ upload' = [upload EXCEPT !.step = "attach", !.made = None, !.record = record]
    /\ UNCHANGED <<world, experiments, uploads, faults>>

Finish ==
    /\ upload.step = "attach"
    /\ Left = {}
    /\ LET record == [upload.record EXCEPT !.status = "uploaded"]
       IN /\ Saved(upload.key, record)
          /\ upload' = [upload EXCEPT !.step = "told", !.record = record]
    /\ UNCHANGED <<world, experiments, uploads, faults>>

\* The experiments if a failing request is, or is not, carried out by the server.
Unanswered ==
    {experiments} \cup
    IF upload.step = "create" THEN {Append(experiments, NewExperiment(upload.key))}
    ELSE IF upload.step = "attach" THEN {Sent(f) : f \in NextFile}
    ELSE {}

RequestMayFail == upload.step \in {"create", "tag"} \/ (upload.step = "attach" /\ Left # {})

\* Mutants: a file counts as uploaded when its transfer begins; a failed upload is
\* reported like any other.
FailRequestCounted ==
    /\ RequestMayFail
    /\ Fault
    /\ experiments' \in Unanswered
    /\ Saved(upload.key, [upload.record EXCEPT !.status = "failed",
                             !.uploaded = @ \cup IF upload.step = "attach" THEN NextFile ELSE {}])
    /\ upload' = Idle
    /\ UNCHANGED <<world, uploads>>
FailRequestTold ==
    /\ RequestMayFail
    /\ Fault
    /\ experiments' \in Unanswered
    /\ LET record == [upload.record EXCEPT !.status = "failed"]
       IN /\ Saved(upload.key, record)
          /\ upload' = [upload EXCEPT !.step = "told", !.record = record]
    /\ UNCHANGED <<world, uploads>>

\* A request fails: it may never have reached the server, or only its answer was
\* lost.  The attempt ends with the record marked failed.
FailRequest ==
    /\ RequestMayFail
    /\ Fault
    /\ experiments' \in Unanswered
    /\ Saved(upload.key, [upload.record EXCEPT !.status = "failed"])
    /\ upload' = Idle
    /\ UNCHANGED <<world, uploads>>

\* The GUI's slot tells the experiment to the inventory's rows whose path ends in
\* the file's name; a run is stored in a directory of its own, always as data.h5.
Told ==
    /\ upload.step = "told"
    /\ rows' = [r \in Results |-> [i \in DOMAIN rows[r] |-> upload.record.experiment]]
    /\ upload' = Idle
    /\ UNCHANGED <<disk, changes, ledger, experiments, uploads, faults>>

\* A save fails and the one that marks the record failed does not: it has the
\* answer that could not be saved.
Answered ==
    IF upload.step = "created" THEN [upload.record EXCEPT !.experiment = upload.made]
    ELSE IF upload.step = "attached" THEN [upload.record EXCEPT !.uploaded = @ \cup {upload.made}]
    ELSE upload.record
SaveFails ==
    /\ \/ upload.step \in {"created", "attached"}
       \/ upload.step = "attach" /\ Left = {}
    /\ Fault
    /\ Saved(upload.key, [Answered EXCEPT !.status = "failed"])
    /\ upload' = Idle
    /\ UNCHANGED <<world, experiments, uploads>>

\* The application dies, or the ledger cannot be written at all: nothing more is saved.
Interrupted ==
    /\ upload # Idle
    /\ Fault
    /\ upload' = Idle
    /\ UNCHANGED <<world, ledger, experiments, uploads>>

Thread == Check \/ Hash \/ Create \/ SaveCreated \/ Tag \/ Attach \/ SaveAttached \/ Finish
    \/ FailRequest \/ SaveFails \/ Interrupted

-----------------------------------------------------------------------------
(* The results, meanwhile.                                                 *)

\* A run that did not complete is resumed into its own file, with a CSV summary
\* beside it if the settings now ask for one.
Resume(r) ==
    /\ disk[r].status = "aborted"
    /\ changes < MaxChanges
    /\ changes' = changes + 1
    /\ \E csv \in {disk[r].csv, TRUE} :
         disk' = [disk EXCEPT ![r] = [content |-> @.content + 1, status |-> "running",
                                      csv |-> csv]]
    /\ UNCHANGED <<ledger, experiments, upload, rows, uploads, faults>>

\* Its end is one more row of the inventory, not yet uploaded.
RunEnds(r) ==
    /\ disk[r].status = "running"
    /\ \E how \in Terminal : disk' = [disk EXCEPT ![r].status = how]
    /\ rows' = [rows EXCEPT ![r] = Append(@, None)]
    /\ UNCHANGED <<ledger, experiments, upload, uploads, faults, changes>>

Next == Start \/ Thread \/ Told \/ \E r \in Results : Resume(r) \/ RunEnds(r)

Spec == Init /\ [][Next]_vars

\* A request is answered or times out, and the GUI serves its slots.
FairSpec == Spec /\ WF_vars(Thread) /\ WF_vars(Told)

-----------------------------------------------------------------------------
(* Properties.                                                             *)

Numbers == {None} \cup 1..Len(experiments)
Record == [status : {"none", "pending", "failed", "uploaded"},
           experiment : Numbers, uploaded : SUBSET Files]

\* The shape of every variable: a record names only an experiment the server has.
TypeOK ==
    /\ disk \in [Results -> [content : 0..MaxChanges, csv : BOOLEAN,
                             status : Terminal \cup {"running"}]]
    /\ ledger \in [Key -> Record]
    /\ experiments \in Seq([key : Key, tagged : BOOLEAN,
                            copies : [Files -> Seq(0..MaxChanges)]])
    /\ upload.step \in {"idle", "check", "hash", "create", "created", "tag", "attach",
                        "attached", "told"}
    /\ rows \in [Results -> Seq(Numbers)]
    /\ uploads \in 0..MaxUploads /\ faults \in 0..MaxFaults /\ changes \in 0..MaxChanges

\* Whether experiment i belongs to key k and holds every one of the files.
Holds(i, k, files) ==
    /\ i # None
    /\ experiments[i].key = k
    /\ \A f \in files : experiments[i].copies[f] # <<>>

\* The ledger never claims what the server has not confirmed: the experiment of a
\* record was made for that very result, hash and template, holds every file the
\* record lists, and a record is "uploaded" only with something uploaded
\* (upload_result saves after each answer, never before).
LedgerNeverAhead ==
    \A k \in Key :
        /\ ledger[k].experiment # None => Holds(ledger[k].experiment, k, ledger[k].uploaded)
        /\ ledger[k].uploaded # {} => ledger[k].experiment # None
        /\ ledger[k].status = "uploaded" => ledger[k].uploaded # {}

\* When the page reports an upload as complete, a skipped one included, one
\* experiment of the result holds every attachment that was asked for, and the
\* ledger says so (upload_result's skip of an existing upload).
ReportIsTrue ==
    upload.step = "told" =>
        LET record == ledger[upload.key]
        IN /\ record.status = "uploaded"
           /\ upload.files \subseteq record.uploaded
           /\ Holds(record.experiment, upload.key, upload.files)

Confirmed(i, f) ==
    \/ \E k \in Key : ledger[k].experiment = i /\ f \in ledger[k].uploaded
    \/ upload.step = "attached" /\ upload.record.experiment = i /\ upload.made = f
Known(i) ==
    \/ \E k \in Key : ledger[k].experiment = i
    \/ upload.step = "created" /\ upload.made = i

\* Experiments nobody knows, and copies of a file beyond the one that is known.
Surplus ==
    {<<i, "experiment", 1>> : i \in {j \in DOMAIN experiments : ~Known(j)}} \cup
    UNION {{<<i, f, n>> : n \in (IF Confirmed(i, f) THEN 2 ELSE 1)..Len(experiments[i].copies[f])} :
             i \in DOMAIN experiments, f \in Files}

\* Retries duplicate nothing by themselves: the experiments without a record and the
\* second copies of files are no more than the answers that were lost and the
\* crashes between an answer and its save ("A pending/failed record with a remote
\* experiment ID is resumed in place").
NothingTwice == Cardinality(Surplus) <= faults

Mentioned(r) == {rows[r][n] : n \in DOMAIN rows[r]} \ {None}
Kept(i, k) == ledger[k].experiment = i /\ ledger[k].uploaded # {}

\* A row of the inventory that says uploaded names an experiment which the ledger
\* knows and which holds a file, even if no row of that result was ever uploaded
\* (update_run_elab_status is told of completed uploads only).
InventoryKnown ==
    \A r \in Results : \A i \in Mentioned(r) : \E k \in Key : Kept(i, k)

\* "Update eLab upload status for a run file": a row of the inventory names only
\* an experiment made for the result of that row.
InventoryTruthful ==
    \A r \in Results : \A i \in Mentioned(r) : \E k \in Key : k.result = r /\ Kept(i, k)

\* An upload that has begun ends, whatever the network and the ledger do.
UploadEnds == upload # Idle ~> upload = Idle

\* Not a property of this code: the HDF5 file attached to an experiment is the one
\* whose SHA-256 the experiment quotes.  A run resumed between the hash and the
\* transfer is attached as it is then.
AttachedAsHashed ==
    \A i \in DOMAIN experiments : \A n \in DOMAIN experiments[i].copies["hdf5"] :
        experiments[i].copies["hdf5"][n] = experiments[i].key.content
=============================================================================
