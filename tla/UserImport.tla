----------------------------- MODULE UserImport -----------------------------
(***************************************************************************)
(* Bulk imports of users into one application (internal/user/import.go,    *)
(* internal/admin), while other users register themselves.                 *)
(*                                                                         *)
(* An address is a mailbox and how it is spelled.  A file is a sequence of *)
(* records; the rows of an import are handled one statement at a time, and *)
(* a row that fails takes no other with it.                                *)
(***************************************************************************)
EXTENDS Naturals, Sequences, SequencesExt, FiniteSets

CONSTANTS
  Mailbox,     \* mailboxes
  File,        \* the files that are uploaded
  Req,         \* slots for requests being served at the same time
  MaxUsers,    \* bound: users created
  MaxRequests, \* bound: requests served
  MaxErrors,   \* bound: statements that fail
  None         \* no mailbox: an address that is missing or malformed

VARIABLES
  users,   \* the rows of users: [id, email, by]
  req,     \* the state of every request slot
  made,    \* users created so far
  served,  \* requests begun so far
  errors,  \* statements that have failed
  created, \* history: users each slot's import has created
  logged   \* history: users an import logged the registration of, by whether it
           \* had created them

vars == <<users, req, made, served, errors, created, logged>>

Email == [at : Mailbox, lower : BOOLEAN]
Record == [at : Mailbox \cup {None}, lower : BOOLEAN]

\* What the code lets the constants be.
UserImportAssumption == File \subseteq Seq(Record) /\ None \notin Mailbox

\* A result counts its rows, the users it created, the rows it skipped as
\* duplicates, and the errors it reports.
Result == [total : Nat, imported : Nat, skipped : Nat, errors : Nat]
Nothing == [total |-> 0, imported |-> 0, skipped |-> 0, errors |-> 0]
Steps == {"idle", "register", "check", "create", "look_up", "answer"}
Request == [pc : Steps, kind : {"", "own", "api", "console"},
            rows : Seq(Email), left : Seq(Email), result : Result]
Idle == [pc |-> "idle", kind |-> "", rows |-> <<>>, left |-> <<>>, result |-> Nothing]

Init ==
  /\ users = {} /\ req = [r \in Req |-> Idle] /\ made = 0
  /\ served = 0 /\ errors = 0
  /\ created = [r \in Req |-> {}] /\ logged = [b \in BOOLEAN |-> {}]

-----------------------------------------------------------------------------
At(r, step) == req[r].pc = step

Begin(r, first) ==
  /\ At(r, "idle") /\ served < MaxRequests
  /\ served' = served + 1
  /\ req' = [req EXCEPT ![r] = first] /\ created' = [created EXCEPT ![r] = {}]

Fails == errors < MaxErrors /\ errors' = errors + 1

Taken(email) == \E u \in users : u.email = email

\* The unique index on the address and the application.
Insert(email, by) ==
  /\ made < MaxUsers /\ made' = made + 1
  /\ users' = users \cup {[id |-> made', email |-> email, by |-> by]}

-----------------------------------------------------------------------------
(* A user registers, under the address as it was typed. *)

RegisterUser(r, email) ==
  /\ ~ Taken(email)
  /\ Begin(r, [Idle EXCEPT !.pc = "register", !.kind = "own", !.rows = <<email>>])
  /\ UNCHANGED <<users, made, errors, logged>>

CreateUser(r) ==
  LET email == req[r].rows[1] IN
  /\ At(r, "register")
  /\ \/ ~ Taken(email) /\ Insert(email, "own") /\ UNCHANGED errors
     \/ Taken(email) /\ UNCHANGED <<users, made, errors>>
     \/ Fails /\ UNCHANGED <<users, made>>
  /\ req' = [req EXCEPT ![r] = Idle]
  /\ UNCHANGED <<served, created, logged>>

\* Users delete their accounts, and so do administrators.
DeleteAccount ==
  /\ \E u \in users : users' = users \ {u}
  /\ UNCHANGED <<req, made, served, errors, created, logged>>

-----------------------------------------------------------------------------
(* An upload. *)

\* Mutant of Lower: the address is taken as it is spelled.
LowerNot(record) == record

Lower(record) == [record EXCEPT !.lower = TRUE]

ValidateImportEmail(record) == record.at # None

\* The rows that are valid, in lower case, and the number of those that are not.
Parsed(file) ==
  LET valid == SelectSeq(file, ValidateImportEmail) IN
  [rows |-> [i \in DOMAIN valid |-> Lower(valid[i])], errs |-> Len(file) - Len(valid)]

\* What cannot be read at all is one error.
Unreadable == [rows |-> <<>>, errs |-> 1]
ParseCSVImport(file) == {Parsed(file), Unreadable}
ParseJSONImport(file) == {Parsed(file), Unreadable}

\* The errors of the parser are counted with those of the rows.
Upload(r, kind, parsed) ==
  /\ Begin(r, [Idle EXCEPT !.pc = "check", !.kind = kind,
                           !.rows = parsed.rows, !.left = parsed.rows,
                           !.result.total = Len(parsed.rows) + parsed.errs,
                           !.result.errors = parsed.errs])
  /\ UNCHANGED <<users, made, errors, logged>>

ImportUsers(r) ==
  \E file \in File : \E parsed \in ParseCSVImport(file) \cup ParseJSONImport(file) :
    Upload(r, "api", parsed)

UserImport(r) ==
  \E file \in File : \E parsed \in ParseCSVImport(file) \cup ParseJSONImport(file) :
    Upload(r, "console", parsed)

-----------------------------------------------------------------------------
(* The rows of an import, each a check and an insertion; a row that fails is *)
(* reported, and the next one has its turn.                                  *)

\* Mutant of Skipped: the row is not among those that are reported.
SkippedSilently(result) == [result EXCEPT !.skipped = @ + 1]

Skipped(result) == [result EXCEPT !.skipped = @ + 1, !.errors = @ + 1]
Failed(result) == [result EXCEPT !.errors = @ + 1]
Imported(result) == [result EXCEPT !.imported = @ + 1]

\* The row is done with, and this is the result so far.
NextRow(r, result) ==
  req' = [req EXCEPT ![r].pc = "check", ![r].left = Tail(@), ![r].result = result]

CheckDuplicate(r) ==
  /\ At(r, "check") /\ req[r].left # <<>>
  /\ \/ /\ Taken(Head(req[r].left)) /\ NextRow(r, Skipped(req[r].result))
        /\ UNCHANGED errors
     \/ /\ ~ Taken(Head(req[r].left)) /\ req' = [req EXCEPT ![r].pc = "create"]
        /\ UNCHANGED errors
     \/ Fails /\ NextRow(r, Failed(req[r].result))
  /\ UNCHANGED <<users, made, served, created, logged>>

CreateRow(r) ==
  LET email == Head(req[r].left) IN
  /\ At(r, "create")
  /\ \/ /\ ~ Taken(email) /\ Insert(email, "import")
        /\ created' = [created EXCEPT ![r] = @ \cup {made'}]
        /\ NextRow(r, Imported(req[r].result))
        /\ UNCHANGED errors
     \/ /\ Taken(email) /\ NextRow(r, Failed(req[r].result))
        /\ UNCHANGED <<users, made, errors, created>>
     \/ Fails /\ NextRow(r, Failed(req[r].result)) /\ UNCHANGED <<users, made, created>>
  /\ UNCHANGED <<served, logged>>

\* The console logs a registration for each user it finds under an address of the
\* file, once a row has been imported; what it cannot read it does not log.
Found(r) == {u.id : u \in {v \in users : v.email \in ToSet(req[r].rows)}}

LogRegister(r, ids) ==
  logged' = [own \in BOOLEAN |->
               logged[own] \cup (IF own THEN ids \cap created[r] ELSE ids \ created[r])]

Answer(r) ==
  /\ At(r, "check") /\ req[r].left = <<>>
  /\ req' = [req EXCEPT ![r] = Idle]
  /\ IF req[r].kind = "console" /\ req[r].result.imported > 0
       THEN \/ LogRegister(r, Found(r)) /\ UNCHANGED errors
            \/ Fails /\ UNCHANGED logged
       ELSE UNCHANGED <<errors, logged>>
  /\ UNCHANGED <<users, made, served, created>>

Next ==
  \/ DeleteAccount
  \/ \E r \in Req :
       \/ \E email \in Email : RegisterUser(r, email)
       \/ CreateUser(r)
       \/ ImportUsers(r) \/ UserImport(r)
       \/ CheckDuplicate(r) \/ CreateRow(r) \/ Answer(r)

Spec == Init /\ [][Next]_vars

-----------------------------------------------------------------------------
(* Properties. *)

\* The variables have their types.
TypeOK ==
  /\ users \subseteq [id : 1..made, email : Email, by : {"own", "import"}]
  /\ req \in [Req -> Request] /\ made \in 0..MaxUsers
  /\ served \in 0..MaxRequests /\ errors \in 0..MaxErrors
  /\ created \in [Req -> SUBSET (1..made)] /\ logged \in [BOOLEAN -> SUBSET (1..made)]

\* However many imports and registrations run side by side, and however the files
\* spell a mailbox, imports give it one user (admin/repository.go:1373-1410).
OneImportedEach ==
  \A u, v \in {w \in users : w.by = "import"} : u.email.at = v.email.at => u = v

\* Of the records of a file, each was imported or is reported, with none counted
\* twice, and what counts as imported was created by this import
\* (admin/repository.go:1371-1419, admin/gui_handler.go:6806-6807).
EveryRowReported ==
  \A r \in Req : At(r, "check") =>
    /\ req[r].result.imported + req[r].result.errors + Len(req[r].left)
         = req[r].result.total
    /\ req[r].result.imported = Cardinality(created[r])

\* The rows of a file add up to users and reports (admin/repository.go:1371-1419).
ImportsAddUp == TypeOK /\ OneImportedEach /\ EveryRowReported
=============================================================================
