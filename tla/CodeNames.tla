------------------------------- MODULE CodeNames -------------------------------
(***************************************************************************)
(* The names of the classification codes v12 returns bare: a memory of     *)
(* each process (ptv/v12/codeNameCache.ts) in front of a table they share  *)
(* (db/ptvCodeNameCacheService.ts).  One code stands for all of them; it   *)
(* is read with prime, asked from PTV when neither knows it, and written   *)
(* through with flush, three awaits at which other reads of the process    *)
(* may run.  A code PTV does not know is remembered too, for a shorter     *)
(* time.  The table may fail; nobody notices.                              *)
(***************************************************************************)
EXTENDS OrganisationCatalogue

CONSTANTS
    NameTtl, MissingTtl     \* DEFAULT_CODE_NAME_TTL_MS, MISSING_CODE_NAME_TTL_MS

ASSUME CodeNamesAssumption == NameTtl \in Nat /\ MissingTtl \in Nat

VARIABLES
    known,      \* external: PTV's vocabulary has the code
    memory,     \* CodeNameCache.entries of each process
    pending,    \* CodeNameCache.pending of each process
    store,      \* the code's row in ptv_code_name_cache
    unsaved     \* history: the entries set and neither saved nor lost by a failed save

codeVars == <<known, memory, pending, store, unsaved>>

-----------------------------------------------------------------------------
\* "setAt" is history.
Entry(found, set) ==
  [found |-> found, expiresAt |-> set + (IF found THEN NameTtl ELSE MissingTtl), setAt |-> set]

CodeInit ==
  /\ memory = [p \in Processes |-> Null] /\ pending = [p \in Processes |-> <<>>]
  /\ store \in {Null, Entry(TRUE, -1)} /\ unsaved = {}
  /\ known = (store # Null)

\* get: an entry that expired is as good as none.
Remembers(p) == memory[p] # Null /\ memory[p].expiresAt > now

\* set
Set(p, found) ==
  /\ memory' = [memory EXCEPT ![p] = Entry(found, now)]
  /\ pending' = [pending EXCEPT ![p] = Append(@, Entry(found, now))]
  /\ unsaved' = unsaved \cup {<<p, Entry(found, now)>>}

\* withCodeNames: the keys the page's entries lack names for are primed.
LookUp(c) == IF Remembers(call[c].process) THEN "flush" ELSE "load"

\* prime's query: an unexpired row, or none when the table cannot be read.
LoadRow(c) ==
  /\ At(c, "load")
  /\ \E row \in {store, Null} :
       call' = [call EXCEPT ![c].pc = "primed",
                            ![c].answer = IF row # Null /\ row.expiresAt > now THEN row ELSE Null]
  /\ UNCHANGED <<catalogueVars, codeVars>>

\* prime's end puts the row into memory, over what another read may have put
\* there meanwhile; a code still missing is asked from PTV.
Prime(c) ==
  LET p == call[c].process
      row == call[c].answer
      primed == row # Null /\ row.expiresAt > now
  IN
  /\ At(c, "primed")
  /\ memory' = [memory EXCEPT ![p] = IF primed THEN row ELSE @]
  /\ call' = [call EXCEPT ![c].answer = Null, ![c].pc = IF primed \/ Remembers(p) THEN "flush" ELSE "fetch"]
  /\ UNCHANGED <<catalogueVars, known, pending, store, unsaved>>

\* A failed lookup leaves the entry as it is rather than failing the read.
AskName(c) ==
  /\ At(c, "fetch")
  /\ \/ /\ call' = [call EXCEPT ![c].pc = "answered", ![c].answer = known]
        /\ UNCHANGED events
     \/ Event /\ Goto(c, "flush")
  /\ UNCHANGED <<now, ptvOrgs, api, table, codeVars>>

\* What PTV knows is remembered; that it does not know the code only when
\* memory has nothing.
RememberName(c) ==
  LET p == call[c].process IN
  /\ At(c, "answered")
  /\ IF call[c].answer \/ ~Remembers(p)
     THEN Set(p, call[c].answer)
     ELSE UNCHANGED <<memory, pending, unsaved>>
  /\ call' = [call EXCEPT ![c].pc = "flush", ![c].answer = Null]
  /\ UNCHANGED <<catalogueVars, known, store>>

\* flush takes what is pending out before it saves.  Nothing pending: it
\* returns at once.
BeginFlush(c) ==
  LET p == call[c].process IN
  /\ At(c, "flush")
  /\ IF pending[p] = <<>>
     THEN Goto(c, "complete") /\ UNCHANGED pending
     ELSE /\ call' = [call EXCEPT ![c].pc = "save", ![c].answer = pending[p]]
          /\ pending' = [pending EXCEPT ![p] = <<>>]
  /\ UNCHANGED <<catalogueVars, known, memory, store, unsaved>>

\* Mutant: what was set during the save is thrown away with what was saved.
SaveAndClear(c) ==
  LET p == call[c].process
      rows == call[c].answer
  IN
  /\ At(c, "save")
  /\ store' = Last(rows)
  /\ unsaved' = unsaved \ {<<p, rows[i]>> : i \in DOMAIN rows}
  /\ pending' = [pending EXCEPT ![p] = <<>>]
  /\ call' = [call EXCEPT ![c].pc = "complete", ![c].answer = Null]
  /\ UNCHANGED <<catalogueVars, known, memory>>

\* save keeps the last write of a key, over whatever the table has.  A save
\* that fails is forgotten.
Save(c) ==
  LET p == call[c].process
      rows == call[c].answer
  IN
  /\ At(c, "save")
  /\ store' \in {store, Last(rows)}
  /\ unsaved' = unsaved \ {<<p, rows[i]>> : i \in DOMAIN rows}
  /\ call' = [call EXCEPT ![c].pc = "complete", ![c].answer = Null]
  /\ UNCHANGED <<catalogueVars, known, memory, pending>>

\* External: PTV adds the code to its vocabulary, or drops it.
VocabularyChanges ==
  /\ Event
  /\ known' = ~known
  /\ UNCHANGED <<now, ptvOrgs, api, table, call, memory, pending, store, unsaved>>

CodeStep(c) ==
  LoadRow(c) \/ Prime(c) \/ AskName(c) \/ RememberName(c) \/ BeginFlush(c) \/ Save(c)

-----------------------------------------------------------------------------
CodeTypeOK ==
  /\ known \in BOOLEAN
  /\ \A p \in Processes : memory[p] = Null \/ memory[p].found \in BOOLEAN

\* A name is used no longer than its time from when PTV gave it, and "PTV has
\* no such code" for a day only, however often processes pass them on to one
\* another through the table.
NamesGrowOld ==
  \A p \in Processes : Remembers(p) =>
    now < memory[p].setAt + (IF memory[p].found THEN NameTtl ELSE MissingTtl)

\* Every name remembered is on its way to the table, until it is saved or its
\* save fails: one that is set while another read saves is not lost with it.
NothingSetIsLost ==
  \A e \in unsaved :
    \/ e[2] \in ToSet(pending[e[1]])
    \/ \E c \in Calls : At(c, "save") /\ call[c].process = e[1] /\ e[2] \in ToSet(call[c].answer)

\* A cached name is neither kept too long nor lost on its way to the table.
NamesAreKept ==
  /\ NamesGrowOld
  /\ NothingSetIsLost
=============================================================================
