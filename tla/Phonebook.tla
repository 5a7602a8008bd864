----------------------------- MODULE Phonebook -----------------------------
(***************************************************************************)
(* structure: a phone book in an array on the heap.  Adding a record grows *)
(* the array, deleting one copies the others to a new array and frees the  *)
(* old one.  Searching and showing only read.                              *)
(*                                                                         *)
(* A name and a surname are one value, who.  The model carries along what  *)
(* the user believes to have: the records entered and not deleted.  What   *)
(* is typed is taken to fit name[21], surname[21] and number[16], which    *)
(* scanf() fills without a bound.                                          *)
(***************************************************************************)
EXTENDS Integers, Sequences, FiniteSets, SequencesExt

CONSTANTS
  People,    \* name and surname of a subscriber
  Phones,    \* telephone numbers
  Ids,       \* what is typed as the number of the record to delete
  MaxAdds    \* bound of the model: records ever entered

ASSUME PhonebookAssumption == Ids \subseteq Int /\ MaxAdds \in Nat

VARIABLES
  subs,    \* the array: amt records with id, who, number
  open,    \* the program runs
  told,    \* the message of the last command
  adds,    \* history: how many records were entered
  truth,   \* history: the records entered and not deleted, each with how
           \* many records behind it have been deleted
  strayed  \* history: a deletion was carried out for a negative number

bookVars == <<subs, open, told, adds, truth, strayed>>

amt == Len(subs)

BookInit ==
  /\ subs = <<>>
  /\ open = TRUE
  /\ told = "menu"
  /\ adds = 0
  /\ truth = <<>>
  /\ strayed = FALSE

\* malloc() for the first record (also when an array of no records is left
\* over from remove_sub(): it is lost), realloc() for the others.
add_sub(w, n) ==
  /\ open
  /\ adds < MaxAdds
  /\ subs' = Append(subs, [id |-> amt, who |-> w, number |-> n])
  /\ truth' = Append(truth, [who |-> w, number |-> n, behind |-> 0])
  /\ adds' = adds + 1
  /\ told' = "added"
  /\ UNCHANGED <<open, strayed>>

\* A loop that copies the numbers as if the last record were deleted.
WithoutLast(r) ==
  [k \in 1..(amt - 1) |->
     LET i == k - 1
     IN  [id |-> i,
          who |-> IF i >= r THEN subs[k + 1].who ELSE subs[k].who,
          number |-> subs[k].number]]

\* The loop of remove_sub(): element i of the new array, i counted from 0.
\* Name and surname skip record r; the number of element i is always taken
\* from element i + 1.
Without(r) ==
  [k \in 1..(amt - 1) |->
     LET i == k - 1
     IN  [id |-> i,
          who |-> IF i >= r THEN subs[k + 1].who ELSE subs[k].who,
          number |-> subs[k + 1].number]]

\* What the user expects to be left when record r, as the book is shown, is
\* deleted: the others, those ahead of it with one more deleted behind them.
Expected(r) ==
  RemoveAt([k \in DOMAIN truth |-> [truth[k] EXCEPT !.behind = IF k <= r THEN @ + 1 ELSE @]], r + 1)

\* A negative number is no record's, but it passes the test of line 81: the
\* user expects nothing to be deleted.
remove_sub(r) ==
  /\ open
  /\ amt > 0
  /\ IF r > amt - 1
     THEN told' = "no_such_record" /\ UNCHANGED <<subs, truth, strayed>>
     ELSE /\ told' = "deleted"
          /\ subs' = Without(r)
          /\ strayed' = (strayed \/ r < 0)
          /\ truth' = IF strayed' THEN truth ELSE Expected(r)
  /\ UNCHANGED <<open, adds>>

\* Commands 2, 3 and 4 on an empty book.
NothingThere ==
  /\ open
  /\ amt = 0
  /\ told' = "no_records"
  /\ UNCHANGED <<subs, open, adds, truth, strayed>>

\* sub_search(): the positions shown for a number.
sub_search(n) == {k \in 1..amt : subs[k].number = n}

\* quit()
quit ==
  /\ open
  /\ open' = FALSE
  /\ told' = "menu"
  /\ UNCHANGED <<subs, adds, truth, strayed>>

BookNext ==
  \/ \E w \in People, n \in Phones : add_sub(w, n)
  \/ \E r \in Ids : remove_sub(r)
  \/ NothingThere
  \/ quit

BookSpec == BookInit /\ [][BookNext]_bookVars
----------------------------------------------------------------------------
\* The book after any commands is what the user entered and did not delete, in
\* order, the id of a record its place: the copying of struct_home.c:90-108 skips
\* one record's name and no other's, and a record keeps its number as long as
\* none behind it is deleted.  Nothing is said once a negative number was typed.
BookRight ==
  ~strayed =>
    /\ Len(truth) = amt
    /\ \A k \in 1..amt :
         /\ subs[k].id = k - 1
         /\ subs[k].who = truth[k].who
         /\ truth[k].behind = 0 => subs[k].number = truth[k].number

\* What is typed is the number of the record to delete (the comment of
\* struct_home.c:76), so every other record stays as it was entered: a search by
\* number (command 3 of the menu) shows only people with their own number.  The
\* loop of remove_sub() does not keep this: line 105 gives the records ahead of
\* the deleted one the numbers behind them.
RecordsStay == ~strayed =>
  \A n \in Phones : \A k \in sub_search(n) :
    \E e \in Range(truth) : e.who = subs[k].who /\ e.number = n
============================================================================
