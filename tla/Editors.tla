------------------------------ MODULE Editors ------------------------------
(***************************************************************************)
(* text_editor and text_editor2: F1 opens a file, F2 takes a text, F3      *)
(* saves and F4 quits.  The two programs treat fd and buf alike.           *)
(*                                                                         *)
(* save_func() closes the file but keeps its number in fd, and fd is 0,    *)
(* the terminal, before the first F1.  A file that is opened before the    *)
(* last one was saved leaves a descriptor behind.  buf keeps the text of   *)
(* the last F2, whatever file it was typed for.  A text is read without a  *)
(* look at the end of buf: one that is longer ends in "overrun", of which  *)
(* nothing is said.  The names of files are taken to fit file_name[128].   *)
(***************************************************************************)
EXTENDS Integers, Sequences, FiniteSetsExt

CONSTANTS
  Chars,     \* characters
  Contents,  \* the contents of the files by name
  Texts,     \* what a user may type
  BufSize,   \* the bytes of buf and of text (1024)
  FdLimit    \* descriptors of a process

Names == DOMAIN Contents

\* The marks of a descriptor that is no file's are not names of files.
ASSUME EditorsAssumption ==
  /\ Contents \in [Names -> Seq(Chars)]
  /\ Texts \subseteq Seq(Chars)
  /\ FdLimit \in Nat /\ FdLimit > 3
  /\ BufSize \in Nat
  /\ {"tty", "free"} \cap Names = {}

VARIABLES
  fd,
  text_buf,  \* buf
  desc,      \* the descriptors: the name of a file, "tty" or "free"
  offset,    \* the position of each descriptor
  files,     \* the contents of the files
  editor,    \* "runs", "ended", "deaf": the keyboard was closed, or "overrun"
  current    \* history: the file opened last, until it is saved

editVars == <<fd, text_buf, desc, offset, files, editor, current>>

Numbers == 0..(FdLimit - 1)
IsFile(n) == n \in Numbers /\ desc[n] \in Names

EditInit ==
  /\ fd = 0
  /\ text_buf = <<>>
  /\ desc = [n \in Numbers |-> IF n < 3 THEN "tty" ELSE "free"]
  /\ offset = [n \in Numbers |-> 0]
  /\ files = Contents
  /\ editor = "runs"
  /\ current = "none"

\* F1: open() takes the lowest number that is free, and read() moves past what
\* text[] holds of the file.  Without the file or a number fd is -1.
open_file(name) ==
  LET free == {n \in Numbers : desc[n] = "free"}
      new == Min(free)
  IN  /\ editor = "runs"
      /\ IF name \in Names /\ free # {}
         THEN /\ fd' = new
              /\ desc' = [desc EXCEPT ![new] = name]
              /\ offset' = [offset EXCEPT ![new] = Min({Len(files[name]), BufSize})]
              /\ current' = name
         ELSE fd' = -1 /\ current' = "none" /\ UNCHANGED <<desc, offset>>
      /\ UNCHANGED <<text_buf, files, editor>>

\* F2: refused without a descriptor; one that was closed passes.  wgetstr()
\* stores the text and a 0.
write_func(text) ==
  /\ editor = "runs"
  /\ fd > 0
  /\ text_buf' = text
  /\ editor' = IF Len(text) < BufSize THEN "runs" ELSE "overrun"
  /\ UNCHANGED <<fd, desc, offset, files, current>>

\* The contents after a write at position at.
Overlay(old, at, text) ==
  SubSeq(old, 1, at) \o text \o SubSeq(old, at + Len(text) + 1, Len(old))

\* A save_func() without lseek().
save_func_appends ==
  /\ editor = "runs"
  /\ IF IsFile(fd)
     THEN files' = [files EXCEPT ![desc[fd]] = Overlay(@, offset[fd], text_buf)]
     ELSE UNCHANGED files
  /\ desc' = [n \in Numbers |-> IF n = fd THEN "free" ELSE desc[n]]
  /\ editor' = IF fd = 0 THEN "deaf" ELSE "runs"
  /\ current' = "none"
  /\ UNCHANGED <<fd, text_buf, offset>>

\* F3: lseek() to 0, write() over the file, which is not truncated, and close().
\* On a number that is not open all three fail unnoticed.  With fd = 0 nothing
\* is written, buf being empty, and the keyboard is closed.
save_func ==
  /\ editor = "runs"
  /\ IF IsFile(fd)
     THEN files' = [files EXCEPT ![desc[fd]] = Overlay(@, 0, text_buf)]
     ELSE UNCHANGED files
  /\ desc' = [n \in Numbers |-> IF n = fd THEN "free" ELSE desc[n]]
  /\ editor' = IF fd = 0 THEN "deaf" ELSE "runs"
  /\ current' = "none"
  /\ UNCHANGED <<fd, text_buf, offset>>

\* F4: close() and exit()
quit_editor ==
  /\ editor = "runs"
  /\ editor' = "ended"
  /\ desc' = [n \in Numbers |-> "free"]
  /\ UNCHANGED <<fd, text_buf, offset, files, current>>

EditNext ==
  \/ \E name \in Names \cup {"missing"} : open_file(name)
  \/ \E text \in Texts : write_func(text)
  \/ save_func
  \/ quit_editor

EditSpec == EditInit /\ [][EditNext]_editVars
----------------------------------------------------------------------------
\* A file changes only when it is the one opened last and not saved since, and
\* then its beginning becomes the text typed last (file.c:8-10): no number that
\* was closed or left behind ever leads a save to another file, to a second
\* place in the file, or to the terminal, as long as the texts fit buf.
SavesLandRight ==
  [][/\ \A f \in Names : files'[f] # files[f] =>
          /\ f = current
          /\ files'[f] = text_buf \o SubSeq(files[f], Len(text_buf) + 1, Len(files[f]))
     /\ editor' = "deaf" => text_buf = <<>>]_editVars
============================================================================
