------------------------------ MODULE MC_Ipc ------------------------------
(* Processes for the shared-memory hand-over.  A frame has one or two      *)
(* chunks, the queue one place: a full queue is a single frame away.       *)
EXTENDS Ipc

CONSTANTS cpp_writer, cpp_writer2, cpp_reader, py_writer, py_reader

CppWriters == {cpp_writer, cpp_writer2}
CppWriter == {cpp_writer}
CppReader == {cpp_reader}
BothWriters == {cpp_writer, py_writer}
BothReaders == {cpp_reader, py_reader}
Scripts == {py_writer, py_reader}
Nobody == {}

OneOrTwo == {1, 2}
===========================================================================
