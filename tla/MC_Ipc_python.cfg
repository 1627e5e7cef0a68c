\* C++ and Python processes on both sides; scripts come and go, and the C++
\* writer may be killed anywhere.
CONSTANTS
    cpp_writer = cpp_writer
    cpp_writer2 = cpp_writer2
    cpp_reader = cpp_reader
    py_writer = py_writer
    py_reader = py_reader
    Writers <- BothWriters
    Readers <- BothReaders
    Python <- Scripts
    Killable <- CppWriter
    Sizes <- OneOrTwo
    Room = 2
    QueueMsgsCount = 1
    MaxFrames = 2

SPECIFICATION Spec

INVARIANTS
    TypeOK
    MutualExclusion
    ImageIsSnapshot

\* The writers may stop after MaxFrames frames.
CHECK_DEADLOCK FALSE
