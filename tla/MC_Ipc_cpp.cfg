\* Two C++ writers and the reader of "source ipc", frames of mixed sizes.
CONSTANTS
    cpp_writer = cpp_writer
    cpp_writer2 = cpp_writer2
    cpp_reader = cpp_reader
    py_writer = py_writer
    py_reader = py_reader
    Writers <- CppWriters
    Readers <- CppReader
    Python <- Nobody
    Killable <- Nobody
    Sizes <- OneOrTwo
    Room = 2
    QueueMsgsCount = 1
    MaxFrames = 4

SPECIFICATION FairSpec

PROPERTIES
    EveryFrameRead
    MailboxSpec

\* The writers may stop after MaxFrames frames.
CHECK_DEADLOCK FALSE
