CONSTANTS
    Threads = {t1, t2}
    Handles = {h1}
    Methods = {m1}
    Implemented = {"open", "create", "close", "read", "write", "seek", "tell",
        "open_directory", "close_directory", "read_directory",
        "get_file_info", "is_local", "make_directory", "find_directory",
        "remove_directory", "move", "unlink", "check_same_fs",
        "set_file_info", "truncate", "create_symbolic_link", "file_control"}
    MaxDepth = 1
    MaxRefs = 3
    NULL = NULL
SPECIFICATION Spec
SYMMETRY Symmetry
INVARIANTS
    CallerMemoryAlive
CHECK_DEADLOCK FALSE
