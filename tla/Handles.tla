------------------------------ MODULE Handles ------------------------------
(***************************************************************************)
(* lib/system/unique_fd.h and lib/function/result.h: a descriptor, or the  *)
(* error why there is none, is returned as a Result, and moved on from     *)
(* there until somebody closes or deletes it.                              *)
(*                                                                         *)
(* A Result is there with a value, a UniqueFD, or an error, a pointer to   *)
(* an Error; in the Result it was moved from it is -1 or nullptr.          *)
(*                                                                         *)
(* lib/system/memory_mapped_file.{h,cpp} and scoped_temp_dir.{h,cpp}: what *)
(* else is owned that way, with the Result<void> of map().  Behaviours     *)
(* with InitMappings are about these.                                      *)
(***************************************************************************)
EXTENDS Integers

CONSTANTS
    Results,      \* objects of class Result<UniqueFD>
    UniqueFDs,    \* other objects of class UniqueFD
    Descriptors,  \* numbers of descriptors the process may have
    Errors,       \* addresses, not NULL, of objects of class Error
    VoidResults,  \* objects of class Result<void>
    Files,        \* objects of class MemoryMappedFile
    Addresses,    \* not NULL, where the kernel may map a file
    Dirs,         \* objects of class ScopedTempDir
    Paths         \* that mkdtemp() may find

NoFD   == -1
NULL   == 0
Absent == -2  \* there is no such object
NoPath == 0

VARIABLES
    result,     \* of each Result, [is_error, fd or error], or NoResult
    fd_,        \* of each UniqueFD, or Absent
    open,       \* descriptors that are open
    allocated,  \* Errors that are allocated
    misused,    \* history: a descriptor that was not open was closed, or an
                \* Error that was not allocated was deleted
    error_,     \* of each Result<void>, or Absent
    data_,      \* of each MemoryMappedFile, or Absent
    mapped,     \* addresses where a file is mapped
    path_,      \* of each ScopedTempDir, or Absent
    on_disk     \* directories that there are

NoResult     == [is_error |-> FALSE, holds |-> Absent]
WithFD(fd)   == [is_error |-> FALSE, holds |-> fd]
WithError(e) == [is_error |-> TRUE, holds |-> e]

Init ==
    /\ result = [r \in Results |-> NoResult]
    /\ fd_ = [u \in UniqueFDs |-> Absent]
    /\ open = {}
    /\ allocated = {}
    /\ misused = FALSE

InitMappings ==
    /\ error_ = [r \in VoidResults |-> Absent]
    /\ data_ = [f \in Files |-> Absent]
    /\ mapped = {}
    /\ path_ = [d \in Dirs |-> Absent]
    /\ on_disk = {}
    /\ allocated = {}
    /\ misused = FALSE

-----------------------------------------------------------------------------
\* UniqueFD::close(), and delete of an Error.
Close(fd) ==
    /\ open' = open \ {fd}
    /\ misused' = (misused \/ fd \notin open \cup {NoFD})
    /\ UNCHANGED allocated

Delete(e) ==
    /\ allocated' = allocated \ {e}
    /\ misused' = (misused \/ e \notin allocated \cup {NULL})
    /\ UNCHANGED open

\* Result::reset()
reset(r) == IF result[r].is_error THEN Delete(result[r].holds) ELSE Close(result[r].holds)

Exists(r) == result[r] # NoResult

Keep == UNCHANGED <<open, allocated, misused>>

\* What std::exchange() leaves.
\* Mutant: the error is left where it was.
MovedKeepingError(r) == IF r.is_error THEN r ELSE WithFD(NoFD)

Moved(r) == IF r.is_error THEN WithError(NULL) ELSE WithFD(NoFD)

\* A call that returns a descriptor, or an error.
return_fd(r, fd) ==
    /\ ~Exists(r)
    /\ fd \in Descriptors \ open
    /\ open' = open \cup {fd}
    /\ result' = [result EXCEPT ![r] = WithFD(fd)]
    /\ UNCHANGED <<fd_, allocated, misused>>

return_error(r, e) ==
    /\ ~Exists(r)
    /\ e \in Errors \ allocated
    /\ allocated' = allocated \cup {e}
    /\ result' = [result EXCEPT ![r] = WithError(e)]
    /\ UNCHANGED <<fd_, open, misused>>

\* return other.error(): a copy, for errors that were not moved.
copy_error(r, other, e) ==
    /\ ~Exists(r) /\ Exists(other)
    /\ result[other].is_error /\ result[other].holds # NULL
    /\ e \in Errors \ allocated
    /\ allocated' = allocated \cup {e}
    /\ result' = [result EXCEPT ![r] = WithError(e)]
    /\ UNCHANGED <<fd_, open, misused>>

move_construct(r, other) ==
    /\ ~Exists(r) /\ Exists(other)
    /\ result' = [result EXCEPT ![r] = result[other], ![other] = Moved(result[other])]
    /\ Keep /\ UNCHANGED fd_

\* Not from itself: its value would be destroyed first.
move_assign(r, other) ==
    /\ r # other /\ Exists(r) /\ Exists(other)
    /\ reset(r)
    /\ result' = [result EXCEPT ![r] = result[other], ![other] = Moved(result[other])]
    /\ UNCHANGED fd_

destroy_result(r) ==
    /\ Exists(r)
    /\ reset(r)
    /\ result' = [result EXCEPT ![r] = NoResult]
    /\ UNCHANGED fd_

\* fd = std::move(*result), if it is no error.
take_value(u, r) ==
    /\ fd_[u] # Absent /\ Exists(r) /\ ~result[r].is_error
    /\ Close(fd_[u])
    /\ fd_' = [fd_ EXCEPT ![u] = result[r].holds]
    /\ result' = [result EXCEPT ![r] = WithFD(NoFD)]

create_fd(u) ==
    /\ fd_[u] = Absent
    /\ fd_' = [fd_ EXCEPT ![u] = NoFD]
    /\ Keep /\ UNCHANGED result

move_construct_fd(u, other) ==
    /\ fd_[u] = Absent /\ fd_[other] # Absent
    /\ fd_' = [fd_ EXCEPT ![u] = fd_[other], ![other] = NoFD]
    /\ Keep /\ UNCHANGED result

CloseFirst(u) == Close(fd_[u])

\* Also from itself: it is closed, and is -1.
move_assign_fd(u, other) ==
    /\ fd_[u] # Absent /\ fd_[other] # Absent
    /\ CloseFirst(u)
    /\ fd_' = IF u = other THEN [fd_ EXCEPT ![u] = NoFD]
              ELSE [fd_ EXCEPT ![u] = fd_[other], ![other] = NoFD]
    /\ UNCHANGED result

\* close(), or the destructor.
close_fd(u, after) ==
    /\ fd_[u] # Absent
    /\ Close(fd_[u])
    /\ fd_' = [fd_ EXCEPT ![u] = after]
    /\ UNCHANGED result

Next ==
    \/ \E r \in Results : \/ \E fd \in Descriptors : return_fd(r, fd)
                          \/ \E e \in Errors : return_error(r, e)
                          \/ \E other \in Results, e \in Errors : copy_error(r, other, e)
                          \/ \E other \in Results : move_construct(r, other) \/ move_assign(r, other)
                          \/ destroy_result(r)
    \/ \E u \in UniqueFDs : \/ create_fd(u) \/ close_fd(u, NoFD) \/ close_fd(u, Absent)
                            \/ \E r \in Results : take_value(u, r)
                            \/ \E other \in UniqueFDs : move_construct_fd(u, other)
                                                        \/ move_assign_fd(u, other)

-----------------------------------------------------------------------------
(* Result<void>, MemoryMappedFile and ScopedTempDir.                       *)

\* return Error(...);  a Result<void> without an error is NULL.
return_void(r, e) ==
    /\ error_[r] = Absent
    /\ e \notin allocated
    /\ error_' = [error_ EXCEPT ![r] = e]
    /\ allocated' = allocated \cup ({e} \ {NULL})
    /\ UNCHANGED misused

\* "return r.error();", also where the next error is returned.
copy_void_error(r, other, e) ==
    /\ error_[other] \notin {Absent, NULL} /\ e # NULL
    /\ return_void(r, e)
    /\ UNCHANGED <<data_, mapped, path_, on_disk>>

move_construct_void(r, other) ==
    /\ error_[r] = Absent /\ error_[other] # Absent
    /\ error_' = [error_ EXCEPT ![r] = error_[other], ![other] = NULL]
    /\ UNCHANGED <<allocated, misused, data_, mapped, path_, on_disk>>

\* Not from itself: the error would be deleted, and kept.
move_assign_void(r, other) ==
    /\ r # other /\ error_[r] # Absent /\ error_[other] # Absent
    /\ Delete(error_[r])
    /\ error_' = [error_ EXCEPT ![r] = error_[other], ![other] = NULL]
    /\ UNCHANGED <<data_, mapped, path_, on_disk>>

destroy_void(r) ==
    /\ error_[r] # Absent
    /\ Delete(error_[r])
    /\ error_' = [error_ EXCEPT ![r] = Absent]
    /\ UNCHANGED <<data_, mapped, path_, on_disk>>

\* munmap(), if there is something.
unmap(f) == mapped \ {data_[f]}

construct_file(f) ==
    /\ data_[f] = Absent
    /\ data_' = [data_ EXCEPT ![f] = NULL]
    /\ UNCHANGED <<allocated, misused, error_, mapped, path_, on_disk>>

\* map(): what was mapped before is unmapped in any case.  The descriptor is
\* closed on the way out, and nothing is mapped for an empty file.
map_file(f, r) ==
    /\ data_[f] # Absent
    /\ \E e \in Errors \cup {NULL}, address \in Addresses \cup {NULL} :
           /\ address \notin unmap(f)
           /\ e # NULL => address = NULL
           /\ return_void(r, e)
           /\ mapped' = unmap(f) \cup ({address} \ {NULL})
           /\ data_' = [data_ EXCEPT ![f] = address]
    /\ UNCHANGED <<path_, on_disk>>

\* unmap(), or the destructor.
unmap_file(f, after) ==
    /\ data_[f] # Absent
    /\ mapped' = unmap(f)
    /\ data_' = [data_ EXCEPT ![f] = after]
    /\ UNCHANGED <<allocated, misused, error_, path_, on_disk>>

move_construct_file(f, other) ==
    /\ data_[f] = Absent /\ data_[other] # Absent
    /\ data_' = [data_ EXCEPT ![f] = data_[other], ![other] = NULL]
    /\ UNCHANGED <<allocated, misused, error_, mapped, path_, on_disk>>

\* Also from itself: it is unmapped.
move_assign_file(f, other) ==
    /\ data_[f] # Absent /\ data_[other] # Absent
    /\ mapped' = unmap(f)
    /\ data_' = IF f = other THEN [data_ EXCEPT ![f] = NULL]
                ELSE [data_ EXCEPT ![f] = data_[other], ![other] = NULL]
    /\ UNCHANGED <<allocated, misused, error_, path_, on_disk>>

\* ScopedTempDir::create(), moved out of its Result.
create_dir(d, path) ==
    /\ path_[d] = Absent
    /\ path \notin on_disk
    /\ on_disk' = on_disk \cup {path}
    /\ path_' = [path_ EXCEPT ![d] = path]
    /\ UNCHANGED <<allocated, misused, error_, data_, mapped>>

construct_dir(d) ==
    /\ path_[d] = Absent
    /\ path_' = [path_ EXCEPT ![d] = NoPath]
    /\ UNCHANGED <<allocated, misused, error_, data_, mapped, on_disk>>

\* Both moves are those of the path.  Nothing is moved to a ScopedTempDir that
\* has a directory: nobody would remove that any more.
move_dir(d, other) ==
    /\ path_[d] \in {Absent, NoPath} /\ path_[other] # Absent /\ d # other
    /\ path_' = [path_ EXCEPT ![d] = path_[other], ![other] = NoPath]
    /\ UNCHANGED <<allocated, misused, error_, data_, mapped, on_disk>>

\* ~ScopedTempDir(), where the directory can be removed.
destroy_dir(d) ==
    /\ path_[d] # Absent
    /\ on_disk' = on_disk \ {path_[d]}
    /\ path_' = [path_ EXCEPT ![d] = Absent]
    /\ UNCHANGED <<allocated, misused, error_, data_, mapped>>

NextMappings ==
    \/ \E r, other \in VoidResults : \/ \E e \in Errors : copy_void_error(r, other, e)
                                     \/ move_construct_void(r, other)
                                     \/ move_assign_void(r, other)
    \/ \E r \in VoidResults : destroy_void(r) \/ \E f \in Files : map_file(f, r)
    \/ \E f \in Files : \/ construct_file(f) \/ unmap_file(f, NULL) \/ unmap_file(f, Absent)
                        \/ \E other \in Files : move_construct_file(f, other)
                                                \/ move_assign_file(f, other)
    \/ \E d \in Dirs : \/ construct_dir(d) \/ destroy_dir(d)
                       \/ \E path \in Paths : create_dir(d, path)
                       \/ \E other \in Dirs : move_dir(d, other)

-----------------------------------------------------------------------------
(***************************************************************************)
(* Each descriptor that is open, and each Error that is allocated, is held *)
(* once, and nothing else is held: nothing is closed or deleted twice, and *)
(* nothing is left open, mapped or on disk.                                *)
(***************************************************************************)
HoldersOf(fd) ==
    {r \in Results : result[r] = WithFD(fd)} \cup {u \in UniqueFDs : fd_[u] = fd}

HoldersOfError(e) == {r \in Results : result[r] = WithError(e)}

IsSingle(set) == \E x \in set : set = {x}

HeldOnce ==
    /\ ~misused
    /\ \A fd \in Descriptors : IF fd \in open THEN IsSingle(HoldersOf(fd)) ELSE HoldersOf(fd) = {}
    /\ \A e \in Errors : IF e \in allocated THEN IsSingle(HoldersOfError(e))
                         ELSE HoldersOfError(e) = {}

MappingsHeldOnce ==
    LET IsHeldOnce(set, what, of) ==
            \A x \in set : LET holders == {o \in DOMAIN of : of[o] = x}
                          IN  IF x \in what THEN IsSingle(holders) ELSE holders = {}
    IN  /\ ~misused
        /\ IsHeldOnce(Errors, allocated, error_)
        /\ IsHeldOnce(Addresses, mapped, data_)
        /\ IsHeldOnce(Paths, on_disk, path_)
=============================================================================
