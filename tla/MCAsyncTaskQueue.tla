-------------------------- MODULE MCAsyncTaskQueue --------------------------
(* AsyncTaskQueue with three tasks, so that one can run, one sit in _.delay *)
(* and one wait in the buffer.                                              *)
EXTENDS AsyncTaskQueue
=============================================================================
