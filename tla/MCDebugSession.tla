--------------------------- MODULE MCDebugSession ---------------------------
(* The debugging session on small programs: one that makes a context current,
   goes in and out of glBegin/glEnd and compiles shaders, on which the user sets a
   breakpoint, and one without breakpoints for the liveness checks. *)
EXTENDS DebugSession
SessionCalls == {"glXMakeCurrent", "glBegin", "glEnd", "glCompileShader"}
Breakpoints == {"glCompileShader"}
OneEvent == {"COMPILE_ERROR"}
StepCalls == {"glXMakeCurrent", "glBegin", "glEnd", "glGetError"}
NoName == {}
=============================================================================
