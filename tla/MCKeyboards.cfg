SPECIFICATION Spec
CONSTANTS
  c1 = c1
  Key <- MCKey
  Use <- MCUse
  NoKey = NoKey
  KeyCode = {"leftctrl", "rightctrl", "leftalt", "f1", "f2"}
  Modifier <- MCModifier
  FnKey = {"f1", "f2"}
  F1 = "f1"
  Binding <- MCBinding
  Chord <- MCChord
  MaxQueue = 1
INVARIANTS
  ViewsAgree
PROPERTIES
  EnterOnce
  NoKeySticks
  BindingsFire
