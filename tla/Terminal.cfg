SPECIFICATION Spec
CONSTANTS
    MaxLines = 3
    MaxPrompts = 3
INVARIANTS
    TerminalGivenBack
    NothingAskedLate
    PromptsUndisturbed
